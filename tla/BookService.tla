---------------------------- MODULE BookService ----------------------------
(***************************************************************************)
(* The order book as its callers see it: OrderBook's queues, changed by    *)
(* one public operation at a time.                                         *)
(***************************************************************************)
EXTENDS OrderBook

CONSTANTS
  Requests,     \* the orders its callers add
  Qtys          \* the quantities they take off

VARIABLE book

Init == book = EmptyBook

\* An operation turns book b into book c.
Added(b, c) == \E o \in Requests : c = Add(b, o) /\ AddResult(b, o) = "Ok"
Reduced(b, c) == \E o \in Resting(b) : \E by \in Qtys : by <= o.qty /\ c = Reduce(b, o.id, by)
Removed(b, c) == \E o \in Resting(b) : c = Remove(b, o.id)
FrontReduced(b, c) ==
  \E side \in Sides, by \in Qtys :
    /\ Occupied(b, side) # {}
    /\ by <= FrontOrder(b, side).qty
    /\ c = Reduce(b, FrontOrder(b, side).id, by)
Cleared(b, c) == c = EmptyBook

Changed(b, c) == Cleared(b, c) \/ Removed(b, c) \/ Added(b, c) \/ Reduced(b, c) \/ FrontReduced(b, c)

Next == \E b \in {book}, c \in {book'} : Changed(b, c)

Spec == Init /\ [][Next]_book
============================================================================
