----------------------------- MODULE OrderBook -----------------------------
(***************************************************************************)
(* What the order book (src/order_book.cpp) promises to the matching       *)
(* engine and to the trader's replica: for each side and each price of the *)
(* band, a first-in-first-out queue of resting orders.  The ladder, its    *)
(* bitmap, the node pool and the id map are how the code keeps it.         *)
(***************************************************************************)
EXTENDS Integers, Sequences, FiniteSets

CONSTANTS
  MinPrice, MaxPrice, TickSize,  \* BookConfig: the price band, inclusive
  MaxOrders                      \* BookConfig::max_orders

ASSUME BandAssumption ==
  /\ MinPrice \in Int /\ MaxPrice \in Int /\ MinPrice <= MaxPrice
  /\ TickSize \in Nat \ {0}
  /\ (MaxPrice - MinPrice) % TickSize = 0
  /\ MaxOrders \in Nat \ {0}

LOCAL SX == INSTANCE SequencesExt
LOCAL FX == INSTANCE FiniteSetsExt

Sides == {"Buy", "Sell"}
Opposite(side) == IF side = "Buy" THEN "Sell" ELSE "Buy"

\* valid_price
Prices == {p \in MinPrice .. MaxPrice : (p - MinPrice) % TickSize = 0}

\* The levels of both ladders; a queue's entries are
\* [id, qty, owner, user_ref].
EmptyBook == [s \in Sides |-> [p \in Prices |-> << >>]]

\* Every resting order, with the level it rests at.
Resting(b) ==
  UNION {{[side |-> s, price |-> p, id |-> b[s][p][i].id,
           qty |-> b[s][p][i].qty, owner |-> b[s][p][i].owner,
           user_ref |-> b[s][p][i].user_ref] : i \in DOMAIN b[s][p]} : s \in Sides, p \in Prices}

LiveIds(b) == {o.id : o \in Resting(b)}

\* find: precondition id \in LiveIds(b)
Find(b, id) == CHOOSE o \in Resting(b) : o.id = id

\* front(side) and best_price(side): precondition the side is not empty.
Occupied(b, side) == {p \in Prices : b[side][p] # << >>}
BestPrice(b, side) == IF side = "Buy" THEN FX!Max(Occupied(b, side)) ELSE FX!Min(Occupied(b, side))
FrontOrder(b, side) ==
  LET p == BestPrice(b, side)
  IN  [side |-> side, price |-> p, id |-> b[side][p][1].id,
       qty |-> b[side][p][1].qty, owner |-> b[side][p][1].owner,
       user_ref |-> b[side][p][1].user_ref]

\* add: the checks in the code's order, then the tail of the level's queue.
AddResult(b, o) ==
  IF o.price \notin Prices THEN "BadPrice"
  ELSE IF o.qty = 0 THEN "BadQty"
  ELSE IF Cardinality(LiveIds(b)) = MaxOrders THEN "Full"
  ELSE IF o.id \in LiveIds(b) \/ o.id = 0 THEN "DuplicateId"
  ELSE "Ok"

\* The entry of order o in its queue.
Entry(o) == [id |-> o.id, qty |-> o.qty, owner |-> o.owner, user_ref |-> o.user_ref]

Add(b, o) ==
  [b EXCEPT ![o.side][o.price] = Append(@, Entry(o))]

\* remove, and unlink_and_free: the other orders keep their places.
Remove(b, id) ==
  [s \in Sides |-> [p \in Prices |-> SelectSeq(b[s][p], LAMBDA e : e.id # id)]]

\* reduce succeeds when the order is known and has that much open.
CanReduce(b, id, by) == id \in LiveIds(b) /\ by <= Find(b, id).qty

\* Faulty variant: a reduction costs the order its place.
ReduceToBack(b, id, by) ==
  LET o == Find(b, id)
  IN  IF by = o.qty THEN Remove(b, id) ELSE Add(Remove(b, id), [o EXCEPT !.qty = @ - by])

\* reduce (and reduce_front): the order keeps its place, or leaves at zero.
Reduce(b, id, by) ==
  LET o == Find(b, id)
      keep(e) == IF e.id = id THEN [e EXCEPT !.qty = @ - by] ELSE e
  IN  IF by = o.qty
        THEN Remove(b, id)
        ELSE [b EXCEPT ![o.side][o.price] = [i \in DOMAIN @ |-> keep(@[i])]]

\* for_each_order: bids, then asks, each best price first, each price in FIFO
\* order; the owner and its number are not shown.
Better(side, p, q) == IF side = "Buy" THEN p > q ELSE p < q

Orders(b) ==
  LET shown(s, p) == [i \in DOMAIN b[s][p] |->
                       [side |-> s, price |-> p, id |-> b[s][p][i].id,
                        qty |-> b[s][p][i].qty]]
      side(s) == SX!FlattenSeq([k \in 1 .. Cardinality(Occupied(b, s)) |->
                   shown(s, SX!SetToSortSeq(Occupied(b, s), LAMBDA p, q : Better(s, p, q))[k])])
  IN  side("Buy") \o side("Sell")

\* The book as the public feed shows it.
Public(b) == [s \in Sides |-> [p \in Prices |->
               [i \in DOMAIN b[s][p] |-> [b[s][p][i] EXCEPT !.owner = 0, !.user_ref = 0]]]]
----------------------------------------------------------------------------
(* apply_itch (include/feed_handler.hpp): a message is "A" (add), "E"       *)
(* (executed), "X" (partly cancelled), "D" (deleted) or, for an event or    *)
(* another symbol's message, "-" (ignored).                                 *)

\* An order of the public feed has no owner: add's default arguments.
Anonymous(o) == [side |-> o.side, price |-> o.price, id |-> o.id, qty |-> o.qty,
                 owner |-> 0, user_ref |-> 0]

\* The message is not Inconsistent with the replica b.
Consistent(b, m) ==
  CASE m.type = "A" -> AddResult(b, m) = "Ok"
    [] m.type \in {"E", "X"} -> CanReduce(b, m.id, m.qty)
    [] m.type = "D" -> m.id \in LiveIds(b)
    [] OTHER -> TRUE

\* The replica after a consistent message.
ApplyItch(b, m) ==
  CASE m.type = "A" -> Add(b, Anonymous(m))
    [] m.type \in {"E", "X"} -> Reduce(b, m.id, m.qty)
    [] m.type = "D" -> Remove(b, m.id)
    [] OTHER -> b

\* Trader::snapshot: the orders of a snapshot are added to a cleared book; the
\* result of add is not looked at.
LoadOrders(s) ==
  SX!FoldLeft(LAMBDA b, o : IF AddResult(b, o) = "Ok" THEN Add(b, Anonymous(o)) ELSE b, EmptyBook, s)
============================================================================
