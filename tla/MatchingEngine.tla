--------------------------- MODULE MatchingEngine ---------------------------
(***************************************************************************)
(* MatchingEngine (src/matching_engine.cpp): price-time priority matching  *)
(* over one OrderBook per symbol.  Each iteration of submit's loop is a    *)
(* step of its own.  Beside each action stands the EngineListener callback *)
(* it makes; what a listener does with it is part of the same step and is  *)
(* added by the module that has the listener.  The exchange is one thread: *)
(* nothing else runs until submit returns.                                 *)
(***************************************************************************)
EXTENDS OrderBook

CONSTANTS
  Locates,      \* the listed symbols
  Owners,       \* session ids; 0 is the exchange's synthetic flow
  MaxOrderQty,  \* max_order_qty_
  MaxIds        \* bound: orders entered in a behaviour

ASSUME EngineAssumption ==
  /\ Owners \subseteq Nat /\ 0 \notin Locates
  /\ MaxOrderQty \in Nat \ {0} /\ MaxIds \in Nat

VARIABLES
  books,          \* books_: the book of each symbol
  stp,            \* stp_: the self-match policy the engine was built with
  req,            \* the order submit is working on; NoReq between calls
  remaining,      \* what is left of it
  next_match,     \* next_match_
  next_order_id   \* the callers' counter: every submitted order gets a new id

vars == <<books, stp, req, remaining, next_match, next_order_id>>

NoReq == [id |-> 0]
\* cancel makes no callback when it changes nothing.
NoEvent == [kind |-> "none"]
Idle == req = NoReq

\* What a caller may submit: an unknown symbol, a quantity of zero or beyond the
\* limit and a price outside the band included.
Requests(id, owner, ref) ==
  [locate : Locates \cup {0}, id : {id}, side : Sides, price : Prices \cup {MaxPrice + TickSize},
   qty : 0 .. MaxOrderQty + 1, tif : {"Day", "IOC"}, owner : {owner}, user_ref : {ref}]

Init ==
  /\ books = [l \in Locates |-> EmptyBook]
  /\ stp \in {"CancelResting", "CancelIncoming"}
  /\ req = NoReq /\ remaining = 0
  /\ next_match = 1 /\ next_order_id = 1
----------------------------------------------------------------------------
Book == books[req.locate]
SetBook(b) == books' = [books EXCEPT ![req.locate] = b]
Return == req' = NoReq /\ remaining' = 0

\* submit's validation, in the code's order; "" when the order is accepted.
RejectReason(r) ==
  IF r.locate \notin Locates THEN "UnknownSymbol"
  ELSE IF r.qty = 0 \/ r.qty > MaxOrderQty THEN "BadQty"
  ELSE IF r.price \notin Prices THEN "BadPrice"
  ELSE IF r.id \in LiveIds(books[r.locate]) THEN "DuplicateId"
  ELSE ""

SubmitRejected(r) ==
  /\ Idle
  /\ RejectReason(r) # ""
  /\ next_order_id' = next_order_id + 1
  /\ UNCHANGED <<books, stp, req, remaining, next_match>>
RejectedEvent(r) ==
  [kind |-> "rejected", owner |-> r.owner, user_ref |-> r.user_ref, why |-> RejectReason(r)]

SubmitAccepted(r) ==
  /\ Idle
  /\ RejectReason(r) = ""
  /\ req' = r
  /\ remaining' = r.qty
  /\ next_order_id' = next_order_id + 1
  /\ UNCHANGED <<books, stp, next_match>>
AcceptedEvent(r) == [kind |-> "accepted", req |-> r]

\* The loop's guards: the best order of the other side, and whether it crosses.
Contra == Opposite(req.side)
Maker == FrontOrder(Book, Contra)

\* Faulty variant: an equal price does not cross.
CrossesStrictly ==
  /\ Occupied(Book, Contra) # {}
  /\ IF req.side = "Buy" THEN Maker.price < req.price ELSE Maker.price > req.price

Crosses ==
  /\ Occupied(Book, Contra) # {}
  /\ IF req.side = "Buy" THEN Maker.price <= req.price ELSE Maker.price >= req.price
SelfMatch == req.owner # 0 /\ Maker.owner = req.owner

\* Faulty variant: a resting order of the same firm is reported but stays.
AfterSelfMatchKept == Book

\* The book once the resting order of a self-match is out of the way.
AfterSelfMatch == Remove(Book, Maker.id)

\* CancelResting: the resting order goes and the loop continues.
SelfMatchCancelResting ==
  /\ ~Idle /\ Crosses /\ SelfMatch /\ stp = "CancelResting"
  /\ SetBook(AfterSelfMatch)
  /\ UNCHANGED <<stp, req, remaining, next_match, next_order_id>>
SelfMatchRestingEvent ==
  [kind |-> "resting_cancelled", locate |-> req.locate, before |-> Maker,
   cancelled |-> Maker.qty, why |-> "SelfMatch"]

\* CancelIncoming: what is left of the new order goes and submit returns.
SelfMatchCancelIncoming ==
  /\ ~Idle /\ Crosses /\ SelfMatch /\ stp = "CancelIncoming"
  /\ Return
  /\ UNCHANGED <<books, stp, next_match, next_order_id>>
SelfMatchIncomingEvent ==
  [kind |-> "taker_cancelled", req |-> req, cancelled |-> remaining, why |-> "SelfMatch"]

\* A fill at the maker's price; the loop ends when nothing is left.
FillQty == IF remaining < Maker.qty THEN remaining ELSE Maker.qty
MatchFill ==
  /\ ~Idle /\ Crosses /\ ~SelfMatch
  /\ SetBook(Reduce(Book, Maker.id, FillQty))
  /\ IF remaining = FillQty THEN Return ELSE remaining' = remaining - FillQty /\ UNCHANGED req
  /\ next_match' = next_match + 1
  /\ UNCHANGED <<stp, next_order_id>>
FillEvent ==
  [kind |-> "fill", locate |-> req.locate, match_number |-> next_match, price |-> Maker.price,
   qty |-> FillQty, maker |-> Maker, taker |-> req,
   maker_remaining |-> Maker.qty - FillQty, taker_remaining |-> remaining - FillQty]

\* Faulty variant: the order rests with its original quantity.
RemainderWhole == [side |-> req.side, price |-> req.price, id |-> req.id, qty |-> req.qty,
                   owner |-> req.owner, user_ref |-> req.user_ref]

\* The order to add for a Day remainder.
Remainder == [side |-> req.side, price |-> req.price, id |-> req.id, qty |-> remaining,
              owner |-> req.owner, user_ref |-> req.user_ref]

\* A Day remainder joins the back of the queue at its price ...
RestRemainder ==
  /\ ~Idle /\ ~Crosses /\ req.tif = "Day" /\ AddResult(Book, Remainder) = "Ok"
  /\ SetBook(Add(Book, Remainder))
  /\ Return
  /\ UNCHANGED <<stp, next_match, next_order_id>>
RestedEvent == [kind |-> "rested", locate |-> req.locate, order |-> Remainder]

\* ... or is cancelled because the book is full; an IOC remainder always is.
CancelRemainder ==
  /\ ~Idle /\ ~Crosses
  /\ req.tif = "IOC" \/ AddResult(Book, Remainder) # "Ok"
  /\ Return
  /\ UNCHANGED <<books, stp, next_match, next_order_id>>
RemainderEvent ==
  [kind |-> "taker_cancelled", req |-> req, cancelled |-> remaining, why |-> IF req.tif = "IOC" THEN "ImmediateOrCancel" ELSE "Supervisory"]

\* cancel's result: an order may only be reduced, and only by its owner.
CancelResult(l, id, new_qty, owner) ==
  IF l \notin Locates THEN "UnknownSymbol"
  ELSE IF id \notin LiveIds(books[l]) THEN "UnknownOrder"
  ELSE IF Find(books[l], id).owner # owner THEN "NotOwner"
  ELSE IF new_qty >= Find(books[l], id).qty THEN "NoChange"
  ELSE "Ok"

\* cancel: a size reduction keeps the order's place.
Cancel(l, id, new_qty, owner) ==
  /\ Idle
  /\ IF CancelResult(l, id, new_qty, owner) = "Ok"
       THEN books' = [books EXCEPT ![l] = IF new_qty = 0 THEN Remove(@, id)
                                          ELSE Reduce(@, id, Find(@, id).qty - new_qty)]
       ELSE UNCHANGED books
  /\ UNCHANGED <<stp, req, remaining, next_match, next_order_id>>
CancelEvent(l, id, new_qty, owner, why) ==
  IF CancelResult(l, id, new_qty, owner) # "Ok" THEN NoEvent
  ELSE LET before == Find(books[l], id)
       IN  [kind |-> "resting_cancelled", locate |-> l, before |-> before,
            cancelled |-> before.qty - new_qty, why |-> why]

\* The steps submit takes by itself once it has accepted an order.
EngineStep ==
  \/ SelfMatchCancelResting
  \/ SelfMatchCancelIncoming
  \/ MatchFill
  \/ RestRemainder
  \/ CancelRemainder

Next ==
  \/ \E o \in Owners : \E r \in Requests(next_order_id, o, next_order_id) :
       next_order_id <= MaxIds /\ SubmitRejected(r)
  \/ \E o \in Owners : \E r \in Requests(next_order_id, o, next_order_id) :
       next_order_id <= MaxIds /\ SubmitAccepted(r)
  \/ EngineStep
  \/ \E l \in Locates \cup {0}, id \in 1 .. MaxIds, q \in 0 .. MaxOrderQty, o \in Owners :
       Cancel(l, id, q, o)

Spec == Init /\ [][Next]_vars
----------------------------------------------------------------------------
(* How the exchange shows an event on the public feed (the listener of      *)
(* src/exchange.cpp): only the resting order of a fill appears, an order    *)
(* appears when it rests, and what never rested is never shown.             *)

\* Faulty variant: every cancel is published as a deletion.
CancelMessageDelete(e) == [type |-> "D", id |-> e.before.id]

\* A cancel that takes the whole order is a deletion, any other a reduction.
CancelMessage(e) ==
  IF e.cancelled = e.before.qty
    THEN [type |-> "D", id |-> e.before.id]
    ELSE [type |-> "X", id |-> e.before.id, qty |-> e.cancelled]

Itch(e) ==
  CASE e.kind = "fill" -> [type |-> "E", id |-> e.maker.id, qty |-> e.qty]
    [] e.kind = "rested" -> [type |-> "A", id |-> e.order.id, side |-> e.order.side,
                             price |-> e.order.price, qty |-> e.order.qty]
    [] e.kind = "resting_cancelled" -> CancelMessage(e)
    [] OTHER -> [type |-> "-"]
============================================================================
