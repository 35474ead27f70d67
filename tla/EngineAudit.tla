---------------------------- MODULE EngineAudit ----------------------------
(***************************************************************************)
(* The matching engine with a listener that keeps an account of every      *)
(* callback: the shares entered, filled and cancelled per order, and the   *)
(* books a reader of the public feed would have rebuilt.                   *)
(***************************************************************************)
EXTENDS MatchingEngine

VARIABLES
  event,   \* the last callback
  tally,   \* per order id: shares entered, filled and cancelled so far
  mirror   \* per symbol: the book rebuilt from the published messages

auditVars == <<vars, event, tally, mirror>>

OrderIds == 1 .. MaxIds

AuditInit ==
  /\ Init
  /\ event = NoEvent
  /\ tally = [id \in OrderIds |-> [entered |-> 0, filled |-> 0, cancelled |-> 0]]
  /\ mirror = books

Tallied(e) ==
  CASE e.kind = "accepted" -> [tally EXCEPT ![e.req.id].entered = @ + e.req.qty]
    [] e.kind = "fill" -> [tally EXCEPT ![e.maker.id].filled = @ + e.qty,
                                        ![e.taker.id].filled = @ + e.qty]
    [] e.kind = "resting_cancelled" -> [tally EXCEPT ![e.before.id].cancelled = @ + e.cancelled]
    [] e.kind = "taker_cancelled" -> [tally EXCEPT ![e.req.id].cancelled = @ + e.cancelled]
    [] OTHER -> tally

\* A message that does not fit the rebuilt book is dropped.
Mirrored(e) ==
  IF Itch(e).type # "-" /\ Consistent(mirror[e.locate], Itch(e))
    THEN [mirror EXCEPT ![e.locate] = ApplyItch(@, Itch(e))]
    ELSE mirror

Listen(e) == event' = e /\ tally' = Tallied(e) /\ mirror' = Mirrored(e)

AuditSubmit(o) ==
  \E r \in Requests(next_order_id, o, next_order_id) :
    \/ SubmitRejected(r) /\ Listen(RejectedEvent(r))
    \/ SubmitAccepted(r) /\ Listen(AcceptedEvent(r))

AuditStep ==
  \/ SelfMatchCancelResting /\ Listen(SelfMatchRestingEvent)
  \/ SelfMatchCancelIncoming /\ Listen(SelfMatchIncomingEvent)
  \/ MatchFill /\ Listen(FillEvent)
  \/ RestRemainder /\ Listen(RestedEvent)
  \/ CancelRemainder /\ Listen(RemainderEvent)

AuditCancel(l, id, q, o) == Cancel(l, id, q, o) /\ Listen(CancelEvent(l, id, q, o, "UserRequested"))

AuditNext ==
  \/ next_order_id <= MaxIds /\ \E o \in Owners : AuditSubmit(o)
  \/ AuditStep
  \/ \E l \in Locates, id \in OrderIds, q \in 0 .. MaxOrderQty, o \in Owners : AuditCancel(l, id, q, o)

AuditSpec == AuditInit /\ [][AuditNext]_auditVars
----------------------------------------------------------------------------
\* Resting orders are whole orders of the book's prices, within the pool; submit
\* is at work as long as shares remain.
TypeOK ==
  /\ \A l \in Locates : \A o \in Resting(books[l]) :
       /\ o.id \in OrderIds /\ o.qty \in 1 .. MaxOrderQty
       /\ o.owner \in Owners /\ o.price \in Prices
  /\ \A l \in Locates : Cardinality(Resting(books[l])) <= MaxOrders
  /\ remaining \in 0 .. MaxOrderQty
  /\ Idle <=> remaining = 0
  /\ next_match \in Nat /\ next_order_id \in 1 .. MaxIds + 1

\* No book is ever crossed, also between two iterations of the matching loop:
\* the best bid is below the best ask, and no book outgrows its pool (TypeOK).
Uncrossed ==
  /\ TypeOK
  /\ \A l \in Locates :
       Occupied(books[l], "Buy") # {} /\ Occupied(books[l], "Sell") # {}
         => BestPrice(books[l], "Buy") < BestPrice(books[l], "Sell")

\* Shares an order still has: in a book, or in the hands of submit.
Open(id) ==
  IF req.id = id THEN remaining
  ELSE IF \E l \in Locates : id \in LiveIds(books[l])
    THEN Find(books[CHOOSE l \in Locates : id \in LiveIds(books[l])], id).qty
  ELSE 0

\* No share is lost or made: through fills on either side, partial cancels,
\* self-match prevention and a full book, the callbacks the listener got
\* account for every share of every accepted order.
SharesConserved ==
  \A id \in OrderIds :
    tally[id].entered = tally[id].filled + tally[id].cancelled + Open(id)

\* The published messages rebuild every book, queue order included, after every
\* single callback: what the feed shows is what the engine has.
MirrorExact == \A l \in Locates : mirror[l] = Public(books[l])

\* The loop of submit ends: each iteration that is not the last uses up shares of
\* the order, or takes a resting order out of the book, and never adds one.
LoopProgress ==
  [][~Idle /\ req' = req =>
       LET before == LiveIds(Book)
           after == LiveIds(books'[req.locate])
       IN  /\ after \subseteq before
           /\ remaining' < remaining \/ (remaining' = remaining /\ after # before)]_auditVars

\* A fill is fair: of the orders on the other side it takes the best price, and
\* at that price the order that was entered first (ids are handed out in order
\* of entry), whatever partial fills and reductions came before; the price is
\* within both limits; and the two sides are not the same session.
FillFair ==
  [][event' # event /\ event'.kind = "fill" =>
       LET mk == event'.maker
           tk == event'.taker
       IN  /\ \A o \in Resting(books[event'.locate]) :
                o.side = mk.side /\ o.id # mk.id =>
                  \/ Better(mk.side, mk.price, o.price)
                  \/ mk.price = o.price /\ mk.id < o.id
           /\ event'.price = mk.price
           /\ ~ Better(mk.side, tk.price, mk.price) \/ tk.price = mk.price
           /\ mk.owner = 0 \/ mk.owner # tk.owner]_auditVars
============================================================================
