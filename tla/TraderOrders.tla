---------------------------- MODULE TraderOrders ----------------------------
(***************************************************************************)
(* The trader's order side (src/trader.cpp) and its risk gate              *)
(* (include/risk.hpp), with an order-entry connection that delays, fills   *)
(* up and breaks, and an exchange that does to an order what Exchange      *)
(* shows it may do.  The book side of the trader is FeedSync.              *)
(*                                                                         *)
(* Prices are left out: a signal that fails the notional or the collar     *)
(* test changes nothing.  Frames are sent whole or wait in oe_pending.     *)
(***************************************************************************)
EXTENDS Integers, Sequences, FiniteSets

CONSTANTS
  max_order_qty, max_position, max_open_orders,
  max_orders_per_sec,
  Second,         \* clock ticks in the window of the rate limit
  AnyStrategy,    \* FALSE: ImbalanceStrategy, which waits while an order is live
  MaxSent,        \* bound: number of orders
  MaxTime         \* bound: the clock stops there

ASSUME TraderAssumption ==
  /\ {max_order_qty, max_open_orders, max_orders_per_sec, Second} \subseteq Nat \ {0}
  /\ {max_position, MaxSent, MaxTime} \subseteq Nat
  /\ AnyStrategy \in BOOLEAN

VARIABLES
  orders,         \* orders_: user_ref to [side, leaves]
  next_user_ref,
  risk,           \* risk_: [position, open, open_orders, sent_times, next_slot, sent_count]
  now,            \* the clock
  oe_up,
  oe_pending,     \* frames that did not fit in the socket
  phase,          \* "run", "wind" (winding down) or "gone"
  conn,           \* the connection is up
  to_exch,        \* frames on their way to the exchange
  from_exch,      \* reports on their way to the trader
  exch,           \* what the exchange holds: user_ref to [side, left]
  xpos,           \* history: what the trader bought less what it sold, at the exchange
  sends           \* history: when the orders were sent

tradeVars == <<orders, next_user_ref, risk>>
linkVars == <<oe_up, oe_pending, conn, to_exch, from_exch>>
exchVars == <<exch, xpos>>
vars == <<tradeVars, now, linkVars, exchVars, phase, sends>>

Sides == {"Buy", "Sell"}
Refs == 1 .. MaxSent
Sign(side) == IF side = "Buy" THEN 1 ELSE 0 - 1
Put(f, k, v) == [x \in DOMAIN f \cup {k} |-> IF x = k THEN v ELSE f[x]]
Drop(f, k) == [x \in DOMAIN f \ {k} |-> f[x]]

Init ==
  /\ orders = << >> /\ next_user_ref = 1
  /\ risk = [position |-> 0, open |-> [s \in Sides |-> 0], open_orders |-> 0,
             sent_times |-> [i \in 0 .. max_orders_per_sec - 1 |-> 0],
             next_slot |-> 0, sent_count |-> 0]
  /\ now = 0
  /\ oe_up = TRUE /\ oe_pending = << >> /\ conn = TRUE
  /\ to_exch = << >> /\ from_exch = << >>
  /\ exch = << >> /\ xpos = 0
  /\ phase = "run" /\ sends = << >>
----------------------------------------------------------------------------
(* RiskGate                                                                 *)

\* Faulty variant: the position is checked without the orders in flight.
CheckPositionOnly(side, qty) ==
  /\ qty > 0 /\ qty <= max_order_qty
  /\ risk.open_orders < max_open_orders
  /\ Sign(side) * risk.position + qty <= max_position
  /\ ~ (risk.sent_count >= max_orders_per_sec /\ now - risk.sent_times[risk.next_slot] < Second)

\* check returns Pass.
Check(side, qty) ==
  /\ qty > 0 /\ qty <= max_order_qty
  /\ risk.open_orders < max_open_orders
  /\ Sign(side) * risk.position + risk.open[side] + qty <= max_position
  /\ ~ (risk.sent_count >= max_orders_per_sec /\ now - risk.sent_times[risk.next_slot] < Second)

\* Faulty variant: the time of the order is not kept.
OnOrderSentUntimed(side, qty) ==
  [risk EXCEPT !.open_orders = @ + 1, !.open[side] = @ + qty,
     !.next_slot = (@ + 1) % max_orders_per_sec, !.sent_count = @ + 1]

OnOrderSent(side, qty) ==
  [risk EXCEPT !.open_orders = @ + 1, !.open[side] = @ + qty,
     !.sent_times[risk.next_slot] = now,
     !.next_slot = (@ + 1) % max_orders_per_sec, !.sent_count = @ + 1]

\* Faulty variant: a fill does not move the position.
OnFillNoPosition(side, qty) == [risk EXCEPT !.open[side] = @ - qty]
OnFill(side, qty) ==
  [risk EXCEPT !.position = @ + Sign(side) * qty, !.open[side] = @ - qty]

\* Faulty variant: cancelled shares stay open.
OnCancelledIgnored(side, qty) == risk

OnCancelled(side, qty) == [risk EXCEPT !.open[side] = @ - qty]
OnOrderClosed(gate) == [gate EXCEPT !.open_orders = IF @ > 0 THEN @ - 1 ELSE 0]
----------------------------------------------------------------------------
(* The order-entry socket.                                                  *)

\* oe_send, once per frame: behind frames that wait, or the socket takes the first
\* k and then is full or broken.
OeSend(frames, k, broken) ==
  LET rest == SubSeq(frames, k + 1, Len(frames))
  IN  IF ~oe_up \/ frames = << >> THEN k = 0 /\ ~broken /\ UNCHANGED linkVars
      ELSE IF oe_pending # << >>
        THEN /\ k = 0 /\ ~broken
             /\ oe_pending' = oe_pending \o frames
             /\ UNCHANGED <<oe_up, conn, to_exch, from_exch>>
        ELSE /\ broken => rest # << >>
             /\ to_exch' = to_exch \o SubSeq(frames, 1, k)
             /\ oe_pending' = IF broken THEN << >> ELSE rest
             /\ oe_up' = ~broken
             /\ UNCHANGED <<conn, from_exch>>

\* flush_oe_pending, on EPOLLOUT.
FlushOePending(k, broken) ==
  /\ phase # "gone" /\ oe_up /\ oe_pending # << >>
  /\ k \in 0 .. Len(oe_pending) /\ (broken => k < Len(oe_pending))
  /\ to_exch' = to_exch \o SubSeq(oe_pending, 1, k)
  /\ oe_pending' = SubSeq(oe_pending, k + 1, Len(oe_pending))
  /\ oe_up' = ~broken
  /\ UNCHANGED <<tradeVars, now, conn, from_exch, exchVars, phase, sends>>
----------------------------------------------------------------------------
(* The trader.                                                              *)

\* maybe_trade and send_order: the order is entered and counted even if the
\* socket fails.
Trade(side, qty, k, broken) ==
  /\ phase # "gone" /\ oe_up /\ next_user_ref <= MaxSent
  /\ AnyStrategy \/ orders = << >>
  /\ Check(side, qty)
  /\ OeSend(<<[type |-> "O", ref |-> next_user_ref, side |-> side, qty |-> qty]>>, k, broken)
  /\ orders' = Put(orders, next_user_ref, [side |-> side, leaves |-> qty])
  /\ next_user_ref' = next_user_ref + 1
  /\ risk' = OnOrderSent(side, qty)
  /\ sends' = Append(sends, now)
  /\ UNCHANGED <<now, exchVars, phase>>

\* cancel_all: one cancel for each order with shares left, in the order of the map.
Cancels ==
  LET live == {r \in DOMAIN orders : orders[r].leaves > 0}
      refs == CHOOSE f \in [1 .. Cardinality(live) -> live] : \A i, j \in DOMAIN f : f[i] = f[j] => i = j
  IN  [i \in DOMAIN refs |-> [type |-> "X", ref |-> refs[i]]]

\* A gap in the feed: resync pulls all orders (bound: not
\* while earlier cancels are on their way).
Resync(k, broken) ==
  /\ phase # "gone" /\ Cancels # << >>
  /\ \A i \in DOMAIN (to_exch \o oe_pending) : (to_exch \o oe_pending)[i].type # "X"
  /\ OeSend(Cancels, k, broken)
  /\ UNCHANGED <<tradeVars, now, exchVars, phase, sends>>

\* Faulty variant: an order is never closed.
CloseNever(ref, left, gate) == orders' = [orders EXCEPT ![ref].leaves = left] /\ risk' = gate

\* A report leaves so many shares of an order open, and the gate as given; with
\* none left, close_order.
Close(ref, left, gate) ==
  IF left = 0 THEN orders' = Drop(orders, ref) /\ risk' = OnOrderClosed(gate)
  ELSE orders' = [orders EXCEPT ![ref].leaves = left] /\ risk' = gate

\* on_executed, on_canceled, on_rejected and on_accepted.
OnReport ==
  /\ phase # "gone" /\ from_exch # << >>
  /\ LET r == Head(from_exch)
         known == r.ref \in DOMAIN orders
         o == orders[r.ref]
         q == IF r.qty > o.leaves THEN o.leaves ELSE r.qty
     IN  \/ known /\ r.type = "E" /\ Close(r.ref, o.leaves - q, OnFill(o.side, q))
         \/ known /\ r.type = "C" /\ Close(r.ref, o.leaves - q, OnCancelled(o.side, q))
         \/ known /\ r.type = "J" /\ Close(r.ref, 0, OnCancelled(o.side, o.leaves))
         \/ (~known \/ r.type = "A") /\ UNCHANGED <<orders, risk>>
  /\ from_exch' = Tail(from_exch)
  /\ UNCHANGED <<next_user_ref, now, oe_up, oe_pending, conn, to_exch, exchVars, phase, sends>>

\* Wind down: on a signal, the end of the run or of the session, or once the
\* connection is seen to be down; all orders are pulled.
WindDown(k, broken) ==
  /\ phase = "run"
  /\ \/ OeSend(Cancels, k, broken)
     \/ ~conn /\ k = 0 /\ ~broken /\ oe_up' = FALSE /\ UNCHANGED <<oe_pending, conn, to_exch, from_exch>>
  /\ phase' = "wind"
  /\ UNCHANGED <<tradeVars, now, exchVars, sends>>

\* The acks had their 200 ms, or are all there: the trader logs out.
Logout ==
  /\ phase = "wind"
  /\ phase' = "gone"
  /\ conn' = FALSE
  /\ UNCHANGED <<tradeVars, now, oe_up, oe_pending, to_exch, from_exch, exchVars, sends>>

Tick ==
  /\ now < MaxTime
  /\ now' = now + 1
  /\ UNCHANGED <<tradeVars, linkVars, exchVars, phase, sends>>
----------------------------------------------------------------------------
(* The exchange, seen from its client (module Exchange).                    *)

Tell(type, ref, qty) == from_exch' = Append(from_exch, [type |-> type, ref |-> ref, qty |-> qty])

\* An order comes in, and is accepted or rejected.
XEnter(ok) ==
  /\ conn /\ to_exch # << >> /\ Head(to_exch).type = "O"
  /\ LET f == Head(to_exch)
     IN  /\ exch' = IF ok THEN Put(exch, f.ref, [side |-> f.side, left |-> f.qty]) ELSE exch
         /\ Tell(IF ok THEN "A" ELSE "J", f.ref, 0)
  /\ to_exch' = Tail(to_exch)
  /\ UNCHANGED <<tradeVars, now, oe_up, oe_pending, conn, xpos, phase, sends>>

\* A cancel comes in, perhaps too late.
XCancel ==
  /\ conn /\ to_exch # << >> /\ Head(to_exch).type = "X"
  /\ LET ref == Head(to_exch).ref
     IN  IF ref \in DOMAIN exch THEN exch' = Drop(exch, ref) /\ Tell("C", ref, exch[ref].left)
         ELSE UNCHANGED <<exch, from_exch>>
  /\ to_exch' = Tail(to_exch)
  /\ UNCHANGED <<tradeVars, now, oe_up, oe_pending, conn, xpos, phase, sends>>

\* Shares of an order trade.
XFill(ref, qty) ==
  /\ conn /\ ref \in DOMAIN exch /\ qty \in 1 .. exch[ref].left
  /\ exch' = IF qty = exch[ref].left THEN Drop(exch, ref) ELSE [exch EXCEPT ![ref].left = @ - qty]
  /\ xpos' = xpos + Sign(exch[ref].side) * qty
  /\ Tell("E", ref, qty)
  /\ UNCHANGED <<tradeVars, now, oe_up, oe_pending, conn, to_exch, phase, sends>>

\* What an IOC order cannot trade is cancelled.
XExpire(ref) ==
  /\ conn /\ ref \in DOMAIN exch
  /\ exch' = Drop(exch, ref)
  /\ Tell("C", ref, exch[ref].left)
  /\ UNCHANGED <<tradeVars, now, oe_up, oe_pending, conn, to_exch, xpos, phase, sends>>

\* The connection breaks: the exchange cancels what is open, reports are lost.
Break ==
  /\ conn
  /\ conn' = FALSE
  /\ exch' = << >> /\ from_exch' = << >>
  /\ UNCHANGED <<tradeVars, now, oe_up, oe_pending, to_exch, xpos, phase, sends>>
----------------------------------------------------------------------------
Trader ==
  \/ \E side \in Sides, qty \in 0 .. max_order_qty + 1, k \in 0 .. 1, broken \in BOOLEAN : Trade(side, qty, k, broken)
  \/ \E k \in 0 .. Len(Cancels), broken \in BOOLEAN : Resync(k, broken) \/ WindDown(k, broken)
  \/ Logout

Reads == OnReport
Sends == FlushOePending(Len(oe_pending), FALSE)
Resolves == (\E ok \in BOOLEAN : XEnter(ok)) \/ XCancel \/ (\E ref \in DOMAIN exch : XExpire(ref))

Next ==
  \/ Trader
  \/ Reads
  \/ \E k \in 0 .. Len(oe_pending), broken \in BOOLEAN : FlushOePending(k, broken)
  \/ Tick
  \/ Resolves
  \/ \E ref \in DOMAIN exch : \E qty \in 1 .. exch[ref].left : XFill(ref, qty)
  \/ Break

Spec == Init /\ [][Next]_vars

\* The trader's loop reads what is there, its socket drains, and the exchange
\* works on the frames it gets; nothing is asked of the market or the strategy.
FairSpec == Spec /\ WF_vars(Reads) /\ SF_vars(Sends) /\ WF_vars(Resolves)
----------------------------------------------------------------------------
\* The sum of a function's values, which are naturals: the number of its units.
Units(f) == UNION {{x} \X (1 .. f[x]) : x \in DOMAIN f}
Total(f) == Cardinality(Units(f))

\* What is left of a table's orders of one side.
OfSide(table, side) == {r \in DOMAIN table : table[r].side = side}
Leaves(table, side) == Total([r \in OfSide(table, side) |-> table[r].leaves])

\* The shares of an order in the reports of the given types, and the executed
\* shares of a side still on their way.
Told(reports, types, ref) ==
  Total([i \in {i \in DOMAIN reports : reports[i].type \in types /\ reports[i].ref = ref} |-> reports[i].qty])
Untold(table, reports, side) == Total([r \in OfSide(table, side) |-> Told(reports, {"E"}, r)])

\* What the exchange has of an order.
Left(ref) == IF ref \in DOMAIN exch THEN exch[ref].left ELSE 0

\* The gate's counters never go below zero, and no more orders are open than allowed.
TypeOK ==
  /\ DOMAIN orders \subseteq 1 .. next_user_ref - 1
  /\ risk.position \in Int /\ risk.open \in [Sides -> Nat]
  /\ risk.open_orders \in 0 .. max_open_orders
  /\ phase \in {"run", "wind", "gone"}
  /\ oe_up \in BOOLEAN /\ conn \in BOOLEAN

\* "WORST-CASE position": what the trader really holds at the exchange, reported
\* or not, never passes the limit, however many orders are in flight, fill
\* late, or are cancelled while they fill.
PositionLimit == xpos <= max_position /\ xpos >= 0 - max_position

\* The gate and the order table agree: as many open orders as table entries, and
\* open quantities that are the sum of what is left of them; so no counter
\* goes below zero (TypeOK).
GateMatchesOrders ==
  /\ TypeOK
  /\ risk.open_orders = Cardinality(DOMAIN orders)
  /\ \A s \in Sides : risk.open[s] = Leaves(orders, s)

\* No report is ignored or cut short: every report on its way is about an order of
\* the table, executed and cancelled shares never exceed what is left of it, and
\* once all of them are read the trader's position is the real one.
ReportsFit ==
  conn =>
    /\ \A i \in DOMAIN from_exch : from_exch[i].ref \in DOMAIN orders
    /\ \A r \in DOMAIN orders : Told(from_exch, {"E", "C"}, r) + Left(r) <= orders[r].leaves
    /\ xpos = risk.position + Untold(orders, from_exch, "Buy") - Untold(orders, from_exch, "Sell")

\* "at most N orders in any rolling 1-second window"
RateLimit ==
  \A i \in DOMAIN sends :
    i + max_orders_per_sec \in DOMAIN sends => sends[i + max_orders_per_sec] - sends[i] >= Second

\* An order does not stay in the table for ever, which would stop the strategy: it
\* is closed, unless the connection is lost or the trader ends.
OrdersClose == \A r \in Refs : (r \in DOMAIN orders) ~> (r \notin DOMAIN orders \/ ~conn \/ ~oe_up)
============================================================================
