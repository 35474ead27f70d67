------------------------------ MODULE Exchange ------------------------------
(***************************************************************************)
(* The exchange process (src/exchange.cpp): one thread around one epoll    *)
(* loop.  An iteration handles a batch of events, reaps the sessions that  *)
(* died, flushes the private reports of the sessions that have any and     *)
(* then the packet of the public feed.  The handlers call the matching     *)
(* engine, and the engine's callbacks fill the sessions' output and the    *)
(* packet; each engine step and its callback are one step here.            *)
(*                                                                         *)
(* Bytes are abstracted to frames.  Heartbeat frames, statistics and the   *)
(* content of a snapshot (FeedSync models it) are left out.                *)
(***************************************************************************)
EXTENDS MatchingEngine

LOCAL FX == INSTANCE FiniteSetsExt

CONSTANTS
  MaxSessionOrders,  \* kMaxSessionOrders: capacity of a session's order table
  PktCap,            \* messages that fit in one packet of the feed
  MaxOut             \* bound: a client sends no more while this many frames wait for it

ASSUME ExchangeAssumption ==
  MaxSessionOrders \in Nat /\ PktCap \in Nat \ {0} /\ MaxOut \in Nat \ {0}

VARIABLES
  session,   \* sessions_: per id, the Session, or Absent
  next_session_id,
  phase,     \* where run() is: "batch", "reap" or "flush"
  ready,     \* sessions whose event of this batch is not finished
  dirty,     \* dirty_
  closing,   \* close_session's local list: <<session, handles left>> or << >>
  batch,     \* the packet being filled: a trade's match number, 0 for the others
  published, \* the last match number that left on the public feed
  told       \* per session and user reference: what the frames that were sent say
             \* is left of the order

sessVars == <<session, next_session_id, phase, ready, dirty, closing, batch, published, told>>
allVars == <<vars, sessVars>>

SessionIds == Owners \ {0}
Absent == [present |-> FALSE]
NewSession ==
  [present |-> TRUE, logged_in |-> FALSE, dead |-> FALSE, close_after_flush |-> FALSE,
   want_write |-> FALSE, last_user_ref |-> 0, orders |-> << >>, out |-> << >>]

\* Bound: a client numbers its orders from 1.
UserRefs == 1 .. MaxIds

Present == {s \in SessionIds : session[s].present}
Handles(s) == {session[s].orders[r] : r \in DOMAIN session[s].orders}

\* orders.insert
Insert(f, k, v) == [x \in DOMAIN f \cup {k} |-> IF x = k THEN v ELSE f[x]]

XInit ==
  /\ Init
  /\ session = [s \in SessionIds |-> Absent]
  /\ next_session_id = 1
  /\ phase = "batch"
  /\ ready = {} /\ dirty = {} /\ closing = << >>
  /\ batch = << >> /\ published = 0
  /\ told = [s \in SessionIds |-> [ref \in UserRefs |-> 0]]
----------------------------------------------------------------------------
(* The listener.                                                            *)

\* A private report of the session layer's sequenced stream.
Report(type, ref, qty, match) == [type |-> type, ref |-> ref, qty |-> qty, match |-> match]

\* Faulty variant: a cancelled taker is told its whole order was cancelled.
TakerCancelledWhole(e) == Report("C", e.req.user_ref, e.req.qty, 0)

\* on_taker_cancelled reports what never rested and did not trade.
TakerCancelled(e) == Report("C", e.req.user_ref, e.cancelled, 0)

\* The reports a callback queues, as pairs of a session and a frame.
Reports(e) ==
  CASE e.kind = "accepted" -> {<<e.req.owner, Report("A", e.req.user_ref, e.req.qty, 0)>>}
    [] e.kind = "rejected" -> {<<e.owner, Report("J", e.user_ref, 0, 0)>>}
    [] e.kind = "fill" ->
         {<<o.owner, Report("E", o.user_ref, e.qty, e.match_number)>> : o \in {e.maker, e.taker}}
    [] e.kind = "resting_cancelled" ->
         {<<e.before.owner, Report("C", e.before.user_ref, e.cancelled, 0)>>}
    [] e.kind = "taker_cancelled" -> {<<e.req.owner, TakerCancelled(e)>>}
    [] OTHER -> {}

\* Faulty variant: only a fill that uses up the maker cleans its table.
GoneOnFillOnly(e) ==
  IF e.kind = "fill" /\ e.maker_remaining = 0 THEN {<<e.maker.owner, e.maker.user_ref>>} ELSE {}

\* The table entry a callback erases: a resting order that left the book.
Gone(e) ==
  CASE e.kind = "fill" /\ e.maker_remaining = 0 -> {<<e.maker.owner, e.maker.user_ref>>}
    [] e.kind = "resting_cancelled" /\ e.cancelled = e.before.qty ->
         {<<e.before.owner, e.before.user_ref>>}
    [] OTHER -> {}

\* The last line of handle_enter: an order that does not rest has no entry.
NotResting ==
  IF ~Idle /\ req' = NoReq /\ req.id \notin LiveIds(books'[req.locate])
    THEN {<<req.owner, req.user_ref>>} ELSE {}

\* The match number a published message shows.
Trade(e) == IF e.kind = "fill" THEN e.match_number ELSE 0
LastTrade(b, old) == IF \E i \in DOMAIN b : b[i] > old
                       THEN CHOOSE n \in {b[i] : i \in DOMAIN b} : \A i \in DOMAIN b : b[i] <= n
                       ELSE old

\* publish: a full packet is flushed first.
Publish(e) ==
  IF Itch(e).type = "-" THEN UNCHANGED <<batch, published>>
  ELSE IF Len(batch) < PktCap THEN batch' = Append(batch, Trade(e)) /\ UNCHANGED published
  ELSE batch' = <<Trade(e)>> /\ published' = LastTrade(batch, published)

\* An engine callback's work in session s: the report, if s gets one (no callback
\* has two for one session: a session does not trade with itself), and the entry.
Callback(sess, s, e) ==
  LET mine == {p[2] : p \in {g \in Reports(e) : g[1] = s}}
      gone == {p[2] : p \in {g \in Gone(e) \cup NotResting : g[1] = s}}
  IN  [sess EXCEPT !.out = IF mine = {} THEN @ ELSE Append(@, CHOOSE f \in mine : TRUE),
                   !.orders = [r \in DOMAIN @ \ gone |-> @[r]]]

\* The exchange as EngineListener; base is the session table before the callback.
Listen(base, e) ==
  /\ session' = [s \in SessionIds |->
                   IF base[s].present THEN Callback(base[s], s, e) ELSE base[s]]
  /\ dirty' = dirty \cup {s \in SessionIds : base[s].present /\ \E p \in Reports(e) : p[1] = s}
  /\ Publish(e)

\* What a sequence of frames says is left of order ref: accepted, less executed
\* and cancelled shares.
Says(frames, ref) ==
  FX!MapThenSumSet(
    LAMBDA i : CASE frames[i].ref # ref -> 0
                 [] frames[i].type = "A" -> frames[i].qty
                 [] frames[i].type \in {"E", "C"} -> 0 - frames[i].qty
                 [] OTHER -> 0,
    DOMAIN frames)

InBatch == phase = "batch" /\ Idle

\* accept_all: the new descriptor has events from the next batch on.
Accept ==
  /\ InBatch /\ next_session_id \in SessionIds
  /\ session' = [session EXCEPT ![next_session_id] = NewSession]
  /\ next_session_id' = next_session_id + 1
  /\ UNCHANGED <<vars, phase, ready, dirty, closing, batch, published, told>>

\* A frame of s is next; the bound keeps what is queued for it finite.
Frame(s) ==
  /\ InBatch /\ s \in ready /\ session[s].present
  /\ Len(session[s].out) < MaxOut
Read(s) == ready' = IF session'[s].dead THEN ready \ {s} ELSE ready

\* A control frame of the session layer.
Control(type) == Report(type, 0, 0, 0)

\* handle_login: a second login, or one without a user, is rejected.
Login(s, ok) ==
  /\ Frame(s)
  /\ LET accepted == ok /\ ~session[s].logged_in
     IN  session' = [session EXCEPT ![s].logged_in = @ \/ accepted,
                       ![s].close_after_flush = @ \/ ~accepted,
                       ![s].out = Append(@, Control("login"))]
  /\ dirty' = dirty \cup {s}
  /\ Read(s)
  /\ UNCHANGED <<vars, next_session_id, phase, closing, batch, published, told>>

\* Data before the login is a protocol violation.
DataBeforeLogin(s) ==
  /\ Frame(s) /\ ~session[s].logged_in
  /\ session' = [session EXCEPT ![s].dead = TRUE]
  /\ Read(s)
  /\ UNCHANGED <<vars, next_session_id, phase, dirty, closing, batch, published, told>>

\* handle_enter rejects by itself: the user reference is not increasing, the
\* symbol is not listed, or the session's order table is full.
EnterRefused(s, r) ==
  /\ Frame(s) /\ session[s].logged_in
  /\ LET old == r.user_ref <= session[s].last_user_ref
         full == Cardinality(DOMAIN session[s].orders) = MaxSessionOrders
     IN  /\ old \/ r.locate \notin Locates \/ full
         /\ session' = [session EXCEPT
              ![s].last_user_ref = IF old THEN @ ELSE r.user_ref,
              ![s].out = Append(@, Report("J", r.user_ref, 0, 0))]
         /\ next_order_id' = IF old \/ r.locate \notin Locates THEN next_order_id
                             ELSE next_order_id + 1
  /\ dirty' = dirty \cup {s}
  /\ Read(s)
  /\ UNCHANGED <<books, stp, req, remaining, next_match>>
  /\ UNCHANGED <<next_session_id, phase, closing, batch, published, told>>

\* handle_enter hands the order to the engine, its table entry made first.  The
\* engine's steps follow, and the last one drops the entry of what does not rest.
Enter(s, r) ==
  /\ Frame(s) /\ session[s].logged_in
  /\ r.user_ref > session[s].last_user_ref
  /\ r.locate \in Locates
  /\ Cardinality(DOMAIN session[s].orders) < MaxSessionOrders
  /\ LET known == [session EXCEPT ![s].last_user_ref = r.user_ref]
         entry == [locate |-> r.locate, id |-> r.id]
         added == [known EXCEPT ![s].orders = Insert(@, r.user_ref, entry)]
     IN  \/ SubmitRejected(r) /\ Listen(known, RejectedEvent(r))
         \/ SubmitAccepted(r) /\ Listen(added, AcceptedEvent(r))
  /\ Read(s)
  /\ UNCHANGED <<next_session_id, phase, closing, told>>

\* handle_cancel: an order that is not in the table is too late to cancel.
CancelOrder(s, ref, qty) ==
  /\ Frame(s) /\ session[s].logged_in
  /\ ref \in DOMAIN session[s].orders
  /\ LET h == session[s].orders[ref]
     IN  /\ Cancel(h.locate, h.id, qty, s)
         /\ Listen(session, CancelEvent(h.locate, h.id, qty, s, "UserRequested"))
  /\ Read(s)
  /\ UNCHANGED <<next_session_id, phase, closing, told>>

\* A logout: an end-of-session frame, and the session dies once it is sent.
Logout(s) ==
  /\ Frame(s)
  /\ session' = [session EXCEPT ![s].close_after_flush = TRUE,
                   ![s].out = Append(@, Control("end"))]
  /\ dirty' = dirty \cup {s}
  /\ Read(s)
  /\ UNCHANGED <<vars, next_session_id, phase, closing, batch, published, told>>

\* The peer closed the connection, or reading it failed.
Disconnect(s) ==
  /\ InBatch /\ s \in ready /\ session[s].present
  /\ session' = [session EXCEPT ![s].dead = TRUE]
  /\ ready' = ready \ {s}
  /\ UNCHANGED <<vars, next_session_id, phase, dirty, closing, batch, published, told>>

\* on_timer: no heartbeat for 15 seconds.
Timeout(s) ==
  /\ InBatch /\ session[s].present /\ session[s].logged_in /\ ~session[s].dead
  /\ session' = [session EXCEPT ![s].dead = TRUE]
  /\ UNCHANGED <<vars, next_session_id, phase, ready, dirty, closing, batch, published, told>>

\* The synthetic flow of on_timer: orders of owner 0 and their cancellation.
SynthSubmit(r) ==
  /\ InBatch
  /\ SubmitAccepted(r) /\ Listen(session, AcceptedEvent(r))
  /\ UNCHANGED <<next_session_id, phase, ready, closing, told>>

SynthCancel(l, id, qty) ==
  /\ InBatch
  /\ l \in Locates /\ id \in LiveIds(books[l])
  /\ Cancel(l, id, qty, 0) /\ Listen(session, CancelEvent(l, id, qty, 0, "UserRequested"))
  /\ UNCHANGED <<next_session_id, phase, ready, closing, told>>

\* submit's loop, with its callbacks.
Match ==
  /\ \/ SelfMatchCancelResting /\ Listen(session, SelfMatchRestingEvent)
     \/ SelfMatchCancelIncoming /\ Listen(session, SelfMatchIncomingEvent)
     \/ MatchFill /\ Listen(session, FillEvent)
     \/ RestRemainder /\ Listen(session, RestedEvent)
     \/ CancelRemainder /\ Listen(session, RemainderEvent)
  /\ UNCHANGED <<next_session_id, phase, ready, closing, told>>

\* send_snapshot flushes the public feed in the middle of a batch.
MdFlush == batch' = << >> /\ published' = LastTrade(batch, published)
Snapshot ==
  /\ InBatch
  /\ MdFlush
  /\ UNCHANGED <<vars, session, next_session_id, phase, ready, dirty, closing, told>>
----------------------------------------------------------------------------
(* Writing, and the rest of an iteration of run().                          *)

\* Faulty variant: EPOLLOUT is not armed when the socket is full.
FlushSessionForgets(s, k, broken) ==
  LET left == SubSeq(session[s].out, k + 1, Len(session[s].out))
      all == left = << >>
  IN  /\ broken => ~all
      /\ told' = [told EXCEPT ![s] = [ref \in UserRefs |->
                                       @[ref] + Says(SubSeq(session[s].out, 1, k), ref)]]
      /\ session' = [session EXCEPT
           ![s].out = left,
           ![s].dead = @ \/ broken \/ (all /\ session[s].close_after_flush)]

\* flush_session: the socket takes the first k frames; then it is full (EPOLLOUT
\* is armed), or broken, or everything is sent.
FlushSession(s, k, broken) ==
  LET left == SubSeq(session[s].out, k + 1, Len(session[s].out))
      all == left = << >>
  IN  /\ broken => ~all
      /\ told' = [told EXCEPT ![s] = [ref \in UserRefs |->
                                       @[ref] + Says(SubSeq(session[s].out, 1, k), ref)]]
      /\ session' = [session EXCEPT
           ![s].out = left,
           ![s].want_write = IF all THEN FALSE ELSE @ \/ ~broken,
           ![s].dead = @ \/ broken \/ (all /\ session[s].close_after_flush)]

\* EPOLLOUT: the socket has room again.
Writable(s, k, broken) ==
  /\ InBatch /\ s \in ready /\ session[s].present
  /\ session[s].want_write /\ ~session[s].dead
  /\ FlushSession(s, k, broken)
  /\ ready' = ready \ {s}
  /\ UNCHANGED <<vars, next_session_id, phase, dirty, closing, batch, published>>

EndBatch ==
  /\ InBatch
  /\ phase' = "reap" /\ ready' = {}
  /\ UNCHANGED <<vars, session, next_session_id, dirty, closing, batch, published, told>>

\* close_session: the handles are collected first ...
CloseBegin(s) ==
  /\ phase = "reap" /\ closing = << >>
  /\ session[s].present /\ session[s].dead
  /\ closing' = <<s, Handles(s)>>
  /\ UNCHANGED <<vars, session, next_session_id, phase, ready, dirty, batch, published, told>>

\* ... each order is cancelled (the callback erases its entry) ...
CloseCancel ==
  /\ closing # << >>
  /\ \E h \in closing[2] :
       /\ Cancel(h.locate, h.id, 0, closing[1])
       /\ Listen(session, CancelEvent(h.locate, h.id, 0, closing[1], "Supervisory"))
       /\ closing' = <<closing[1], closing[2] \ {h}>>
  /\ UNCHANGED <<next_session_id, phase, ready, told>>

\* ... and the session goes.
CloseEnd ==
  /\ closing # << >> /\ closing[2] = {}
  /\ session' = [session EXCEPT ![closing[1]] = Absent]
  /\ closing' = << >>
  /\ UNCHANGED <<vars, next_session_id, phase, ready, dirty, batch, published, told>>

ReapEnd ==
  /\ phase = "reap" /\ closing = << >>
  /\ \A s \in Present : ~session[s].dead
  /\ phase' = "flush"
  /\ UNCHANGED <<vars, session, next_session_id, ready, dirty, closing, batch, published, told>>

\* flush_dirty_sessions: a session that was closed meanwhile is skipped.
FlushDirty(s, k, broken) ==
  /\ phase = "flush" /\ s \in dirty
  /\ IF session[s].present THEN FlushSession(s, k, broken) ELSE UNCHANGED <<session, told>>
  /\ dirty' = dirty \ {s}
  /\ UNCHANGED <<vars, next_session_id, phase, ready, closing, batch, published>>

\* The public feed is flushed last, and the next batch begins.
FlushEnd ==
  /\ phase = "flush" /\ dirty = {}
  /\ MdFlush
  /\ phase' = "batch" /\ ready' = Present
  /\ UNCHANGED <<vars, session, next_session_id, dirty, closing, told>>
----------------------------------------------------------------------------
\* The next user reference, or the last one again.
ClientRequests(s) ==
  UNION {Requests(next_order_id, s, ref) :
           ref \in {session[s].last_user_ref, session[s].last_user_ref + 1} \cap (0 .. MaxIds)}
SynthRequests == {r \in Requests(next_order_id, 0, 0) : RejectReason(r) = ""}

ClientFrame(s) ==
  \/ \E ok \in BOOLEAN : Login(s, ok)
  \/ DataBeforeLogin(s)
  \/ next_order_id <= MaxIds /\ s \in Present /\ \E r \in ClientRequests(s) : EnterRefused(s, r)
  \/ next_order_id <= MaxIds /\ s \in Present /\ \E r \in ClientRequests(s) : Enter(s, r)
  \/ \E ref \in UserRefs, qty \in 0 .. MaxOrderQty : CancelOrder(s, ref, qty)
  \/ Logout(s)
  \/ Disconnect(s)

\* Without 0 among the owners the synthetic flow is off (flow_rate 0).
Flow ==
  \/ 0 \in Owners /\ next_order_id <= MaxIds /\ \E r \in SynthRequests : SynthSubmit(r)
  \/ \E l \in Locates, id \in 1 .. MaxIds, qty \in 0 .. MaxOrderQty : 0 \in Owners /\ SynthCancel(l, id, qty)

Written(s) == 0 .. (IF session[s].present THEN Len(session[s].out) ELSE 0)

Loop ==
  \/ Match
  \/ EndBatch
  \/ \E s \in SessionIds : CloseBegin(s)
  \/ CloseCancel
  \/ CloseEnd
  \/ ReapEnd
  \/ \E s \in SessionIds : \E k \in Written(s), broken \in BOOLEAN : FlushDirty(s, k, broken)
  \/ FlushEnd

XNext ==
  \/ Accept
  \/ \E s \in SessionIds : ClientFrame(s)
  \/ \E s \in SessionIds : Timeout(s)
  \/ \E s \in SessionIds : \E k \in Written(s), broken \in BOOLEAN : Writable(s, k, broken)
  \/ Flow
  \/ Snapshot
  \/ Loop

XSpec == XInit /\ [][XNext]_allVars

\* The process is never stopped in the middle of its loop: it takes a step of Loop
\* again and again.  (One is always possible: outside InBatch no other step is, and
\* within it the batch can end.)  A client that stays connected keeps reading: its
\* socket takes everything again and again.
XFairSpec ==
  /\ XSpec
  /\ []<><<~InBatch \/ phase' # phase>>_allVars
  /\ \A s \in SessionIds : SF_allVars(session[s].present /\ Writable(s, Len(session[s].out), FALSE))
----------------------------------------------------------------------------
\* Books, order tables and the feed's packet keep within their limits.
TypeOK ==
  /\ \A l \in Locates : Cardinality(Resting(books[l])) <= MaxOrders
  /\ \A s \in Present : Cardinality(DOMAIN session[s].orders) <= MaxSessionOrders
  /\ phase \in {"batch", "reap", "flush"}
  /\ ready \subseteq Present /\ dirty \subseteq SessionIds
  /\ batch \in Seq(Nat) /\ Len(batch) <= PktCap
  /\ ~Idle => phase = "batch"

\* The order tables and the books agree, whatever fills, self-match cancels, late
\* cancels, logouts and disconnects come in between: every resting order of a
\* session is in the table of a session that still exists, under its user
\* reference, and a table holds nothing else but the order submit works on.  So
\* no order outlives its session (cancel-on-disconnect), and every order can be
\* cancelled.  Tables and packet keep within their limits meanwhile (TypeOK).
OwnedOrders ==
  /\ TypeOK
  /\ \A l \in Locates : \A o \in Resting(books[l]) :
       o.owner # 0 => /\ session[o.owner].present
                      /\ o.user_ref \in DOMAIN session[o.owner].orders
                      /\ session[o.owner].orders[o.user_ref] = [locate |-> l, id |-> o.id]
  /\ \A s \in Present : \A ref \in DOMAIN session[s].orders :
       LET h == session[s].orders[ref]
       IN  \/ req.id = h.id
           \/ \E o \in Resting(books[h.locate]) : o.id = h.id /\ o.owner = s /\ o.user_ref = ref

\* What the exchange has of order ref of session s.
Held(s, ref) ==
  IF ~Idle /\ req.owner = s /\ req.user_ref = ref THEN remaining
  ELSE FX!MapThenSumSet(LAMBDA o : o.qty,
         UNION {{o \in Resting(books[l]) : o.owner = s /\ o.user_ref = ref} : l \in Locates})

\* A client's account is right: the accepted, executed and cancelled quantities a
\* session was and will be told add up, at every moment, to what the exchange
\* still holds of each of its orders, and no prefix of the reports ever takes
\* away more than was accepted (the acceptance comes first).
ClientAccount ==
  \A s \in Present : \A ref \in UserRefs :
    LET out == session[s].out
    IN  /\ told[s][ref] + Says(out, ref) = Held(s, ref)
        /\ \A n \in 0 .. Len(out) : told[s][ref] + Says(SubSeq(out, 1, n), ref) >= 0

\* "Private reports go out before the public feed": no trade is on the public feed
\* while the report of it is still queued for a live session.
PrivateFirst ==
  \A s \in Present : ~session[s].dead =>
    \A i \in DOMAIN session[s].out :
      session[s].out[i].match = 0 \/ session[s].out[i].match > published

\* No session is left as it is: a dead one is closed, and all its orders with it
\* (OwnedOrders); a report that is queued is sent, or its session closes, a full
\* socket buffer only delays it.
SessionsServed ==
  \A s \in SessionIds :
    /\ (session[s].present /\ session[s].dead) ~> ~session[s].present
    /\ (session[s].present /\ session[s].out # << >>) ~> (session[s].present => session[s].out = << >>)
============================================================================
