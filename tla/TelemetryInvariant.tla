------------------------- MODULE TelemetryInvariant -------------------------
(***************************************************************************)
(* The inductive invariant of the telemetry chain: the receiver's shared   *)
(* memory, the bridge that reads it and the page, for any number of        *)
(* workers, records, slots, browsers and sockets; and the steps that keep  *)
(* it without counting anything.                                           *)
(***************************************************************************)
EXTENDS TelemetryChain, TLAPS

(* The writers.                                                            *)

Updating == {"count", "load", "max"}
InRecord == {"head", "tail"}

WriterStates == [pc : {"config", "start", "idle", "claim"} \cup Updating \cup InRecord,
                 lat : Nat, cur : Nat, idx : Int, left : Nat]

MemoryType ==
  /\ stats \in [received : Nat, processed : Nat, total : Nat, max : Nat]
  /\ config \in [parts : SUBSET Parts, ready : BOOLEAN]
  /\ write_index \in Nat
  /\ slots \in [0 .. RingCap - 1 -> [Parts -> Int]]
  /\ wr \in [Writers -> WriterStates]
  /\ truth \in [n : Nat, sum : Nat, max : Nat]
  /\ lapped \in BOOLEAN

\* Nobody runs before the configuration is complete; the receive thread never
\* updates the latencies.
StartInv ==
  /\ config.ready => config.parts = Parts
  /\ At(Receive, "config") => \A t \in Writers : wr[t].pc \in {"config", "start"}
  /\ wr[Receive].pc \notin Updating

\* What was popped and is not yet counted: the workers, and a unit for each
\* nanosecond of their latencies.
Counting == {t \in Workers : At(t, "count")}
Owed == {u \in Workers \X (Nat \ {0}) : At(u[1], "count") /\ u[2] <= wr[u[1]].lat}

CountInv ==
  /\ IsFiniteSet(Counting) /\ truth.n = stats.processed + Cardinality(Counting)
  /\ IsFiniteSet(Owed) /\ truth.sum = stats.total + Cardinality(Owed)

\* The maximum is stored, or in the hands of a worker that will store it.
MaxInv ==
  /\ stats.max <= truth.max
  /\ \A t \in Workers : wr[t].pc \in Updating => wr[t].lat <= truth.max
  /\ \A t \in Workers : At(t, "max") => wr[t].cur <= stats.max
  /\ stats.max = truth.max \/ \E t \in Workers : wr[t].pc \in Updating /\ wr[t].lat = truth.max

\* An index belongs to one writer, for as long as it is in event_ring_record.
IndexInv ==
  /\ \A t \in Writers : IF wr[t].pc \in InRecord THEN wr[t].idx \in 0 .. write_index - 1
                                                 ELSE wr[t].idx = Nothing
  /\ \A t, u \in Writers : t # u /\ wr[t].idx = wr[u].idx => wr[t].idx = Nothing

\* The part p of event i is still to be written.
Unwritten(i, p) ==
  \E t \in Writers : wr[t].idx = i /\ (At(t, "head") \/ (At(t, "tail") /\ p = "tail"))

\* As long as nobody was overtaken by a lap, every writer is in the current lap, and
\* every slot has its event or is going to have it.
RingInv ==
  ~lapped =>
    /\ \A t \in Writers : wr[t].pc \in InRecord => wr[t].idx >= write_index - RingCap
    /\ \A i \in 0 .. write_index - 1, p \in Parts :
         i >= write_index - RingCap => slots[Slot(i)][p] = i \/ Unwritten(i, p)

\* The events still to be recorded, as pairs of a writer and a number.
Ahead(t) == wr[t].left + (IF wr[t].pc \in Updating \cup {"claim"} THEN 1 ELSE 0)
ToRecord == {u \in Writers \X (Nat \ {0}) : u[2] <= Ahead(u[1])}
BoundInv ==
  /\ IsFiniteSet(ToRecord)
  /\ write_index + Cardinality(ToRecord) <= MaxRecords * Cardinality(Writers)

MemInv == MemoryType /\ StartInv /\ CountInv /\ MaxInv /\ IndexInv /\ RingInv /\ BoundInv
----------------------------------------------------------------------------
(* The bridge.                                                             *)

BridgeStates == [pc : {"check", "config", "index", "slots", "lock", "send", "stop", "join", "done"},
                 current : Nat, pos : Nat, todo : Seq(Peers), alive : Seq(Peers)]

BridgeType ==
  /\ fd \in [Peers -> {"none", "open", "closed"}]
  /\ clients \in Seq(Peers)
  /\ acceptor \in [pc : {"poll", "handshake", "push", "done"}, p : Peers \cup {NoPeer}]
  /\ bridge \in BridgeStates
  /\ last_seen \in Nat
  /\ eintr \in {"none", "accept", "main"}
  /\ seen \in Seq(Nat)
  /\ skipped \in SUBSET Nat

\* How far the events are dealt with.
Upto == IF BridgeAt("slots") THEN bridge.pos ELSE last_seen

SeenInv ==
  /\ last_seen <= write_index
  /\ bridge.pos <= bridge.current /\ bridge.current <= write_index
  /\ \A i, j \in DOMAIN seen : i < j => seen[i] < seen[j]
  /\ Range(seen) \cup skipped = 0 .. Upto - 1
  /\ Range(seen) \cap skipped = {}
  /\ \A i \in skipped : i + RingCap < write_index
  /\ cfgseen \in {{}, Parts}

InHand == IF acceptor.pc \in {"handshake", "push"} THEN {acceptor.p} ELSE {}
Listed == IF BridgeAt("send") THEN Range(bridge.todo) \cup Range(bridge.alive) ELSE Range(clients)

\* Every open descriptor is in one place.
DescInv ==
  /\ {p \in Peers : fd[p] = "open"} = InHand \cup Listed
  /\ InHand \cap Listed = {}
  /\ IsInjective(clients) /\ IsInjective(bridge.todo) /\ IsInjective(bridge.alive)
  /\ BridgeAt("send") => Range(bridge.todo) \cap Range(bridge.alive) = {}

BridgeInv == BridgeType /\ SeenInv /\ DescInv
----------------------------------------------------------------------------
(* The page.                                                               *)

Hubs == [url : Urls \cup {"never"}, source : {"never", "connecting", "live", "demo"},
         ws : Sockets \cup {NoSocket, 1}, retry : BOOLEAN, demo : BOOLEAN,
         stats : {"none", "demo", "live"}, config : {"none", "demo", "live"}]
SocketStates == [state : {"free", "connecting", "open", "closing"}, url : Urls \cup {"never"}, onclose : BOOLEAN]

HubType ==
  /\ hub \in Hubs
  /\ hub.url = "never" => hub.source = "never"
  /\ sock \in [Sockets -> SocketStates]

HubInv ==
  /\ HubType
  /\ SourceHonest
  /\ \A s \in Sockets : sock[s].state = "connecting" => s = hub.ws

IInv == MemInv /\ BridgeInv /\ HubInv
----------------------------------------------------------------------------
(* Slots.                                                                  *)


\* Indices of one lap have slots of their own.
LEMMA SlotsDiffer ==
  ASSUME NEW i \in Nat, NEW j \in Nat, i < j, j < i + RingCap
  PROVE  Slot(i) # Slot(j)
  <1> USE TelemetryAssumption
  <1>1. \A n \in Nat : /\ n \div RingCap \in Int /\ n % RingCap \in 0 .. RingCap - 1
                       /\ n = RingCap * (n \div RingCap) + (n % RingCap)
    OBVIOUS
  <1> SUFFICES ASSUME i % RingCap = j % RingCap PROVE FALSE
    BY DEF Slot
  <1> DEFINE d == (j \div RingCap) - (i \div RingCap)
  <1>2. RingCap * d = j - i /\ d \in Int
    BY <1>1
  <1> HIDE DEF d
  <1>3. CASE d <= 0
    <2>1. RingCap * d <= 0
      BY <1>2, <1>3
    <2> QED BY <2>1, <1>2
  <1>4. CASE d >= 1
    <2>1. RingCap * d >= RingCap
      BY <1>2, <1>4
    <2> QED BY <2>1, <1>2
  <1> QED BY <1>2, <1>3, <1>4

\* Every index has a slot; the index one lap earlier has the same.
LEMMA SlotType == ASSUME NEW i \in Nat PROVE Slot(i) \in 0 .. RingCap - 1
  BY TelemetryAssumption DEF Slot
\* The slot comes round after a lap.
LEMMA SlotAgain == ASSUME NEW i \in Nat PROVE Slot(i + RingCap) = Slot(i)
  <1> USE TelemetryAssumption
  <1> DEFINE n == i + RingCap
  <1>1. /\ i \div RingCap \in Int /\ i % RingCap \in 0 .. RingCap - 1
        /\ i = RingCap * (i \div RingCap) + (i % RingCap)
    OBVIOUS
  <1>2. /\ n \div RingCap \in Int /\ n % RingCap \in 0 .. RingCap - 1
        /\ n = RingCap * (n \div RingCap) + (n % RingCap)
    OBVIOUS
  <1> DEFINE d == (n \div RingCap) - (i \div RingCap) - 1
  <1>3. RingCap * d = (i % RingCap) - (n % RingCap) /\ d \in Int
    <2>1. RingCap * d = RingCap * (n \div RingCap) - RingCap * (i \div RingCap) - RingCap
      BY <1>1, <1>2
    <2> QED BY <2>1, <1>1, <1>2
  <1> HIDE DEF d, n
  <1>4. CASE d <= -1
    <2>1. RingCap * d <= 0 - RingCap
      BY <1>3, <1>4
    <2> QED BY <2>1, <1>1, <1>2, <1>3
  <1>5. CASE d >= 1
    <2>1. RingCap * d >= RingCap
      BY <1>3, <1>5
    <2> QED BY <2>1, <1>1, <1>2, <1>3
  <1>6. CASE d = 0
    <2>1. RingCap * d = 0
      BY <1>6
    <2>2. n % RingCap = i % RingCap
      BY <2>1, <1>1, <1>2, <1>3
    <2> QED BY <2>2 DEF Slot, n
  <1> QED BY <1>3, <1>4, <1>5, <1>6
----------------------------------------------------------------------------
(* The steps of the writers.                                               *)

\* Only t moves.
Touches(t) == \A u \in Writers \ {t} : wr'[u] = wr[u]

\* What it means that t is in state r now.
LEMMA WriterMoves ==
  ASSUME MemoryType, NEW t \in Writers, NEW r \in WriterStates, wr' = [wr EXCEPT ![t] = r]
  PROVE  wr' \in [Writers -> WriterStates] /\ wr'[t] = r /\ Touches(t)
  BY DEF MemoryType, Touches

\* A step outside event_ring_record leaves the ring as it is.
LEMMA KeepsRing ==
  ASSUME MemInv, MemoryType', NEW t \in Writers, Touches(t),
         wr'[t].idx = wr[t].idx, wr[t].pc \notin InRecord, wr'[t].pc \notin InRecord,
         Ahead(t)' = Ahead(t), UNCHANGED <<write_index, slots, lapped>>
  PROVE  IndexInv' /\ RingInv' /\ BoundInv'
  <1>i. MemoryType /\ IndexInv /\ RingInv /\ BoundInv
    BY DEF MemInv
  <1>1. IndexInv'
    BY <1>i DEF IndexInv, Touches, Nothing
  <1>2. \A i, p : Unwritten(i, p) => Unwritten(i, p)'
    BY DEF Unwritten, At, Touches, InRecord
  <1>3. RingInv'
    BY <1>i, <1>2 DEF RingInv, Touches
  <1>4. \A u \in Writers : Ahead(u)' = Ahead(u)
    BY DEF Touches, Ahead
  <1>5. ToRecord' = ToRecord
    BY <1>4 DEF ToRecord
  <1>6. BoundInv'
    BY <1>i, <1>5 DEF BoundInv
  <1> QED BY <1>1, <1>3, <1>6

\* A step outside worker_run's updates leaves the counters as they are.
LEMMA KeepsCounts ==
  ASSUME MemInv, NEW t \in Writers, Touches(t),
         wr[t].pc \notin Updating, wr'[t].pc \notin Updating,
         stats'.processed = stats.processed, stats'.total = stats.total, stats'.max = stats.max,
         UNCHANGED truth
  PROVE  CountInv' /\ MaxInv'
  <1>i. MemoryType /\ CountInv /\ MaxInv
    BY DEF MemInv
  <1>0. \A u \in Workers : (wr[u].pc \in Updating \/ wr'[u].pc \in Updating) => wr'[u] = wr[u]
    BY DEF Touches, Writers
  <1>1. Counting' = Counting
    BY <1>0 DEF Counting, At, Updating
  <1>2. Owed' = Owed
    BY <1>0 DEF Owed, At, Updating
  <1>3. CountInv'
    BY <1>i, <1>1, <1>2 DEF CountInv
  <1>4. MaxInv'
    BY <1>i, <1>0 DEF MaxInv, At, Updating
  <1> QED BY <1>3, <1>4



\* The compare-exchange loop: a worker that gives up has seen a maximum that is as
\* large as its own latency, and the maximum only grows.
LEMMA LoadMaxInv == ASSUME MemInv, NEW t \in Writers, LoadMax(t) PROVE MemInv'
  <1>i. MemoryType /\ StartInv /\ CountInv /\ MaxInv
    BY DEF MemInv
  <1>1. /\ t \in Workers /\ wr[t].pc = "load" /\ wr[t] \in WriterStates
        /\ UNCHANGED <<stats, config, write_index, slots, truth, lapped>>
        /\ stats.max \in Nat
    BY <1>i DEF LoadMax, MemoryType, At, StartInv, Writers, Updating
  <1> DEFINE r == [wr[t] EXCEPT !.pc = "max", !.cur = stats.max]
  <1>2. /\ r.pc = "max" /\ r.lat = wr[t].lat /\ r.left = wr[t].left /\ r.cur = stats.max
        /\ r.idx = wr[t].idx /\ r \in WriterStates
    BY <1>1, Zenon DEF WriterStates, Updating
  <1>3. wr' \in [Writers -> WriterStates] /\ wr'[t] = r /\ Touches(t)
    <2>1. wr' = [wr EXCEPT ![t] = r]
      BY <1>i, Zenon DEF LoadMax, MemoryType
    <2> QED BY <2>1, <1>2, <1>i, WriterMoves, Zenon
  <1> HIDE DEF r
  <1>4. MemoryType'
    BY <1>1, <1>3, <1>i, Zenon DEF MemoryType
  <1>5. Ahead(t)' = Ahead(t)
    BY <1>1, <1>2, <1>3 DEF Ahead, Updating
  <1>6. IndexInv' /\ RingInv' /\ BoundInv'
    BY <1>1, <1>2, <1>3, <1>4, <1>5, KeepsRing, Zenon DEF InRecord
  <1>7. StartInv'
    BY <1>1, <1>2, <1>3, <1>i, TelemetryAssumption DEF StartInv, At, Touches, Writers
  <1>w. \A u \in Workers : u # t => wr'[u] = wr[u]
    BY <1>3 DEF Touches, Writers
  <1>8. Counting' = Counting /\ Owed' = Owed
    BY <1>w, <1>1, <1>2, <1>3 DEF Counting, Owed, At
  <1>9. CountInv'
    BY <1>8, <1>1, <1>i DEF CountInv
  <1>10. MaxInv'
    BY <1>w, <1>1, <1>2, <1>3, <1>i DEF MaxInv, At, Updating
  <1> QED BY <1>4, <1>6, <1>7, <1>9, <1>10 DEF MemInv

\* A worker in the loop goes on with the state r, and the maximum may grow.
LEMMA LoopInv ==
  ASSUME MemInv, NEW t \in Workers, wr[t].pc = "max", NEW r \in WriterStates,
         wr' = [wr EXCEPT ![t] = r],
         r.pc \in {"max", "claim"}, r.lat = wr[t].lat, r.left = wr[t].left, r.idx = wr[t].idx,
         stats' = [stats EXCEPT !.max = stats'.max], stats'.max \in Nat,
         stats'.max = stats.max \/ (stats'.max = wr[t].lat /\ wr[t].lat > stats.max),
         r.pc = "max" => r.cur = stats'.max,
         r.pc = "claim" => wr[t].lat <= stats'.max,
         UNCHANGED <<config, write_index, slots, truth, lapped>>
  PROVE  MemInv'
  <1>i. MemoryType /\ StartInv /\ CountInv /\ MaxInv
    BY DEF MemInv
  <1>1. t \in Writers /\ wr[t] \in WriterStates
    BY <1>i DEF Writers, MemoryType
  <1>3. wr' \in [Writers -> WriterStates] /\ wr'[t] = r /\ Touches(t)
    BY <1>1, <1>i, WriterMoves, Zenon
  <1>s. /\ stats' \in [received : Nat, processed : Nat, total : Nat, max : Nat]
        /\ stats'.processed = stats.processed /\ stats'.total = stats.total
    BY <1>i DEF MemoryType
  <1>4. MemoryType'
    BY <1>s, <1>3, <1>i, Zenon DEF MemoryType
  <1>5. Ahead(t)' = Ahead(t)
    BY <1>3 DEF Ahead, Updating
  <1>6. IndexInv' /\ RingInv' /\ BoundInv'
    <2>1. r.pc \notin InRecord /\ wr[t].pc \notin InRecord
      BY DEF InRecord
    <2> QED BY <2>1, <1>1, <1>3, <1>4, <1>5, KeepsRing, Zenon
  <1>7. StartInv'
    BY <1>3, <1>i, TelemetryAssumption DEF StartInv, At, Touches, Writers
  <1>w. \A u \in Workers : u # t => wr'[u] = wr[u]
    BY <1>3 DEF Touches, Writers
  <1>8. Counting' = Counting /\ Owed' = Owed
    BY <1>w, <1>3 DEF Counting, Owed, At
  <1>9. CountInv'
    BY <1>8, <1>s, <1>i DEF CountInv
  <1>10. MaxInv'
    <2>1. truth.max \in Nat /\ stats.max \in Nat /\ \A u \in Workers : wr[u].lat \in Nat /\ wr[u].cur \in Nat
      BY <1>i, Zenon DEF MemoryType, Writers, WriterStates
    <2>2. wr[t].lat <= truth.max
      BY <1>i DEF MaxInv, Updating
    <2>3. stats'.max <= truth.max /\ stats.max <= stats'.max
      BY <2>1, <2>2, <1>i DEF MaxInv
    <2>4. \A u \in Workers : wr'[u].pc \in Updating => wr'[u].lat <= truth.max
      BY <2>2, <1>w, <1>3, <1>i DEF MaxInv
    <2>5. \A u \in Workers : wr'[u].pc = "max" => wr'[u].cur <= stats'.max
      BY <2>1, <2>3, <1>w, <1>3, <1>i DEF MaxInv, At
    <2>6. stats'.max = truth.max \/ \E u \in Workers : wr'[u].pc \in Updating /\ wr'[u].lat = truth.max
      <3>1. CASE stats.max = truth.max
        BY <3>1, <2>1, <2>3
      <3>2. ASSUME NEW u \in Workers, wr[u].pc \in Updating, wr[u].lat = truth.max
            PROVE  stats'.max = truth.max \/ (wr'[u].pc \in Updating /\ wr'[u].lat = truth.max)
        <4>1. CASE u = t /\ r.pc = "claim"
          BY <4>1, <3>2, <2>1, <2>3
        <4> QED BY <4>1, <3>2, <1>w, <1>3 DEF Updating
      <3> QED BY <3>1, <3>2, <1>i DEF MaxInv
    <2> QED BY <2>3, <2>4, <2>5, <2>6 DEF MaxInv, At
  <1> QED BY <1>4, <1>6, <1>7, <1>9, <1>10 DEF MemInv

\* The compare-and-swap of the maximum: it is stored, or tried again.
LEMMA CasMaxInv == ASSUME MemInv, NEW t \in Writers, CasMax(t) PROVE MemInv'
  <1>i. MemoryType /\ StartInv /\ MaxInv
    BY DEF MemInv
  <1>1. /\ t \in Workers /\ wr[t].pc = "max" /\ wr[t] \in WriterStates
        /\ UNCHANGED <<config, write_index, slots, truth, lapped>>
        /\ stats.max \in Nat /\ wr[t].lat \in Nat /\ wr[t].cur \in Nat
    BY <1>i DEF CasMax, MemoryType, At, StartInv, Writers, Updating, WriterStates
  <1>2. wr[t].cur <= stats.max
    BY <1>1, <1>i DEF MaxInv, At
  <1>3. stats = [stats EXCEPT !.max = stats.max]
    BY <1>i DEF MemoryType
  <1> DEFINE done == [wr[t] EXCEPT !.pc = "claim"]
             again == [wr[t] EXCEPT !.cur = stats.max]
  <1>4. /\ done \in WriterStates /\ done.pc = "claim" /\ done.lat = wr[t].lat
        /\ done.left = wr[t].left /\ done.idx = wr[t].idx
    BY <1>1 DEF WriterStates
  <1>5. /\ again \in WriterStates /\ again.pc = "max" /\ again.lat = wr[t].lat /\ again.cur = stats.max
        /\ again.left = wr[t].left /\ again.idx = wr[t].idx
    BY <1>1 DEF WriterStates
  <1>6. wr' = [wr EXCEPT ![t].pc = "claim"] => wr' = [wr EXCEPT ![t] = done]
    BY <1>i DEF MemoryType
  <1>7. wr' = [wr EXCEPT ![t].cur = stats.max] => wr' = [wr EXCEPT ![t] = again]
    BY <1>i DEF MemoryType
  <1> HIDE DEF done, again
  <1>8. CASE wr[t].lat <= wr[t].cur /\ Goto(t, "claim") /\ UNCHANGED stats
    <2>1. wr' = [wr EXCEPT ![t] = done] /\ stats' = stats /\ wr[t].lat <= stats'.max
      BY <1>1, <1>2, <1>6, <1>8 DEF Goto
    <2> QED BY <2>1, <1>1, <1>3, <1>4, LoopInv, Zenon
  <1>9. CASE wr[t].lat > wr[t].cur /\ stats.max = wr[t].cur /\ Goto(t, "claim")
             /\ stats' = [stats EXCEPT !.max = wr[t].lat]
    <2>1. wr' = [wr EXCEPT ![t] = done] /\ stats'.max = wr[t].lat /\ wr[t].lat <= stats'.max
      BY <1>1, <1>6, <1>9, <1>i DEF Goto, MemoryType
    <2>2. stats' = [stats EXCEPT !.max = stats'.max] /\ wr[t].lat > stats.max
      BY <2>1, <1>9
    <2> QED BY <2>1, <2>2, <1>1, <1>4, LoopInv, Zenon
  <1>10. CASE wr[t].lat > wr[t].cur /\ wr' = [wr EXCEPT ![t].cur = stats.max] /\ UNCHANGED stats
    <2>1. wr' = [wr EXCEPT ![t] = again] /\ stats' = stats
      BY <1>7, <1>10
    <2> QED BY <2>1, <1>1, <1>3, <1>5, LoopInv, Zenon
  <1> QED BY <1>8, <1>9, <1>10 DEF CasMax

\* process_one.
LEMMA ReceivedInv == ASSUME MemInv, NEW t \in Writers, Received(t) PROVE MemInv'
  <1>i. MemoryType /\ StartInv
    BY DEF MemInv
  <1>1. /\ t = Receive /\ wr[t].pc = "idle" /\ wr[t] \in WriterStates /\ wr[t].left \in Nat /\ wr[t].left > 0
        /\ UNCHANGED <<config, write_index, slots, truth, lapped>>
        /\ stats' = [stats EXCEPT !.received = @ + 1]
    BY <1>i DEF Received, MemoryType, At, WriterStates
  <1> DEFINE r == [wr[t] EXCEPT !.pc = "claim", !.left = @ - 1]
  <1>2. /\ r.pc = "claim" /\ r.left = wr[t].left - 1 /\ r.idx = wr[t].idx /\ r \in WriterStates
    <2>1. wr[t].left - 1 \in Nat
      BY <1>1
    <2> QED BY <2>1, <1>1, Zenon DEF WriterStates
  <1>3. wr' \in [Writers -> WriterStates] /\ wr'[t] = r /\ Touches(t)
    <2>1. wr' = [wr EXCEPT ![t] = r]
      BY <1>i, Zenon DEF Received, MemoryType
    <2> QED BY <2>1, <1>2, <1>i, WriterMoves, Zenon
  <1> HIDE DEF r
  <1>s. /\ stats' \in [received : Nat, processed : Nat, total : Nat, max : Nat]
        /\ stats'.processed = stats.processed /\ stats'.total = stats.total /\ stats'.max = stats.max
    BY <1>1, <1>i DEF MemoryType
  <1>4. MemoryType'
    BY <1>s, <1>1, <1>3, <1>i, Zenon DEF MemoryType
  <1>5. Ahead(t)' = Ahead(t)
    BY <1>1, <1>2, <1>3 DEF Ahead, Updating
  <1>6. IndexInv' /\ RingInv' /\ BoundInv'
    BY <1>1, <1>2, <1>3, <1>4, <1>5, KeepsRing, Zenon DEF InRecord
  <1>7. CountInv' /\ MaxInv'
    <2>1. wr[t].pc \notin Updating /\ wr'[t].pc \notin Updating
      BY <1>1, <1>2, <1>3 DEF Updating
    <2> QED BY <2>1, <1>1, <1>3, <1>s, KeepsCounts, Zenon
  <1>8. StartInv'
    BY <1>1, <1>2, <1>3, <1>i DEF StartInv, At, Updating
  <1> QED BY <1>4, <1>6, <1>7, <1>8 DEF MemInv


\* A part of an event is written.  Its slot belongs to no other event of this lap.
LEMMA WritePartInv ==
  ASSUME MemInv, NEW t \in Writers, NEW p \in Parts, WritePart(t, p)
  PROVE  MemInv'
  <1>i. MemoryType /\ StartInv /\ IndexInv /\ RingInv /\ BoundInv
    BY DEF MemInv
  <1> DEFINE n == wr[t].idx
             r == [wr[t] EXCEPT !.pc = IF p = "head" THEN "tail" ELSE "idle",
                                !.idx = IF p = "head" THEN @ ELSE Nothing]
  <1>1. /\ wr[t].pc = p /\ wr[t] \in WriterStates /\ p \in {"head", "tail"}
        /\ UNCHANGED <<stats, config, write_index, truth, lapped>>
        /\ write_index \in Nat /\ RingCap \in Nat \ {0}
        /\ slots' = [slots EXCEPT ![Slot(n)][p] = n]
        /\ \A u \in Writers : wr[u].idx \in Int
    BY <1>i, TelemetryAssumption DEF WritePart, MemoryType, At, WriterStates, Parts
  <1>x. \A u \in Writers : IF wr[u].pc \in InRecord THEN wr[u].idx \in 0 .. write_index - 1 ELSE wr[u].idx = Nothing
    BY <1>i DEF IndexInv
  <1>n. n \in 0 .. write_index - 1 /\ n \in Nat
    BY <1>x, <1>1 DEF InRecord
  <1>2. /\ r.pc = (IF p = "head" THEN "tail" ELSE "idle") /\ r.left = wr[t].left
        /\ r.idx = (IF p = "head" THEN n ELSE Nothing) /\ r \in WriterStates
    <2>1. Nothing \in Int /\ n \in Int
      BY <1>1 DEF Nothing
    <2> QED BY <2>1, <1>1, Zenon DEF WriterStates, InRecord
  <1>3. wr' \in [Writers -> WriterStates] /\ wr'[t] = r /\ Touches(t)
    <2>1. wr' = [wr EXCEPT ![t] = r]
      BY <1>i, Zenon DEF WritePart, MemoryType
    <2> QED BY <2>1, <1>2, <1>i, WriterMoves, Zenon
  <1>4. /\ slots \in [0 .. RingCap - 1 -> [Parts -> Int]] /\ slots' \in [0 .. RingCap - 1 -> [Parts -> Int]]
        /\ slots'[Slot(n)][p] = n
        /\ \A q \in Parts : q # p => slots'[Slot(n)][q] = slots[Slot(n)][q]
        /\ \A k \in 0 .. RingCap - 1 : k # Slot(n) => slots'[k] = slots[k]
    <2>1. Slot(n) \in 0 .. RingCap - 1 /\ n \in Int
      BY <1>n, SlotType
    <2>2. slots \in [0 .. RingCap - 1 -> [Parts -> Int]]
      BY <1>i DEF MemoryType
    <2> QED BY <2>1, <2>2, <1>1
  <1> HIDE DEF n, r
  <1>5. MemoryType'
    BY <1>1, <1>3, <1>4, <1>i, Zenon DEF MemoryType
  <1>6. StartInv'
    <2>1. Receive \in Writers /\ wr[Receive].pc # "config" /\ wr'[t].pc \notin Updating \cup {"config"}
      BY <1>1, <1>2, <1>3, <1>i DEF StartInv, At, Updating, Writers
    <2>2. wr'[Receive].pc # "config" /\ wr'[Receive].pc \notin Updating
      BY <2>1, <1>3, <1>i DEF StartInv, Touches
    <2> QED BY <2>2, <1>1, <1>i DEF StartInv, At
  <1>7. CountInv' /\ MaxInv'
    <2>1. wr[t].pc \notin Updating /\ wr'[t].pc \notin Updating
      BY <1>1, <1>2, <1>3 DEF Updating
    <2> QED BY <2>1, <1>1, <1>3, KeepsCounts, Zenon
  <1>w. \A u \in Writers : u # t => wr'[u] = wr[u]
    BY <1>3 DEF Touches
  <1>y. \A u \in Writers : u # t => wr[u].idx # n
    BY <1>n, <1>1, <1>i DEF IndexInv, Nothing, n
  <1>8. IndexInv'
    <2>1. \A u \in Writers : IF wr'[u].pc \in InRecord THEN wr'[u].idx \in 0 .. write_index' - 1
                                                       ELSE wr'[u].idx = Nothing
      BY <1>w, <1>x, <1>n, <1>1, <1>2, <1>3 DEF InRecord
    <2>2. \A u, v \in Writers : u # v /\ wr'[u].idx = wr'[v].idx => wr'[u].idx = Nothing
      BY <1>w, <1>y, <1>2, <1>3, <1>i DEF IndexInv
    <2> QED BY <2>1, <2>2 DEF IndexInv
  <1>9. RingInv'
    <2> SUFFICES ASSUME ~lapped
                 PROVE  /\ \A u \in Writers : wr'[u].pc \in InRecord => wr'[u].idx >= write_index - RingCap
                        /\ \A i \in 0 .. write_index - 1, q \in Parts :
                             i >= write_index - RingCap => slots'[Slot(i)][q] = i \/ Unwritten(i, q)'
      BY <1>1 DEF RingInv, Slot
    <2>2. /\ \A u \in Writers : wr[u].pc \in InRecord => wr[u].idx >= write_index - RingCap
          /\ \A i \in 0 .. write_index - 1, q \in Parts :
               i >= write_index - RingCap => slots[Slot(i)][q] = i \/ Unwritten(i, q)
      BY <1>i DEF RingInv
    <2>n. n >= write_index - RingCap
      BY <2>2, <1>1 DEF InRecord, n
    <2>3. \A u \in Writers : wr'[u].pc \in InRecord => wr'[u].idx >= write_index - RingCap
      BY <2>2, <2>n, <1>w, <1>1, <1>2, <1>3 DEF InRecord
    <2>4. ASSUME NEW i \in 0 .. write_index - 1, NEW q \in Parts, i >= write_index - RingCap
          PROVE  slots'[Slot(i)][q] = i \/ Unwritten(i, q)'
      <3>0. slots[Slot(i)][q] = i \/ Unwritten(i, q)
        BY <2>2, <2>4
      <3>1. CASE i = n /\ q = p
        BY <3>1, <1>4
      <3>2. CASE i = n /\ q # p /\ p = "head"
        BY <3>2, <1>2, <1>3 DEF Unwritten, At, Parts
      <3>3. CASE i = n /\ q # p /\ p = "tail"
        <4>1. ~Unwritten(i, q)
          BY <3>3, <1>y, <1>1 DEF Unwritten, At, Parts
        <4> QED BY <4>1, <3>0, <3>3, <1>4
      <3>4. CASE i # n
        <4>1. Slot(i) # Slot(n) /\ Slot(i) \in 0 .. RingCap - 1
          <5>1. i \in Nat /\ (i < n => n < i + RingCap) /\ (n < i => i < n + RingCap)
            BY <2>n, <2>4, <1>n, <1>1
          <5>2. CASE i < n
            BY <5>1, <5>2, <1>n, SlotsDiffer, SlotType
          <5>3. CASE n < i
            BY <5>1, <5>3, <1>n, SlotsDiffer, SlotType
          <5> QED BY <5>1, <5>2, <5>3, <3>4, <1>n
        <4>2. Unwritten(i, q) => Unwritten(i, q)'
          BY <3>4, <1>w DEF Unwritten, At, n
        <4> QED BY <4>1, <4>2, <3>0, <1>4
      <3> QED BY <3>1, <3>2, <3>3, <3>4, <1>1
    <2> QED BY <2>3, <2>4
  <1>10. BoundInv'
    <2>1. \A u \in Writers : Ahead(u)' = Ahead(u)
      BY <1>w, <1>1, <1>2, <1>3 DEF Ahead, Updating
    <2>2. ToRecord' = ToRecord
      BY <2>1 DEF ToRecord
    <2> QED BY <2>2, <1>1, <1>i DEF BoundInv
  <1> QED BY <1>5, <1>6, <1>7, <1>8, <1>9, <1>10 DEF MemInv

\* Start-up.
LEMMA ConfigInv == ASSUME MemInv, ConfigPart \/ ConfigReady PROVE MemInv'
  <1>i. /\ MemoryType /\ StartInv /\ CountInv /\ MaxInv /\ IndexInv /\ RingInv /\ BoundInv
    BY DEF MemInv
  <1>1. CASE ConfigPart
    <2>1. PICK p \in Parts \ config.parts : config' = [config EXCEPT !.parts = @ \cup {p}]
      BY <1>1, Zenon DEF ConfigPart
    <2>2. UNCHANGED <<stats, write_index, slots, wr, truth, lapped>> /\ At(Receive, "config")
      BY <1>1 DEF ConfigPart
    <2>3. config' \in [parts : SUBSET Parts, ready : BOOLEAN] /\ config'.ready = config.ready
          /\ config'.parts = config.parts \cup {p} /\ config.parts \subseteq Parts
      BY <2>1, <1>i DEF MemoryType
    <2>4. MemoryType'
      BY <2>2, <2>3, <1>i, Zenon DEF MemoryType
    <2>5. StartInv'
      BY <2>2, <2>3, <1>i DEF StartInv, At
    <2>6. CountInv' /\ MaxInv'
      BY <2>2, <1>i DEF CountInv, Counting, Owed, MaxInv, At
    <2>7. IndexInv' /\ RingInv'
      BY <2>2, <1>i DEF IndexInv, RingInv, Unwritten, Slot, At
    <2>8. BoundInv'
      BY <2>2, <1>i DEF BoundInv, ToRecord, Ahead
    <2> QED BY <2>4, <2>5, <2>6, <2>7, <2>8 DEF MemInv
  <1>2. CASE ConfigReady
    <2>1. /\ UNCHANGED <<stats, write_index, slots, truth, lapped>> /\ config.parts = Parts
          /\ config' = [config EXCEPT !.ready = TRUE]
          /\ wr' = [t \in Writers |-> [wr[t] EXCEPT !.pc = "idle"]]
          /\ wr[Receive].pc = "config"
      BY <1>2 DEF ConfigReady, At
    <2>2. config' \in [parts : SUBSET Parts, ready : BOOLEAN] /\ config'.parts = Parts
      BY <2>1, <1>i, Zenon DEF MemoryType
    <2>3. \A t \in Writers : /\ wr[t] \in WriterStates /\ wr[t].pc \in {"config", "start"}
                             /\ wr'[t] \in WriterStates /\ wr'[t].pc = "idle" /\ wr'[t].idx = wr[t].idx
                             /\ wr'[t].left = wr[t].left
      <3> TAKE t \in Writers
      <3>1. wr[t] \in WriterStates /\ wr[t].pc \in {"config", "start"}
        BY <2>1, <1>i DEF MemoryType, StartInv, At
      <3>2. wr'[t] = [wr[t] EXCEPT !.pc = "idle"]
        BY <2>1
      <3> QED BY <3>1, <3>2 DEF WriterStates
    <2>4. MemoryType'
      <3>1. wr' \in [Writers -> WriterStates]
        BY <2>1, <2>3
      <3> QED BY <3>1, <2>1, <2>2, <1>i, Zenon DEF MemoryType
    <2>5. StartInv'
      <3>1. Receive \in Writers
        BY DEF Writers
      <3> QED BY <3>1, <2>2, <2>3 DEF StartInv, At, Updating
    <2>6. Counting = {} /\ Counting' = {} /\ Owed = {} /\ Owed' = {}
      <3>1. \A t \in Workers : wr[t].pc # "count" /\ wr'[t].pc # "count"
        BY <2>3 DEF Writers
      <3> QED BY <3>1 DEF Counting, Owed, At
    <2>7. CountInv'
      BY <2>1, <2>6, <1>i DEF CountInv
    <2>8. MaxInv'
      <3>1. \A t \in Workers : wr[t].pc \notin Updating /\ wr'[t].pc \notin Updating
        BY <2>3 DEF Writers, Updating
      <3> QED BY <3>1, <2>1, <1>i, Zenon DEF MaxInv, At, Updating
    <2>9. \A t \in Writers : wr[t].pc \notin InRecord /\ wr'[t].pc \notin InRecord
      BY <2>3 DEF InRecord
    <2>10. IndexInv'
      BY <2>3, <2>9, <1>i DEF IndexInv
    <2>11. \A i, p : ~Unwritten(i, p)
      BY <2>9 DEF Unwritten, At, InRecord
    <2>12. RingInv'
      BY <2>1, <2>9, <2>11, <1>i DEF RingInv, Slot
    <2>13. \A t \in Writers : Ahead(t)' = Ahead(t)
      BY <2>3 DEF Ahead, Updating
    <2>14. BoundInv'
      <3>1. ToRecord' = ToRecord
        BY <2>13 DEF ToRecord
      <3> QED BY <3>1, <2>1, <1>i DEF BoundInv
    <2> QED BY <2>4, <2>5, <2>7, <2>8, <2>10, <2>12, <2>14 DEF MemInv
  <1> QED BY <1>1, <1>2



\* So does a step that leaves the memory alone.
LEMMA MemoryStutters == ASSUME MemInv, UNCHANGED memory PROVE MemInv'
  <1>i. /\ MemoryType /\ StartInv /\ CountInv /\ MaxInv /\ IndexInv /\ RingInv /\ BoundInv
    BY DEF MemInv
  <1>0. UNCHANGED <<stats, config, write_index, slots, wr, truth, lapped>>
    BY DEF memory
  <1>1. MemoryType' /\ StartInv'
    BY <1>0, <1>i DEF MemoryType, StartInv, At
  <1>2. CountInv' /\ MaxInv'
    BY <1>0, <1>i DEF CountInv, Counting, Owed, MaxInv, At
  <1>3. IndexInv' /\ RingInv'
    BY <1>0, <1>i DEF IndexInv, RingInv, Unwritten, Slot, At
  <1>4. BoundInv'
    BY <1>0, <1>i DEF BoundInv, ToRecord, Ahead
  <1> QED BY <1>1, <1>2, <1>3, <1>4 DEF MemInv

----------------------------------------------------------------------------
(* What lists hold.                                                        *)

\* One more at the end,
LEMMA RangeAppend ==
  ASSUME NEW S, NEW s \in Seq(S), NEW e \in S
  PROVE  /\ Append(s, e) \in Seq(S) /\ Range(Append(s, e)) = Range(s) \cup {e}
         /\ IsInjective(s) /\ e \notin Range(s) => IsInjective(Append(s, e))
  <1> DEFINE a == Append(s, e)
  <1>1. /\ a \in Seq(S) /\ Len(s) \in Nat /\ DOMAIN s = 1 .. Len(s) /\ DOMAIN a = 1 .. Len(s) + 1
        /\ a[Len(s) + 1] = e /\ \A i \in 1 .. Len(s) : a[i] = s[i]
    OBVIOUS
  <1> HIDE DEF a
  <1>2. Range(a) = Range(s) \cup {e}
    <2>1. \A x : x \in Range(a) <=> \E i \in 1 .. Len(s) + 1 : a[i] = x
      BY <1>1 DEF Range
    <2>2. \A x : x \in Range(s) <=> \E i \in 1 .. Len(s) : s[i] = x
      BY <1>1 DEF Range
    <2>3. \A x : x \in Range(a) => x \in Range(s) \cup {e}
      BY <2>1, <2>2, <1>1
    <2>4. \A x : x \in Range(s) \cup {e} => x \in Range(a)
      BY <2>1, <2>2, <1>1
    <2> QED BY <2>3, <2>4
  <1>3. IsInjective(s) /\ e \notin Range(s) => IsInjective(a)
    BY <1>1 DEF Range, IsInjective
  <1> QED BY <1>1, <1>2, <1>3 DEF a

\* the first taken off,
LEMMA RangeTail ==
  ASSUME NEW S, NEW s \in Seq(S), s # << >>
  PROVE  /\ Tail(s) \in Seq(S) /\ Head(s) \in S /\ Range(s) = {Head(s)} \cup Range(Tail(s))
         /\ IsInjective(s) => IsInjective(Tail(s)) /\ Head(s) \notin Range(Tail(s))
  <1> DEFINE a == Tail(s)
  <1>1. /\ a \in Seq(S) /\ Len(s) \in Nat \ {0} /\ DOMAIN s = 1 .. Len(s) /\ DOMAIN a = 1 .. Len(s) - 1
        /\ Head(s) = s[1] /\ Head(s) \in S /\ \A i \in 1 .. Len(s) - 1 : a[i] = s[i + 1]
    OBVIOUS
  <1> HIDE DEF a
  <1>2. Range(s) = {Head(s)} \cup Range(a)
    <2>1. \A x : x \in Range(a) <=> \E i \in 1 .. Len(s) - 1 : a[i] = x
      BY <1>1 DEF Range
    <2>2. \A x : x \in Range(s) <=> \E i \in 1 .. Len(s) : s[i] = x
      BY <1>1 DEF Range
    <2>3. ASSUME NEW i \in 1 .. Len(s) PROVE s[i] \in {Head(s)} \cup Range(a)
      <3>1. CASE i = 1
        BY <3>1, <1>1
      <3>2. CASE i # 1
        <4>1. i - 1 \in 1 .. Len(s) - 1 /\ (i - 1) + 1 = i
          BY <3>2, <1>1
        <4>2. a[i - 1] = s[i]
          BY <4>1, <1>1
        <4> QED BY <4>1, <4>2, <2>1
      <3> QED BY <3>1, <3>2
    <2>4. ASSUME NEW i \in 1 .. Len(s) - 1 PROVE a[i] \in Range(s)
      <3>1. i + 1 \in 1 .. Len(s) /\ a[i] = s[i + 1]
        BY <1>1
      <3> QED BY <3>1, <2>2
    <2>5. Head(s) \in Range(s)
      BY <2>2, <1>1
    <2> QED BY <2>1, <2>2, <2>3, <2>4, <2>5
  <1>3. ASSUME IsInjective(s) PROVE IsInjective(a) /\ Head(s) \notin Range(a)
    <2>1. \A i, j \in 1 .. Len(s) : s[i] = s[j] => i = j
      BY <1>1, <1>3 DEF IsInjective
    <2>2. ASSUME NEW i \in 1 .. Len(s) - 1, NEW j \in 1 .. Len(s) - 1, a[i] = a[j] PROVE i = j
      <3>1. i + 1 \in 1 .. Len(s) /\ j + 1 \in 1 .. Len(s) /\ s[i + 1] = s[j + 1]
        BY <2>2, <1>1
      <3>2. i + 1 = j + 1
        BY <3>1, <2>1
      <3> QED BY <3>2
    <2>3. ASSUME NEW i \in 1 .. Len(s) - 1 PROVE a[i] # Head(s)
      <3>1. i + 1 \in 1 .. Len(s) /\ 1 \in 1 .. Len(s) /\ i + 1 # 1 /\ a[i] = s[i + 1]
        BY <1>1
      <3> QED BY <3>1, <2>1, <1>1
    <2> QED BY <2>2, <2>3, <1>1 DEF Range, IsInjective
  <1> QED BY <1>1, <1>2, <1>3 DEF a

\* two lists joined, and none.
LEMMA RangeConcat ==
  ASSUME NEW S, NEW s \in Seq(S), NEW t \in Seq(S)
  PROVE  Range(s \o t) = Range(s) \cup Range(t)
  <1> DEFINE a == s \o t
  <1>1. /\ Len(s) \in Nat /\ Len(t) \in Nat /\ DOMAIN s = 1 .. Len(s) /\ DOMAIN t = 1 .. Len(t)
        /\ DOMAIN a = 1 .. Len(s) + Len(t)
        /\ \A i \in 1 .. Len(s) : a[i] = s[i]
        /\ \A i \in 1 .. Len(t) : a[i + Len(s)] = t[i]
    OBVIOUS
  <1> HIDE DEF a
  <1>2. ASSUME NEW i \in 1 .. Len(s) + Len(t) PROVE a[i] \in Range(s) \cup Range(t)
    <2>1. CASE i <= Len(s)
      BY <2>1, <1>1 DEF Range
    <2>2. CASE i > Len(s)
      <3>1. i - Len(s) \in 1 .. Len(t) /\ (i - Len(s)) + Len(s) = i
        BY <2>2, <1>1
      <3>2. a[i] = t[i - Len(s)]
        BY <3>1, <1>1
      <3> QED BY <3>1, <3>2, <1>1 DEF Range
    <2> QED BY <2>1, <2>2, <1>1
  <1>3. \A i \in 1 .. Len(s) : s[i] \in Range(a)
    BY <1>1 DEF Range
  <1>4. ASSUME NEW i \in 1 .. Len(t) PROVE t[i] \in Range(a)
    <2>1. i + Len(s) \in 1 .. Len(s) + Len(t) /\ a[i + Len(s)] = t[i]
      BY <1>1
    <2> QED BY <2>1, <1>1 DEF Range
  <1>5. Range(a) \subseteq Range(s) \cup Range(t)
    BY <1>1, <1>2 DEF Range
  <1>6. Range(s) \subseteq Range(a) /\ Range(t) \subseteq Range(a)
    BY <1>1, <1>3, <1>4 DEF Range
  <1> QED BY <1>5, <1>6 DEF a
\* An empty list holds nothing.
LEMMA RangeEmpty == Range(<< >>) = {} /\ IsInjective(<< >>)
  BY DEF Range, IsInjective
----------------------------------------------------------------------------
(* The steps of the bridge.                                                *)

\* A step that reads nothing keeps what is known of the events.
LEMMA SeenKeeps ==
  ASSUME BridgeType, SeenInv, UNCHANGED <<last_seen, seen, skipped>>, cfgseen' \in {{}, Parts},
         bridge'.pos = bridge.pos, bridge'.current = bridge.current,
         (bridge.pc = "slots") <=> (bridge'.pc = "slots"),
         write_index \in Nat, write_index' \in Nat, write_index <= write_index', RingCap \in Nat
  PROVE  SeenInv'
  <1>1. Upto' = Upto
    BY DEF Upto, BridgeAt
  <1>2. last_seen' <= write_index' /\ bridge'.pos <= bridge'.current /\ bridge'.current <= write_index'
    BY DEF SeenInv, BridgeType, BridgeStates
  <1>3. \A i \in skipped' : i + RingCap < write_index'
    BY DEF SeenInv, BridgeType
  <1> QED BY <1>1, <1>2, <1>3, Zenon DEF SeenInv

\* A step that opens, closes and moves nothing keeps the descriptors.
LEMMA DescKeeps ==
  ASSUME DescInv, UNCHANGED <<fd, clients>>,
         bridge'.todo = bridge.todo, bridge'.alive = bridge.alive,
         (bridge.pc = "send") <=> (bridge'.pc = "send"), InHand' = InHand
  PROVE  DescInv'
  <1>1. Listed' = Listed
    BY DEF Listed, BridgeAt
  <1> QED BY <1>1, Zenon DEF DescInv, BridgeAt

\* The number of recorded events never shrinks.
LEMMA IndexGrows == ASSUME MemoryType, MemoryNext PROVE write_index' \in Nat /\ write_index <= write_index'
  <1>1. write_index' \in {write_index, write_index + 1} /\ write_index \in Nat
    BY Zenon DEF MemoryNext, ConfigPart, ConfigReady, Write, Pop, Count, LoadMax, CasMax, Received, Claim, WritePart, MemoryType
  <1> QED BY <1>1

\* A step of the writers keeps what the bridge relies on.
LEMMA MemoryStepBridge == ASSUME MemInv, BridgeInv, MemoryStep PROVE BridgeInv'
  <1>i. MemoryType /\ BridgeType /\ SeenInv /\ DescInv
    BY DEF MemInv, BridgeInv
  <1>1. UNCHANGED <<peer, fd, clients, acceptor, stop, bridge, last_seen, seen, skipped, cfgseen, flaky, g_stop, eintr>>
    BY DEF MemoryStep, serverVars, bridgeVars
  <1>2. write_index' \in Nat /\ write_index <= write_index' /\ write_index \in Nat /\ RingCap \in Nat
    BY <1>i, IndexGrows, TelemetryAssumption DEF MemoryStep, MemoryType
  <1>3. BridgeType'
    BY <1>1, <1>i, Zenon DEF BridgeType
  <1>4. SeenInv'
    <2>1. cfgseen' \in {{}, Parts}
      BY <1>1, <1>i DEF SeenInv
    <2> QED BY <2>1, <1>1, <1>2, <1>i, SeenKeeps
  <1>5. DescInv'
    <2>1. InHand' = InHand
      BY <1>1 DEF InHand
    <2> QED BY <2>1, <1>1, <1>i, DescKeeps
  <1> QED BY <1>3, <1>4, <1>5 DEF BridgeInv

\* Steps of the browsers and the signal change nothing the invariant is about.
LEMMA OthersBridge ==
  ASSUME MemInv, BridgeInv, UNCHANGED memory, UNCHANGED <<fd, clients, acceptor, bridgeVars>>,
         eintr' \in {"none", "accept", "main"}
  PROVE  BridgeInv'
  <1>i. MemoryType /\ BridgeType /\ SeenInv /\ DescInv
    BY DEF MemInv, BridgeInv
  <1>1. UNCHANGED <<fd, clients, acceptor, bridge, last_seen, seen, skipped, cfgseen>>
    BY DEF bridgeVars
  <1>2. write_index' = write_index /\ write_index \in Nat /\ RingCap \in Nat
    BY <1>i, TelemetryAssumption DEF memory, MemoryType
  <1>3. BridgeType'
    BY <1>1, <1>i, Zenon DEF BridgeType
  <1>4. SeenInv'
    <2>1. cfgseen' \in {{}, Parts} /\ write_index <= write_index'
      BY <1>1, <1>2, <1>i DEF SeenInv
    <2> QED BY <2>1, <1>1, <1>2, <1>i, SeenKeeps
  <1>5. DescInv'
    <2>1. InHand' = InHand
      BY <1>1 DEF InHand
    <2> QED BY <2>1, <1>1, <1>i, DescKeeps
  <1> QED BY <1>3, <1>4, <1>5 DEF BridgeInv

\* The accept thread takes a client in, drops it or lists it.
LEMMA AcceptBridge == ASSUME MemInv, BridgeInv, AcceptThread PROVE BridgeInv'
  <1>i. MemoryType /\ BridgeType /\ SeenInv /\ DescInv
    BY DEF MemInv, BridgeInv
  <1>0. UNCHANGED <<memory, bridge, last_seen, seen, skipped, cfgseen>>
    BY DEF AcceptThread, Accept, HandshakeOk, HandshakeFails, Push, AcceptEnds, acceptOnly, bridgeVars
  <1>1. write_index' = write_index /\ write_index \in Nat /\ RingCap \in Nat
    BY <1>0, <1>i, TelemetryAssumption DEF memory, MemoryType
  <1>2. SeenInv'
    <2>1. cfgseen' \in {{}, Parts} /\ write_index <= write_index'
      BY <1>0, <1>1, <1>i DEF SeenInv
    <2> QED BY <2>1, <1>0, <1>1, <1>i, SeenKeeps
  <1>3. /\ {q \in Peers : fd[q] = "open"} = InHand \cup Listed /\ InHand \cap Listed = {}
        /\ IsInjective(clients)
    BY <1>i DEF DescInv
  <1>4. acceptor \in [pc : {"poll", "handshake", "push", "done"}, p : Peers \cup {NoPeer}]
        /\ fd \in [Peers -> {"none", "open", "closed"}] /\ clients \in Seq(Peers)
        /\ eintr \in {"none", "accept", "main"}
    BY <1>i DEF BridgeType
  <1>5. ASSUME /\ acceptor' \in [pc : {"poll", "handshake", "push", "done"}, p : Peers \cup {NoPeer}]
               /\ fd' \in [Peers -> {"none", "open", "closed"}] /\ clients' \in Seq(Peers)
               /\ eintr' \in {"none", "accept", "main"}
        PROVE  BridgeType'
    BY <1>0, <1>5, <1>i, Zenon DEF BridgeType
  <1>6. ASSUME fd' \in [Peers -> {"none", "open", "closed"}], clients' = clients,
               {q \in Peers : fd'[q] = "open"} = InHand' \cup Listed, InHand' \cap Listed = {}
        PROVE  DescInv'
    <2>1. Listed' = Listed
      BY <1>0, <1>6 DEF Listed, BridgeAt
    <2> QED BY <2>1, <1>0, <1>6, <1>i, Zenon DEF DescInv, BridgeAt
  <1>7. ASSUME NEW p \in Peers, Accept(p) PROVE BridgeInv'
    <2>1. /\ fd[p] = "none" /\ acceptor.pc = "poll" /\ fd' = [fd EXCEPT ![p] = "open"]
          /\ acceptor' = [pc |-> "handshake", p |-> p] /\ UNCHANGED <<clients, eintr>>
      BY <1>7 DEF Accept
    <2>2. InHand = {} /\ InHand' = {p}
      BY <2>1 DEF InHand
    <2>3. BridgeType'
      BY <2>1, <1>4, <1>5
    <2>4. DescInv'
      <3>1. {q \in Peers : fd'[q] = "open"} = {q \in Peers : fd[q] = "open"} \cup {p}
            /\ p \notin {q \in Peers : fd[q] = "open"}
        BY <2>1, <1>4
      <3>2. fd' \in [Peers -> {"none", "open", "closed"}]
        BY <2>1, <1>4
      <3> QED BY <3>1, <3>2, <2>1, <2>2, <1>3, <1>6
    <2> QED BY <2>3, <2>4, <1>2 DEF BridgeInv
  <1>8. CASE HandshakeOk
    <2>1. /\ acceptor.pc = "handshake" /\ acceptor' = [acceptor EXCEPT !.pc = "push"]
          /\ UNCHANGED <<fd, clients, eintr>>
      BY <1>8 DEF HandshakeOk
    <2>2. acceptor'.pc = "push" /\ acceptor'.p = acceptor.p
          /\ acceptor' \in [pc : {"poll", "handshake", "push", "done"}, p : Peers \cup {NoPeer}]
      BY <2>1, <1>4
    <2>3. InHand' = InHand
      BY <2>1, <2>2 DEF InHand
    <2>4. BridgeType' /\ DescInv'
      BY <2>1, <2>2, <2>3, <1>3, <1>4, <1>5, <1>6
    <2> QED BY <2>4, <1>2 DEF BridgeInv
  <1>9. CASE HandshakeFails
    <2>1. /\ acceptor.pc = "handshake" /\ acceptor' = [pc |-> "poll", p |-> NoPeer]
          /\ fd' = [fd EXCEPT ![acceptor.p] = "closed"] /\ clients' = clients
          /\ eintr' \in {"none", "accept", "main"}
      BY <1>9, <1>4 DEF HandshakeFails, acceptOnly
    <2>2. InHand = {acceptor.p} /\ InHand' = {} /\ acceptor.p \in Peers
      BY <2>1, <1>3 DEF InHand
    <2>3. fd' \in [Peers -> {"none", "open", "closed"}]
      BY <2>1, <1>4, Zenon
    <2>4. BridgeType'
      BY <2>1, <2>3, <1>4, <1>5
    <2>5. {q \in Peers : fd'[q] = "open"} = {q \in Peers : fd[q] = "open"} \ {acceptor.p}
      BY <2>1, <2>2, <1>4
    <2>6. DescInv'
      BY <2>1, <2>2, <2>3, <2>5, <1>3, <1>6
    <2> QED BY <2>4, <2>6, <1>2 DEF BridgeInv
  <1>10. CASE Push
    <2>1. /\ acceptor.pc = "push" /\ bridge.pc # "send" /\ clients' = Append(clients, acceptor.p)
          /\ acceptor' = [pc |-> "poll", p |-> NoPeer] /\ UNCHANGED <<fd, eintr>>
      BY <1>10 DEF Push
    <2>2. InHand = {acceptor.p} /\ InHand' = {} /\ acceptor.p \in Peers
      BY <2>1, <1>3 DEF InHand
    <2>3. Listed = Range(clients) /\ Listed' = Range(clients')
      BY <2>1, <1>0 DEF Listed, BridgeAt
    <2>4. acceptor.p \notin Range(clients)
      BY <2>2, <2>3, <1>3
    <2>5. /\ clients' \in Seq(Peers) /\ Range(clients') = Range(clients) \cup {acceptor.p}
          /\ IsInjective(clients')
      BY <2>1, <2>2, <2>4, <1>3, <1>4, RangeAppend
    <2>6. BridgeType'
      BY <2>1, <2>5, <1>4, <1>5
    <2>7. {q \in Peers : fd'[q] = "open"} = InHand' \cup Listed' /\ InHand' \cap Listed' = {}
      BY <2>1, <2>2, <2>3, <2>5, <1>3
    <2>8. DescInv'
      BY <2>1, <2>5, <2>7, <1>0, <1>i, Zenon DEF DescInv, BridgeAt
    <2> QED BY <2>6, <2>8, <1>2 DEF BridgeInv
  <1>11. CASE AcceptEnds
    <2>1. /\ acceptor.pc = "poll" /\ acceptor' = [acceptor EXCEPT !.pc = "done"]
          /\ UNCHANGED <<fd, clients, eintr>>
      BY <1>11 DEF AcceptEnds
    <2>2. acceptor'.pc = "done"
          /\ acceptor' \in [pc : {"poll", "handshake", "push", "done"}, p : Peers \cup {NoPeer}]
      BY <2>1, <1>4
    <2>3. InHand' = InHand
      BY <2>1, <2>2 DEF InHand
    <2>4. BridgeType' /\ DescInv'
      BY <2>1, <2>2, <2>3, <1>3, <1>4, <1>5, <1>6
    <2> QED BY <2>4, <1>2 DEF BridgeInv
  <1> QED BY <1>7, <1>8, <1>9, <1>10, <1>11 DEF AcceptThread

\* What all steps of the main thread share.
LEMMA MainFrame ==
  ASSUME MemInv, UNCHANGED bridgeOnly
  PROVE  /\ write_index' = write_index /\ write_index \in Nat /\ RingCap \in Nat \ {0}
         /\ config \in [parts : SUBSET Parts, ready : BOOLEAN] /\ (config.ready => config.parts = Parts)
  BY TelemetryAssumption DEF MemInv, MemoryType, StartInv, bridgeOnly, memory

\* Steps that neither read the ring nor touch the lists.
LEMMA PlainMain ==
  ASSUME MemInv, BridgeInv, UNCHANGED <<bridgeOnly, fd, clients, acceptor, eintr, last_seen, seen, skipped>>,
         NEW pc \in {"check", "config", "index", "stop", "join"},
         bridge.pc \notin {"slots", "send"}, bridge' = [bridge EXCEPT !.pc = pc], cfgseen' \in {{}, Parts}
  PROVE  BridgeInv'
  <1>i. BridgeType /\ SeenInv /\ DescInv
    BY DEF BridgeInv
  <1>0. UNCHANGED bridgeOnly
    OBVIOUS
  <1>1. write_index' = write_index /\ write_index \in Nat /\ RingCap \in Nat
    BY <1>0, MainFrame
  <1>2. /\ bridge' \in BridgeStates /\ bridge'.pc = pc /\ bridge'.pos = bridge.pos /\ bridge'.current = bridge.current
        /\ bridge'.todo = bridge.todo /\ bridge'.alive = bridge.alive
    BY <1>i DEF BridgeType, BridgeStates
  <1>3. BridgeType'
    BY <1>2, <1>i, Zenon DEF BridgeType
  <1>4. SeenInv'
    <2>1. ((bridge.pc = "slots") <=> (bridge'.pc = "slots")) /\ write_index <= write_index'
      BY <1>1, <1>2
    <2> QED BY <2>1, <1>1, <1>2, <1>i, SeenKeeps
  <1>5. DescInv'
    <2>1. InHand' = InHand
      BY DEF InHand
    <2>2. (bridge.pc = "send") <=> (bridge'.pc = "send")
      BY <1>2
    <2> QED BY <2>1, <2>2, <1>2, <1>i, DescKeeps
  <1> QED BY <1>3, <1>4, <1>5 DEF BridgeInv

\* write_index.load: what is further back than a whole ring is given up.
LEMMA LoadIndexInv == ASSUME MemInv, BridgeInv, LoadIndex PROVE BridgeInv'
  <1>i. BridgeType /\ SeenInv /\ DescInv
    BY DEF BridgeInv
  <1> DEFINE from == IF write_index - last_seen > RingCap THEN write_index - RingCap ELSE last_seen
  <1>0. /\ bridge.pc = "index" /\ UNCHANGED <<bridgeOnly, fd, clients, acceptor, eintr, seen, cfgseen>>
        /\ bridge' = [bridge EXCEPT !.pc = "slots", !.current = write_index, !.pos = from]
        /\ skipped' = skipped \cup (last_seen .. from - 1)
        /\ last_seen' = from
    BY DEF LoadIndex, BridgeAt
  <1>1. write_index' = write_index /\ write_index \in Nat /\ RingCap \in Nat \ {0}
    BY <1>0, MainFrame
  <1>2. last_seen \in Nat /\ last_seen <= write_index /\ skipped \in SUBSET Nat
    BY <1>i DEF BridgeType, SeenInv
  <1>3. from \in Nat /\ last_seen <= from /\ from <= write_index
        /\ (from # last_seen => from = write_index - RingCap)
    BY <1>1, <1>2
  <1> HIDE DEF from
  <1>4. /\ bridge' \in BridgeStates /\ bridge'.pc = "slots" /\ bridge'.pos = from /\ bridge'.current = write_index
        /\ bridge'.todo = bridge.todo /\ bridge'.alive = bridge.alive
    BY <1>0, <1>1, <1>3, <1>i, Zenon DEF BridgeType, BridgeStates
  <1>5. BridgeType'
    <2>1. skipped' \in SUBSET Nat
      BY <1>0, <1>2, <1>3
    <2> QED BY <2>1, <1>0, <1>3, <1>4, <1>i, Zenon DEF BridgeType
  <1>6. SeenInv'
    <2>1. Upto = last_seen /\ Upto' = from
      BY <1>0, <1>4 DEF Upto, BridgeAt
    <2>2. Range(seen) \cup skipped = 0 .. last_seen - 1 /\ Range(seen) \cap skipped = {}
          /\ \A i \in skipped : i + RingCap < write_index
      BY <2>1, <1>i DEF SeenInv
    <2>3. Range(seen') \cup skipped' = 0 .. from - 1
      <3>1. 0 .. from - 1 = (0 .. last_seen - 1) \cup (last_seen .. from - 1)
        BY <1>2, <1>3
      <3> QED BY <3>1, <2>2, <1>0
    <2>4. Range(seen') \cap skipped' = {}
      <3>1. (0 .. last_seen - 1) \cap (last_seen .. from - 1) = {}
        BY <1>2, <1>3
      <3> QED BY <3>1, <2>2, <1>0
    <2>5. \A i \in skipped' : i + RingCap < write_index'
      <3>1. \A i \in last_seen .. from - 1 : i + RingCap < write_index
        BY <1>1, <1>2, <1>3
      <3> QED BY <3>1, <2>2, <1>0, <1>1
    <2>6. last_seen' <= write_index' /\ bridge'.pos <= bridge'.current /\ bridge'.current <= write_index'
      BY <1>0, <1>1, <1>3, <1>4
    <2> QED BY <2>1, <2>3, <2>4, <2>5, <2>6, <1>0, <1>i, Zenon DEF SeenInv
  <1>7. DescInv'
    <2>1. InHand' = InHand
      BY <1>0 DEF InHand
    <2>2. ((bridge.pc = "send") <=> (bridge'.pc = "send")) /\ UNCHANGED <<fd, clients>>
      BY <1>0, <1>4
    <2> QED BY <2>1, <2>2, <1>4, <1>i, DescKeeps
  <1> QED BY <1>5, <1>6, <1>7 DEF BridgeInv

\* An event is read.
LEMMA ReadSlotInv == ASSUME MemInv, BridgeInv, ReadSlot PROVE BridgeInv'
  <1>i. BridgeType /\ SeenInv /\ DescInv
    BY DEF BridgeInv
  <1>0. /\ bridge.pc = "slots" /\ bridge.pos # bridge.current
        /\ UNCHANGED <<bridgeOnly, fd, clients, acceptor, eintr, last_seen, skipped, cfgseen>>
        /\ seen' = Append(seen, bridge.pos)
        /\ bridge' = [bridge EXCEPT !.pos = @ + 1]
    BY DEF ReadSlot, BridgeAt
  <1>1. write_index' = write_index /\ write_index \in Nat
    BY <1>0, MainFrame
  <1>2. /\ bridge.pos \in Nat /\ bridge.current \in Nat /\ seen \in Seq(Nat) /\ bridge.pos < bridge.current
        /\ bridge.current <= write_index
    BY <1>0, <1>1, <1>i DEF BridgeType, BridgeStates, SeenInv
  <1>3. /\ bridge' \in BridgeStates /\ bridge'.pc = "slots" /\ bridge'.pos = bridge.pos + 1
        /\ bridge'.current = bridge.current
        /\ bridge'.todo = bridge.todo /\ bridge'.alive = bridge.alive
    <2>1. bridge.pos + 1 \in Nat
      BY <1>2
    <2> QED BY <2>1, <1>0, <1>i, Zenon DEF BridgeType, BridgeStates
  <1>4. seen' \in Seq(Nat) /\ Range(seen') = Range(seen) \cup {bridge.pos}
    BY <1>0, <1>2, RangeAppend
  <1>5. BridgeType'
    BY <1>0, <1>3, <1>4, <1>i, Zenon DEF BridgeType
  <1>6. SeenInv'
    <2>1. Upto = bridge.pos /\ Upto' = bridge.pos + 1
      BY <1>0, <1>3 DEF Upto, BridgeAt
    <2>2. Range(seen) \cup skipped = 0 .. bridge.pos - 1 /\ Range(seen) \cap skipped = {}
          /\ \A i \in skipped : i + RingCap < write_index
      BY <2>1, <1>i DEF SeenInv
    <2>3. Range(seen') \cup skipped' = 0 .. Upto' - 1
      <3>1. 0 .. (bridge.pos + 1) - 1 = (0 .. bridge.pos - 1) \cup {bridge.pos}
        BY <1>2
      <3> QED BY <3>1, <2>1, <2>2, <1>0, <1>4
    <2>4. Range(seen') \cap skipped' = {}
      <3>1. bridge.pos \notin 0 .. bridge.pos - 1
        BY <1>2
      <3> QED BY <3>1, <2>2, <1>0, <1>4
    <2>5. \A i, j \in DOMAIN seen' : i < j => seen'[i] < seen'[j]
      <3>1. /\ Len(seen) \in Nat /\ DOMAIN seen = 1 .. Len(seen) /\ DOMAIN seen' = 1 .. Len(seen) + 1
            /\ seen'[Len(seen) + 1] = bridge.pos /\ \A i \in 1 .. Len(seen) : seen'[i] = seen[i]
        BY <1>0, <1>2
      <3>2. \A i \in 1 .. Len(seen) : seen[i] < bridge.pos
        <4>1. \A i \in 1 .. Len(seen) : seen[i] \in Range(seen)
          BY <3>1 DEF Range
        <4>2. \A x \in Range(seen) : x \in 0 .. bridge.pos - 1
          BY <2>2
        <4> QED BY <4>1, <4>2, <1>2
      <3>3. \A i, j \in DOMAIN seen : i < j => seen[i] < seen[j]
        BY <1>i DEF SeenInv
      <3>4. ASSUME NEW i \in 1 .. Len(seen) + 1, NEW j \in 1 .. Len(seen) + 1, i < j
            PROVE  seen'[i] < seen'[j]
        <4>1. i \in 1 .. Len(seen)
          BY <3>1, <3>4
        <4>2. CASE j = Len(seen) + 1
          BY <4>1, <4>2, <3>1, <3>2
        <4>3. CASE j # Len(seen) + 1
          <5>1. j \in 1 .. Len(seen)
            BY <4>3, <3>1
          <5> QED BY <5>1, <4>1, <3>1, <3>3, <3>4
        <4> QED BY <4>2, <4>3
      <3> QED BY <3>1, <3>4
    <2>6. last_seen' <= write_index' /\ bridge'.pos <= bridge'.current /\ bridge'.current <= write_index'
      BY <1>0, <1>1, <1>2, <1>3, <1>i DEF SeenInv
    <2>7. \A i \in skipped' : i + RingCap < write_index'
      BY <2>2, <1>0, <1>1
    <2> QED BY <2>3, <2>4, <2>5, <2>6, <2>7, <1>0, <1>i, Zenon DEF SeenInv
  <1>7. DescInv'
    <2>1. InHand' = InHand
      BY <1>0 DEF InHand
    <2>2. ((bridge.pc = "send") <=> (bridge'.pc = "send")) /\ UNCHANGED <<fd, clients>>
      BY <1>0, <1>3
    <2> QED BY <2>1, <2>2, <1>3, <1>i, DescKeeps
  <1> QED BY <1>5, <1>6, <1>7 DEF BridgeInv

\* All events up to the index loaded before are read.
LEMMA SlotsReadInv == ASSUME MemInv, BridgeInv, SlotsRead PROVE BridgeInv'
  <1>i. BridgeType /\ SeenInv /\ DescInv
    BY DEF BridgeInv
  <1>0. /\ bridge.pc = "slots" /\ bridge.pos = bridge.current
        /\ UNCHANGED <<bridgeOnly, fd, clients, acceptor, eintr, seen, skipped, cfgseen>>
        /\ last_seen' = bridge.current
        /\ bridge' = [bridge EXCEPT !.pc = "lock"]
    BY DEF SlotsRead, BridgeAt, BridgeGoto
  <1>1. write_index' = write_index /\ write_index \in Nat
    BY <1>0, MainFrame
  <1>2. bridge.current \in Nat /\ bridge.current <= write_index
    BY <1>i DEF BridgeType, BridgeStates, SeenInv
  <1>3. /\ bridge' \in BridgeStates /\ bridge'.pc = "lock" /\ bridge'.pos = bridge.pos
        /\ bridge'.current = bridge.current
        /\ bridge'.todo = bridge.todo /\ bridge'.alive = bridge.alive
    BY <1>0, <1>i, Zenon DEF BridgeType, BridgeStates
  <1>5. BridgeType'
    BY <1>0, <1>2, <1>3, <1>i, Zenon DEF BridgeType
  <1>6. SeenInv'
    <2>1. Upto' = Upto
      BY <1>0, <1>3 DEF Upto, BridgeAt
    <2>2. last_seen' <= write_index' /\ bridge'.pos <= bridge'.current /\ bridge'.current <= write_index'
      BY <1>0, <1>1, <1>2, <1>3
    <2> QED BY <2>1, <2>2, <1>0, <1>1, <1>i DEF SeenInv
  <1>7. DescInv'
    <2>1. InHand' = InHand
      BY <1>0 DEF InHand
    <2>2. ((bridge.pc = "send") <=> (bridge'.pc = "send")) /\ UNCHANGED <<fd, clients>>
      BY <1>0, <1>3
    <2> QED BY <2>1, <2>2, <1>3, <1>i, DescKeeps
  <1> QED BY <1>5, <1>6, <1>7 DEF BridgeInv

\* The steps of a broadcast, and the end: the ring is left alone.
LEMMA SeenDuringSend ==
  ASSUME MemInv, BridgeInv, UNCHANGED <<bridgeOnly, last_seen, seen, skipped, cfgseen>>,
         bridge.pc # "slots", bridge'.pc # "slots", bridge'.pos = bridge.pos, bridge'.current = bridge.current
  PROVE  SeenInv'
  <1>i. BridgeType /\ SeenInv /\ UNCHANGED bridgeOnly
    BY DEF BridgeInv
  <1>1. write_index' = write_index /\ write_index \in Nat /\ RingCap \in Nat
    BY <1>i, MainFrame
  <1>2. cfgseen' \in {{}, Parts} /\ write_index <= write_index'
    BY <1>1, <1>i DEF SeenInv
  <1> QED BY <1>1, <1>2, <1>i, SeenKeeps

\* The broadcast takes the list of clients,
LEMMA LockInv == ASSUME MemInv, BridgeInv, Lock PROVE BridgeInv'
  <1>i. BridgeType /\ SeenInv /\ DescInv
    BY DEF BridgeInv
  <1>0. /\ bridge.pc = "lock" /\ bridge' = [bridge EXCEPT !.pc = "send", !.todo = clients, !.alive = << >>]
        /\ UNCHANGED <<bridgeOnly, fd, clients, acceptor, eintr, last_seen, seen, skipped, cfgseen>>
    BY DEF Lock, BridgeAt
  <1>1. clients \in Seq(Peers) /\ bridge \in BridgeStates /\ << >> \in Seq(Peers)
    BY <1>i DEF BridgeType
  <1>2. /\ bridge' \in BridgeStates /\ bridge'.pc = "send" /\ bridge'.todo = clients /\ bridge'.alive = << >>
        /\ bridge'.pos = bridge.pos /\ bridge'.current = bridge.current
    BY <1>0, <1>1, Zenon DEF BridgeStates
  <1>3. BridgeType'
    BY <1>0, <1>2, <1>i, Zenon DEF BridgeType
  <1>4. SeenInv'
    BY <1>0, <1>2, SeenDuringSend
  <1>5. Listed = Range(clients) /\ Listed' = Range(clients) /\ InHand' = InHand
    BY <1>0, <1>2, RangeEmpty DEF Listed, InHand, BridgeAt
  <1>6. DescInv'
    BY <1>0, <1>2, <1>5, <1>i, RangeEmpty DEF DescInv
  <1> QED BY <1>3, <1>4, <1>6 DEF BridgeInv

\* decides about the first of them,
LEMMA SendInv == ASSUME MemInv, BridgeInv, SendOk \/ SendFails PROVE BridgeInv'
  <1>i. BridgeType /\ SeenInv /\ DescInv
    BY DEF BridgeInv
  <1> DEFINE todo == bridge.todo
             alive == bridge.alive
             h == Head(bridge.todo)
  <1>0. /\ bridge.pc = "send" /\ todo # << >>
        /\ UNCHANGED <<bridgeOnly, clients, acceptor, last_seen, seen, skipped, cfgseen>>
    BY DEF SendOk, SendFails, BridgeAt
  <1>1. todo \in Seq(Peers) /\ alive \in Seq(Peers) /\ bridge \in BridgeStates
        /\ fd \in [Peers -> {"none", "open", "closed"}] /\ eintr \in {"none", "accept", "main"}
    BY <1>i DEF BridgeType, BridgeStates
  <1>2. IsInjective(todo) /\ IsInjective(alive) /\ Range(todo) \cap Range(alive) = {}
    BY <1>0, <1>i DEF DescInv, BridgeAt
  <1>3. /\ Tail(todo) \in Seq(Peers) /\ h \in Peers /\ Range(todo) = {h} \cup Range(Tail(todo))
        /\ IsInjective(Tail(todo)) /\ h \notin Range(Tail(todo))
    BY <1>0, <1>1, <1>2, RangeTail
  <1>4. /\ Append(alive, h) \in Seq(Peers) /\ Range(Append(alive, h)) = Range(alive) \cup {h}
        /\ IsInjective(Append(alive, h))
    BY <1>1, <1>2, <1>3, RangeAppend
  <1>5. Listed = Range(todo) \cup Range(alive)
    BY <1>0 DEF Listed, BridgeAt
  <1>6. {q \in Peers : fd[q] = "open"} = InHand \cup Listed /\ InHand \cap Listed = {} /\ IsInjective(clients)
    BY <1>i DEF DescInv
  <1>7. InHand' = InHand
    BY <1>0 DEF InHand
  <1>8. CASE SendOk
    <2>1. bridge' = [bridge EXCEPT !.todo = Tail(todo), !.alive = Append(alive, h)] /\ UNCHANGED <<fd, eintr>>
      BY <1>8, <1>1 DEF SendOk, BridgeStates
    <2>2. /\ bridge' \in BridgeStates /\ bridge'.pc = "send" /\ bridge'.todo = Tail(todo)
          /\ bridge'.alive = Append(alive, h)
          /\ bridge'.pos = bridge.pos /\ bridge'.current = bridge.current
      BY <2>1, <1>0, <1>1, <1>3, <1>4, Zenon DEF BridgeStates
    <2> HIDE DEF todo, alive, h
    <2>3. BridgeType'
      BY <2>1, <2>2, <1>0, <1>i, Zenon DEF BridgeType
    <2>4. SeenInv'
      <3>1. bridge.pc # "slots" /\ bridge'.pc # "slots"
        BY <2>2, <1>0
      <3> QED BY <3>1, <2>2, <1>0, SeenDuringSend
    <2>5. Listed' = Range(Tail(todo)) \cup Range(Append(alive, h))
      BY <2>2 DEF Listed, BridgeAt
    <2>6. Listed' = Listed /\ Range(Tail(todo)) \cap Range(Append(alive, h)) = {}
      BY <2>5, <1>2, <1>3, <1>4, <1>5
    <2>7. DescInv'
      BY <2>1, <2>2, <2>6, <1>0, <1>3, <1>4, <1>6, <1>7 DEF DescInv
    <2> QED BY <2>3, <2>4, <2>7 DEF BridgeInv
  <1>9. CASE SendFails
    <2>1. /\ bridge' = [bridge EXCEPT !.todo = Tail(todo)] /\ fd' = [fd EXCEPT ![h] = "closed"]
          /\ eintr' \in {"none", "accept", "main"}
      BY <1>9, <1>1 DEF SendFails, BridgeStates
    <2>2. /\ bridge' \in BridgeStates /\ bridge'.pc = "send" /\ bridge'.todo = Tail(todo)
          /\ bridge'.alive = alive
          /\ bridge'.pos = bridge.pos /\ bridge'.current = bridge.current
      BY <2>1, <1>0, <1>1, <1>3, Zenon DEF BridgeStates
    <2> HIDE DEF todo, alive, h
    <2>d. fd' \in [Peers -> {"none", "open", "closed"}]
      BY <2>1, <1>1, Zenon
    <2>3. BridgeType'
      BY <2>1, <2>2, <2>d, <1>0, <1>i, Zenon DEF BridgeType
    <2>4. SeenInv'
      <3>1. bridge.pc # "slots" /\ bridge'.pc # "slots"
        BY <2>2, <1>0
      <3> QED BY <3>1, <2>2, <1>0, SeenDuringSend
    <2>5. Listed' = Range(Tail(todo)) \cup Range(alive)
      BY <2>2 DEF Listed, BridgeAt
    <2>6. Listed' = Listed \ {h} /\ h \in Listed /\ Range(Tail(todo)) \cap Range(alive) = {}
      BY <2>5, <1>2, <1>3, <1>5
    <2>7. {q \in Peers : fd'[q] = "open"} = {q \in Peers : fd[q] = "open"} \ {h}
      BY <2>1, <1>1, <1>3
    <2>8. {q \in Peers : fd'[q] = "open"} = InHand' \cup Listed' /\ InHand' \cap Listed' = {}
      BY <2>6, <2>7, <1>6, <1>7
    <2>9. DescInv'
      BY <2>2, <2>6, <2>8, <1>0, <1>2, <1>3, <1>6 DEF DescInv
    <2> QED BY <2>3, <2>4, <2>9 DEF BridgeInv
  <1> QED BY <1>8, <1>9

\* and leaves those it could send to.
LEMMA EndBroadcastInv == ASSUME MemInv, BridgeInv, EndBroadcast PROVE BridgeInv'
  <1>i. BridgeType /\ SeenInv /\ DescInv
    BY DEF BridgeInv
  <1>0. /\ bridge.pc = "send" /\ bridge.todo = << >> /\ clients' = bridge.alive
        /\ bridge' = [bridge EXCEPT !.pc = "check", !.alive = << >>]
        /\ UNCHANGED <<bridgeOnly, fd, acceptor, eintr, last_seen, seen, skipped, cfgseen>>
    BY DEF EndBroadcast, BridgeAt
  <1>1. bridge.alive \in Seq(Peers) /\ bridge \in BridgeStates /\ << >> \in Seq(Peers)
    BY <1>i DEF BridgeType, BridgeStates
  <1>2. /\ bridge' \in BridgeStates /\ bridge'.pc = "check" /\ bridge'.todo = << >> /\ bridge'.alive = << >>
        /\ bridge'.pos = bridge.pos /\ bridge'.current = bridge.current
    BY <1>0, <1>1, Zenon DEF BridgeStates
  <1>3. BridgeType'
    BY <1>0, <1>1, <1>2, <1>i, Zenon DEF BridgeType
  <1>4. SeenInv'
    <2>1. bridge.pc # "slots" /\ bridge'.pc # "slots"
      BY <1>0, <1>2
    <2> QED BY <2>1, <1>0, <1>2, SeenDuringSend
  <1>5. Listed = Range(bridge.alive) /\ Listed' = Range(bridge.alive) /\ InHand' = InHand
    BY <1>0, <1>2, RangeEmpty DEF Listed, InHand, BridgeAt
  <1>6. DescInv'
    BY <1>0, <1>2, <1>5, <1>i, RangeEmpty DEF DescInv, BridgeAt
  <1> QED BY <1>3, <1>4, <1>6 DEF BridgeInv

\* stop() closes what is left.
LEMMA JoinInv == ASSUME MemInv, BridgeInv, Join PROVE BridgeInv'
  <1>i. BridgeType /\ SeenInv /\ DescInv
    BY DEF BridgeInv
  <1>0. /\ bridge.pc = "join" /\ acceptor.pc = "done" /\ clients' = << >>
        /\ bridge' = [bridge EXCEPT !.pc = "done"]
        /\ fd' = [p \in Peers |-> IF p \in Range(clients) THEN "closed" ELSE fd[p]]
        /\ UNCHANGED <<bridgeOnly, acceptor, eintr, last_seen, seen, skipped, cfgseen>>
    BY DEF Join, BridgeAt, BridgeGoto
  <1>1. bridge \in BridgeStates /\ << >> \in Seq(Peers) /\ fd \in [Peers -> {"none", "open", "closed"}]
    BY <1>i DEF BridgeType
  <1>2. /\ bridge' \in BridgeStates /\ bridge'.pc = "done" /\ bridge'.todo = bridge.todo /\ bridge'.alive = bridge.alive
        /\ bridge'.pos = bridge.pos /\ bridge'.current = bridge.current
    BY <1>0, <1>1 DEF BridgeStates
  <1>3. fd' \in [Peers -> {"none", "open", "closed"}]
    BY <1>0, <1>1
  <1>4. BridgeType'
    BY <1>0, <1>1, <1>2, <1>3, <1>i, Zenon DEF BridgeType
  <1>5. SeenInv'
    <2>1. bridge.pc # "slots" /\ bridge'.pc # "slots"
      BY <1>0, <1>2
    <2> QED BY <2>1, <1>0, <1>2, SeenDuringSend
  <1>6. Listed = Range(clients) /\ Listed' = {} /\ InHand = {} /\ InHand' = {}
    BY <1>0, <1>2, RangeEmpty DEF Listed, InHand, BridgeAt
  <1>7. {p \in Peers : fd[p] = "open"} = Range(clients)
    BY <1>6, <1>i DEF DescInv
  <1>8. {p \in Peers : fd'[p] = "open"} = {}
    BY <1>0, <1>7
  <1>9. DescInv'
    BY <1>0, <1>2, <1>6, <1>8, <1>i, RangeEmpty DEF DescInv, BridgeAt
  <1> QED BY <1>4, <1>5, <1>9 DEF BridgeInv

\* Every step of the bridge's main thread keeps its invariant.
LEMMA MainBridge == ASSUME MemInv, BridgeInv, MainThread PROVE BridgeInv'
  <1>0. cfgseen \in {{}, Parts}
    BY DEF BridgeInv, SeenInv
  <1>1. CASE Check
    <2>1. /\ bridge.pc = "check"
          /\ UNCHANGED <<bridgeOnly, fd, clients, acceptor, eintr, last_seen, seen, skipped, cfgseen>>
      BY <1>1 DEF Check, BridgeAt
    <2>2. \E pc \in {"check", "config", "stop"} : bridge' = [bridge EXCEPT !.pc = pc]
      BY <1>1 DEF Check, BridgeGoto
    <2> QED BY <2>1, <2>2, <1>0, PlainMain
  <1>2. CASE ReadConfig
    <2>1. /\ bridge.pc = "config" /\ bridge' = [bridge EXCEPT !.pc = "index"]
          /\ UNCHANGED <<bridgeOnly, fd, clients, acceptor, eintr, last_seen, seen, skipped>>
          /\ cfgseen' = IF config.ready THEN config.parts ELSE cfgseen
      BY <1>2 DEF ReadConfig, BridgeAt, BridgeGoto
    <2>2. cfgseen' \in {{}, Parts}
      BY <2>1, <1>0, MainFrame
    <2> QED BY <2>1, <2>2, PlainMain
  <1>3. CASE Stop
    <2>1. /\ bridge.pc = "stop" /\ bridge' = [bridge EXCEPT !.pc = "join"]
          /\ UNCHANGED <<bridgeOnly, fd, clients, acceptor, eintr, last_seen, seen, skipped, cfgseen>>
      BY <1>3 DEF Stop, BridgeAt, BridgeGoto
    <2> QED BY <2>1, <1>0, PlainMain
  <1> QED BY <1>1, <1>2, <1>3, LoadIndexInv, ReadSlotInv, SlotsReadInv, LockInv, SendInv, EndBroadcastInv, JoinInv
          DEF MainThread



----------------------------------------------------------------------------
(* The page.                                                               *)

\* The parts of the invariant.
LEMMA HubParts ==
  ASSUME hub' \in Hubs, sock' \in [Sockets -> SocketStates], hub'.url = "never" => hub'.source = "never",
         hub'.demo <=> hub'.source = "demo", hub'.demo => hub'.config = "demo",
         \A s \in Sockets : sock'[s].state = "open" => s = hub'.ws /\ hub'.source = "live",
         \A s \in Sockets : sock'[s].onclose => s = hub'.ws /\ ~hub'.retry,
         \A s \in Sockets : sock'[s].state = "connecting" => s = hub'.ws
  PROVE  HubInv'
  BY Zenon DEF HubInv, HubType, SourceHonest

\* The page as it is after an event: what the simulated feed's start leaves.
LEMMA DemoStarts ==
  ASSUME NEW h \in Hubs, h.demo => h.config = "demo"
  PROVE  /\ DemoStart(h) \in Hubs /\ DemoStart(h).demo = TRUE /\ DemoStart(h).config = "demo"
         /\ DemoStart(h).source = h.source /\ DemoStart(h).ws = h.ws /\ DemoStart(h).retry = h.retry
         /\ DemoStart(h).url = h.url
  BY Zenon DEF DemoStart, Hubs

\* connect: the socket of before is told to close and nobody listens to it any more,
\* so the new one is the only one that may open or come back.
LEMMA ConnectInv ==
  ASSUME HubInv, NEW h \in Hubs, h.demo = hub.demo, h.source = hub.source, h.config = hub.config, h.ws = hub.ws,
         NEW url \in Urls, Connect(h, url)
  PROVE  HubInv'
  <1>i. HubType /\ SourceHonest /\ \A s \in Sockets : sock[s].state = "connecting" => s = hub.ws
    BY DEF HubInv
  <1> DEFINE old == IF h.ws = NoSocket THEN sock ELSE Quiet(h.ws)
             now == [h EXCEPT !.url = url, !.retry = FALSE]
  <1>1. /\ now \in Hubs /\ now.demo = hub.demo /\ now.source = hub.source /\ now.config = hub.config
        /\ now.ws = hub.ws /\ now.retry = FALSE /\ now.url = url
    BY Zenon DEF Hubs
  <1>2. /\ old \in [Sockets -> SocketStates]
        /\ \A s \in Sockets : old[s].state \notin {"connecting", "open"} /\ old[s].onclose = FALSE
    <2>1. sock \in [Sockets -> SocketStates] /\ NoSocket \notin Sockets
      BY <1>i DEF HubType, Sockets, NoSocket
    <2>2. \A s \in Sockets : s # hub.ws => sock[s].state \notin {"connecting", "open"} /\ sock[s].onclose = FALSE
      BY <2>1, <1>i DEF SourceHonest, SocketStates
    <2>3. CASE h.ws = NoSocket \/ h.ws \notin Sockets
      <3>1. old = sock
        BY <2>1, <2>3 DEF Quiet
      <3> QED BY <3>1, <2>1, <2>2, <2>3
    <2>4. CASE h.ws # NoSocket /\ h.ws \in Sockets
      <3>1. old = [sock EXCEPT ![h.ws].onclose = FALSE, ![h.ws].state = "closing"]
        BY <2>4 DEF Quiet
      <3>2. /\ old \in [Sockets -> SocketStates] /\ old[h.ws].onclose = FALSE /\ old[h.ws].state = "closing"
            /\ \A s \in Sockets : s # h.ws => old[s] = sock[s]
        <4> DEFINE c == [sock[h.ws] EXCEPT !.onclose = FALSE, !.state = "closing"]
        <4>1. old = [sock EXCEPT ![h.ws] = c]
          BY <3>1, <2>1, <2>4, Zenon
        <4>2. c \in SocketStates /\ c.onclose = FALSE /\ c.state = "closing"
          BY <2>1, <2>4, Zenon DEF SocketStates
        <4> HIDE DEF c
        <4> QED BY <4>1, <4>2, <2>1, <2>4, Zenon
      <3> QED BY <3>2, <2>2
    <2> QED BY <2>3, <2>4, Zenon
  <1>3. \/ /\ url = "malformed"
           /\ hub' = DemoStart([now EXCEPT !.source = "demo"])
           /\ sock' = old
        \/ /\ url # "malformed"
           /\ \E s \in Sockets : /\ old[s].state = "free"
                                 /\ sock' = [old EXCEPT ![s] = Connecting(url)]
                                 /\ hub' = [now EXCEPT !.ws = s]
    BY Zenon DEF Connect
  <1> HIDE DEF old, now
  <1>4. CASE hub' = DemoStart([now EXCEPT !.source = "demo"]) /\ sock' = old
    <2> DEFINE g == [now EXCEPT !.source = "demo"]
    <2>1. /\ g \in Hubs /\ g.source = "demo" /\ g.demo = hub.demo /\ g.config = hub.config /\ g.ws = hub.ws
          /\ g.url = url
      BY <1>1 DEF Hubs
    <2> HIDE DEF g
    <2>2. hub' = DemoStart(g)
      BY <1>4 DEF g
    <2>3. /\ hub' \in Hubs /\ hub'.demo = TRUE /\ hub'.config = "demo" /\ hub'.source = "demo"
          /\ hub'.url = url
      BY <2>1, <2>2, <1>i, DemoStarts, Zenon DEF SourceHonest
    <2>4. hub'.url # "never"
      BY <2>3 DEF Urls
    <2>5. /\ \A s \in Sockets : sock'[s].state # "connecting" /\ sock'[s].state # "open" /\ ~sock'[s].onclose
          /\ sock' \in [Sockets -> SocketStates]
      BY <1>2, <1>4, Zenon
    <2> QED BY <2>3, <2>4, <2>5, HubParts, Zenon
  <1>5. ASSUME NEW s \in Sockets, sock' = [old EXCEPT ![s] = Connecting(url)], hub' = [now EXCEPT !.ws = s]
        PROVE  HubInv'
    <2>1. /\ hub' \in Hubs /\ hub'.ws = s /\ hub'.retry = FALSE /\ hub'.demo = hub.demo
          /\ hub'.source = hub.source /\ hub'.config = hub.config /\ hub'.url = url
      BY <1>1, <1>5 DEF Hubs
    <2>2. /\ Connecting(url) \in SocketStates /\ Connecting(url).state = "connecting"
      BY DEF Connecting, SocketStates
    <2>3. sock' \in [Sockets -> SocketStates] /\ sock'[s] = Connecting(url)
          /\ \A u \in Sockets : u # s => sock'[u] = old[u]
      BY <2>2, <1>2, <1>5
    <2>4. hub'.url # "never"
      BY <2>1 DEF Urls
    <2>5. (hub'.demo <=> hub'.source = "demo") /\ (hub'.demo => hub'.config = "demo")
      BY <2>1, <1>i, Zenon DEF SourceHonest
    <2>6. /\ \A u \in Sockets : sock'[u].state # "open"
          /\ \A u \in Sockets : sock'[u].onclose => u = hub'.ws /\ ~hub'.retry
          /\ \A u \in Sockets : sock'[u].state = "connecting" => u = hub'.ws
      BY <2>1, <2>2, <2>3, <1>2, Zenon
    <2> QED BY <2>1, <2>3, <2>4, <2>5, <2>6, HubParts, Zenon
  <1> QED BY <1>3, <1>4, <1>5

\* The browser's events.
LEMMA SocketEventInv ==
  ASSUME HubInv, hub.source # "never", NEW s \in Sockets, OnOpen(s) \/ Ends(s) \/ \E ready \in BOOLEAN : OnMessage(s, ready)
  PROVE  HubInv'
  <1>i. HubType /\ SourceHonest /\ \A u \in Sockets : sock[u].state = "connecting" => u = hub.ws
    BY DEF HubInv
  <1>0. hub \in Hubs /\ sock \in [Sockets -> SocketStates] /\ NoSocket \notin Sockets
    BY <1>i DEF HubType, Sockets, NoSocket
  <1>n. hub.url # "never"
    BY <1>i DEF HubType
  <1>1. CASE OnOpen(s)
    <2>1. /\ sock[s].state = "connecting" /\ sock' = [sock EXCEPT ![s].state = "open"]
          /\ hub' = [hub EXCEPT !.demo = FALSE, !.source = "live"]
      BY <1>1 DEF OnOpen
    <2>2. /\ hub' \in Hubs /\ hub'.demo = FALSE /\ hub'.source = "live" /\ hub'.ws = hub.ws /\ hub'.retry = hub.retry
          /\ hub'.url = hub.url
      BY <2>1, <1>0, Zenon DEF Hubs
    <2>3. /\ sock' \in [Sockets -> SocketStates] /\ sock'[s].state = "open" /\ sock'[s].onclose = sock[s].onclose
          /\ \A u \in Sockets : u # s => sock'[u] = sock[u]
      BY <2>1, <1>0 DEF SocketStates
    <2>4. s = hub.ws /\ hub.url # "never"
      BY <2>1, <1>i, <1>n
    <2>5. /\ \A u \in Sockets : sock'[u].state = "open" => u = hub'.ws /\ hub'.source = "live"
          /\ \A u \in Sockets : sock'[u].state = "connecting" => u = hub'.ws
      BY <2>2, <2>3, <2>4, <1>i, Zenon DEF SourceHonest
    <2>6. \A u \in Sockets : sock'[u].onclose => u = hub'.ws /\ ~hub'.retry
      BY <2>2, <2>3, <1>i, Zenon DEF SourceHonest
    <2> QED BY <2>2, <2>3, <2>4, <2>5, <2>6, HubParts
  <1>2. ASSUME NEW ready \in BOOLEAN, OnMessage(s, ready) PROVE HubInv'
    <2>1. /\ sock[s].state = "open" /\ UNCHANGED sock
          /\ hub' = [hub EXCEPT !.stats = "live", !.config = IF ready THEN "live" ELSE @]
      BY <1>2, Zenon DEF OnMessage
    <2>2. /\ hub' \in Hubs /\ hub'.demo = hub.demo /\ hub'.source = hub.source /\ hub'.ws = hub.ws
          /\ hub'.retry = hub.retry /\ hub'.url = hub.url
      BY <2>1, <1>0, Zenon DEF Hubs
    <2>3. hub.demo = FALSE
      BY <2>1, <1>0, <1>i DEF SourceHonest, Hubs
    <2> QED BY <2>1, <2>2, <2>3, <1>i, <1>n, Zenon DEF HubInv, HubType, SourceHonest
  <1>3. CASE Ends(s)
    <2> DEFINE h == IF hub.ws = s THEN [hub EXCEPT !.ws = NoSocket] ELSE hub
    <2>1. sock' = [sock EXCEPT ![s] = FreeSocket] /\ hub' = IF sock[s].onclose THEN OnClose(h) ELSE h
      BY <1>3 DEF Ends
    <2>2. /\ h \in Hubs /\ h.demo = hub.demo /\ h.source = hub.source /\ h.config = hub.config /\ h.retry = hub.retry
          /\ h.url = hub.url /\ h.ws = IF hub.ws = s THEN NoSocket ELSE hub.ws
      BY <1>0 DEF Hubs
    <2> HIDE DEF h
    <2>3. /\ sock' \in [Sockets -> SocketStates] /\ sock'[s].state = "free" /\ sock'[s].onclose = FALSE
          /\ \A u \in Sockets : u # s => sock'[u] = sock[u]
      BY <2>1, <1>0 DEF SocketStates, FreeSocket, Urls
    <2>4. CASE sock[s].onclose = FALSE
      <3>1. hub' = h
        BY <2>1, <2>4, Zenon
      <3>2. \A u \in Sockets : u # s => (u = hub.ws <=> u = h.ws)
        BY <2>2, <1>0
      <3>3. /\ \A u \in Sockets : sock'[u].state = "open" => u = h.ws /\ h.source = "live"
            /\ \A u \in Sockets : sock'[u].state = "connecting" => u = h.ws
        BY <3>2, <2>2, <2>3, <1>i DEF SourceHonest
      <3>4. \A u \in Sockets : sock'[u].onclose => u = h.ws /\ ~h.retry
        BY <3>2, <2>2, <2>3, <1>i, Zenon DEF SourceHonest
      <3>5. (h.demo <=> h.source = "demo") /\ (h.demo => h.config = "demo") /\ h.url # "never"
        BY <2>2, <1>i, <1>n, Zenon DEF SourceHonest
      <3> QED BY <3>1, <3>3, <3>4, <3>5, <2>2, <2>3, HubParts, Zenon
    <2>5. CASE sock[s].onclose = TRUE
      <3> DEFINE g == [h EXCEPT !.source = "demo"]
      <3>1. /\ g \in Hubs /\ g.source = "demo" /\ g.demo = hub.demo /\ g.config = hub.config /\ g.ws = h.ws
            /\ g.url = hub.url
        BY <2>2 DEF Hubs
      <3> HIDE DEF g
      <3>2. hub' = [DemoStart(g) EXCEPT !.retry = TRUE]
        BY <2>1, <2>5 DEF OnClose, g
      <3>3. DemoStart(g) \in Hubs /\ DemoStart(g).demo = TRUE /\ DemoStart(g).config = "demo"
            /\ DemoStart(g).source = "demo" /\ DemoStart(g).ws = h.ws /\ DemoStart(g).url = hub.url
        BY <3>1, <1>i, DemoStarts, Zenon DEF SourceHonest
      <3>4. /\ hub' \in Hubs /\ hub'.demo = TRUE /\ hub'.config = "demo" /\ hub'.source = "demo" /\ hub'.ws = h.ws
            /\ hub'.retry = TRUE /\ hub'.url = hub.url
        BY <3>2, <3>3, Zenon DEF Hubs
      <3>5. hub.ws = s
        BY <2>5, <1>i DEF SourceHonest
      <3>6. \A u \in Sockets : sock'[u].state \notin {"connecting", "open"} /\ sock'[u].onclose = FALSE
        <4>1. \A u \in Sockets : u # s => sock[u].state \notin {"connecting", "open"} /\ sock[u].onclose = FALSE
          BY <3>5, <1>0, <1>i DEF SourceHonest, SocketStates
        <4> QED BY <4>1, <2>3
      <3>7. \A u \in Sockets : sock'[u].state # "connecting" /\ sock'[u].state # "open" /\ ~sock'[u].onclose
        BY <3>6, Zenon
      <3>8. hub'.url # "never"
        BY <3>4, <1>n
      <3> QED BY <3>4, <3>7, <3>8, <2>3, HubParts, Zenon
    <2>6. sock[s].onclose \in BOOLEAN
      BY <1>0 DEF SocketStates
    <2> QED BY <2>4, <2>5, <2>6, Zenon
  <1> QED BY <1>1, <1>2, <1>3

\* Every step of the page keeps its invariant.
LEMMA HubNextInv == ASSUME HubInv, HubNext PROVE HubInv'
  <1>i. HubType /\ SourceHonest /\ \A s \in Sockets : sock[s].state = "connecting" => s = hub.ws
    BY DEF HubInv
  <1>0. hub \in Hubs /\ hub.source # "never"
    BY <1>i DEF HubType, HubNext
  <1>1. CASE UserConnects
    <2>1. PICK url \in Urls : Connect(hub, url)
      BY <1>1 DEF UserConnects
    <2> QED BY <2>1, <1>0, ConnectInv
  <1>2. CASE RetryFires
    <2> DEFINE h == [hub EXCEPT !.retry = FALSE]
    <2>1. h \in Hubs /\ h.demo = hub.demo /\ h.source = hub.source /\ h.config = hub.config /\ h.ws = hub.ws
      BY <1>0, Zenon DEF Hubs
    <2>2. Connect(h, hub.url)
      BY <1>2 DEF RetryFires
    <2> HIDE DEF h
    <2>3. hub.url \in Urls
      BY <1>0, <1>i DEF Hubs, HubType
    <2> QED BY <2>1, <2>2, <2>3, ConnectInv
  <1>3. CASE Tick
    <2>1. hub' = [hub EXCEPT !.stats = "demo"] /\ UNCHANGED sock
      BY <1>3 DEF Tick
    <2>2. /\ hub' \in Hubs /\ hub'.demo = hub.demo /\ hub'.source = hub.source /\ hub'.ws = hub.ws
          /\ hub'.retry = hub.retry /\ hub'.config = hub.config /\ hub'.url = hub.url
      BY <2>1, <1>0 DEF Hubs
    <2> QED BY <2>1, <2>2, <1>i, Zenon DEF HubInv, HubType, SourceHonest
  <1>4. CASE BridgeTurns
    BY <1>4, <1>i DEF BridgeTurns, HubInv, HubType, SourceHonest
  <1>5. CASE SocketEvents
    BY <1>0, <1>5, SocketEventInv DEF SocketEvents
  <1> QED BY <1>1, <1>2, <1>3, <1>4, <1>5 DEF HubNext, Timers

\* The page is opened, or there is none.
LEMMA HubInitInv == ASSUME NEW opened \in BOOLEAN, HubInit(opened) PROVE HubInv
  <1>1. PICK url \in IF opened THEN Urls ELSE {"never"} :
          LET page == [NoPage EXCEPT !.url = url, !.source = "connecting"]
          IN  /\ hub = CASE url = "never" -> NoPage
                         [] url = "malformed" -> DemoStart([page EXCEPT !.source = "demo"])
                         [] OTHER -> [page EXCEPT !.ws = 1]
              /\ sock = [s \in Sockets |-> IF hub.ws = s THEN Connecting(url) ELSE FreeSocket]
    BY Zenon DEF HubInit
  <1>2. url \in Urls \cup {"never"} /\ NoSocket \notin Sockets
    BY DEF Sockets, NoSocket
  <1> DEFINE page == [NoPage EXCEPT !.url = url, !.source = "connecting"]
  <1>3. /\ page \in Hubs /\ page.url = url /\ page.source = "connecting" /\ page.ws = NoSocket /\ page.retry = FALSE
        /\ page.demo = FALSE
    BY <1>2, Zenon DEF NoPage, Hubs, NoSocket, Urls
  <1>4. sock = [s \in Sockets |-> IF hub.ws = s THEN Connecting(url) ELSE FreeSocket]
    BY <1>1
  <1>5. \/ url = "never" /\ hub = NoPage
        \/ url = "malformed" /\ hub = DemoStart([page EXCEPT !.source = "demo"])
        \/ url \in {"bridge", "nowhere"} /\ hub = [page EXCEPT !.ws = 1]
    BY <1>1, <1>2 DEF Urls
  <1> HIDE DEF page
  <1>6. /\ hub \in Hubs /\ hub.retry = FALSE /\ (hub.url = "never" => hub.source = "never")
        /\ (hub.demo <=> hub.source = "demo") /\ (hub.demo => hub.config = "demo")
    <2>1. CASE url = "never" /\ hub = NoPage
      BY <2>1 DEF NoPage, Hubs, Urls, NoSocket
    <2>2. CASE url = "malformed" /\ hub = DemoStart([page EXCEPT !.source = "demo"])
      BY <2>2, <1>3, Zenon DEF DemoStart, Hubs, Urls
    <2>3. CASE url \in {"bridge", "nowhere"} /\ hub = [page EXCEPT !.ws = 1]
      BY <2>3, <1>3, Zenon DEF Hubs, Urls
    <2> QED BY <1>5, <2>1, <2>2, <2>3, Zenon
  <1>7. \A s \in Sockets : /\ sock[s] \in SocketStates /\ sock[s].state # "open"
                           /\ (s # hub.ws => sock[s].state = "free" /\ sock[s].onclose = FALSE)
    BY <1>2, <1>4 DEF Connecting, FreeSocket, SocketStates, Urls
  <1>8. sock \in [Sockets -> SocketStates]
    BY <1>4, <1>7
  <1>9. \A s \in Sockets : sock[s].state \in {"open", "connecting"} \/ sock[s].onclose => s = hub.ws
    BY <1>7, Zenon
  <1> QED BY <1>6, <1>7, <1>8, <1>9, Zenon DEF HubInv, HubType, SourceHonest
=============================================================================
