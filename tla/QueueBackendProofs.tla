------------------------ MODULE QueueBackendProofs ------------------------
(***************************************************************************)
(* Whichever of the two lock-free queues the process has, it is correct    *)
(* for every capacity, every set of messages and every number of workers:  *)
(* first the broadcast ring, then the single-consumer ring, then the two   *)
(* joined.                                                                 *)
(***************************************************************************)
EXTENDS QueueBackend, TLAPS

(* The broadcast ring.                                                     *)

\* Two sequence numbers less than Cap apart are kept in different slots.
LEMMA SlotsDiffer ==
  ASSUME NEW a \in Nat, NEW b \in Nat, a < b, b < a + Cap
  PROVE  Slot(a) # Slot(b)
  <1>1. a = Cap * (a \div Cap) + (a % Cap) /\ a % Cap \in 0 .. Cap - 1 /\ a \div Cap \in Int
    BY CapAssumption
  <1>2. b = Cap * (b \div Cap) + (b % Cap) /\ b % Cap \in 0 .. Cap - 1 /\ b \div Cap \in Int
    BY CapAssumption
  <1>3. SUFFICES ASSUME a % Cap = b % Cap PROVE FALSE
    BY DEF Slot
  <1> DEFINE d == (b \div Cap) - (a \div Cap)
  <1>4. b - a = Cap * d /\ d \in Int
    BY <1>1, <1>2, <1>3, CapAssumption
  <1> HIDE DEF d
  <1>5. CASE d <= 0
    <2>1. Cap * d <= 0
      BY <1>4, <1>5, CapAssumption
    <2> QED BY <2>1, <1>4
  <1>6. CASE d >= 1
    <2>1. Cap * d >= Cap
      BY <1>4, <1>6, CapAssumption
    <2> QED BY <2>1, <1>4, CapAssumption
  <1> QED BY <1>4, <1>5, <1>6

LEMMA SlotType == ASSUME NEW a \in Nat PROVE Slot(a) \in Slots
  BY CapAssumption DEF Slot, Slots
----------------------------------------------------------------------------
LEMMA InitIInv == Init => IInv
  <1> SUFFICES ASSUME Init PROVE IInv
    OBVIOUS
  <1> USE CapAssumption, MaxPushAssumption DEF Init
  <1>1. TypeOK
    BY DEF TypeOK, Slots, Cells
  <1>2. Views /\ WriterInv /\ ReaderInv /\ InOrder /\ RaceFree
    BY DEF Views, WriterInv, ReaderInv, InOrder, RaceFree
  <1>3. BufInv
    BY DEF BufInv
  <1> QED BY <1>1, <1>2, <1>3 DEF IInv

\* The writer's steps.
LEMMA TryPushIInv == ASSUME IInv, NEW m \in Msgs, TryPush(m) PROVE IInv'
  <1> USE CapAssumption, MaxPushAssumption DEF IInv, TryPush, rvars
  <1>1. TypeOK'
    BY DEF TypeOK, Cells
  <1>2. BufInv'
    BY DEF BufInv, Kept, Slot, TypeOK
  <1>3. (Views /\ WriterInv /\ ReaderInv /\ InOrder /\ RaceFree)'
    BY DEF Views, WriterInv, ReaderInv, InOrder, RaceFree, TypeOK
  <1> QED BY <1>1, <1>2, <1>3

LEMMA LoadCursorIInv == ASSUME IInv, NEW r \in Readers, LoadCursor(r) PROVE IInv'
  <1> USE CapAssumption, MaxPushAssumption DEF IInv, LoadCursor, rvars
  <1>0. PICK v \in wview[r] .. read_seq[r] :
          /\ wview' = [wview EXCEPT ![r] = v]
          /\ w' = [w EXCEPT !.min = IF v < @ THEN v ELSE @, !.todo = @ \ {r}]
    BY Zenon
  <1>1. TypeOK'
    <2>1. v \in Nat
      BY DEF TypeOK
    <2>2. w' \in [pc : {"idle", "scan", "write"}, msg : Cells, min : Nat, todo : SUBSET Readers]
      BY <1>0, <2>1, Zenon DEF TypeOK
    <2> QED BY <1>0, <2>1, <2>2 DEF TypeOK
  <1>2. BufInv'
    BY DEF BufInv, Kept, Slot, TypeOK
  <1>3. Views' /\ WriterInv'
    <2>1. /\ v \in Nat /\ wview[r] <= v /\ v <= read_seq[r]
          /\ wview'[r] = v /\ \A q \in Readers \ {r} : wview'[q] = wview[q]
      BY <1>0 DEF TypeOK
    <2>2. /\ w.pc = "scan" /\ w'.pc = "scan" /\ w'.msg = w.msg /\ w'.todo = w.todo \ {r}
          /\ w'.min = IF v < w.min THEN v ELSE w.min
      BY <1>0 DEF TypeOK
    <2>3. Views'
      BY <2>1 DEF Views
    <2>4. \A q \in Readers \ w'.todo : w'.min <= wview'[q]
      <3> SUFFICES ASSUME NEW q \in Readers \ w'.todo PROVE w'.min <= wview'[q]
        OBVIOUS
      <3>1. w.min \in Nat /\ wview[q] \in Nat
        BY DEF TypeOK
      <3>2. CASE q = r
        BY <2>1, <2>2, <3>1, <3>2
      <3>3. CASE q # r
        <4>1. w.min <= wview[q]
          BY <2>2, <3>3 DEF WriterInv
        <4> QED BY <2>1, <2>2, <3>1, <3>3, <4>1
      <3> QED BY <3>2, <3>3
    <2> QED BY <2>2, <2>3, <2>4 DEF WriterInv
  <1>4. (ReaderInv /\ InOrder /\ RaceFree)'
    BY DEF ReaderInv, InOrder, RaceFree, TypeOK
  <1> QED BY <1>1, <1>2, <1>3, <1>4

LEMMA PushFullIInv == ASSUME IInv, PushFull PROVE IInv'
  <1> USE CapAssumption, MaxPushAssumption DEF IInv, PushFull, rvars
  <1>1. TypeOK'
    BY Zenon DEF TypeOK
  <1>2. BufInv'
    BY DEF BufInv, Kept, Slot, TypeOK
  <1>3. (Views /\ WriterInv /\ ReaderInv /\ InOrder /\ RaceFree)'
    BY DEF Views, WriterInv, ReaderInv, InOrder, RaceFree, TypeOK
  <1> QED BY <1>1, <1>2, <1>3

\* Writing the slot gives up the oldest message kept, and only that one.
LEMMA WriteSlotIInv == ASSUME IInv, WriteSlot PROVE IInv'
  <1> USE CapAssumption, MaxPushAssumption DEF IInv, WriteSlot, rvars
  <1>1. TypeOK'
    BY SlotType, Zenon DEF TypeOK, Cells
  <1>2. BufInv'
    <2> SUFFICES ASSUME NEW n \in 0 .. write_seq - 1, Kept(n)'
                 PROVE  buf'[Slot(n)] = tape[n + 1]
      BY DEF BufInv, Slot, TypeOK
    <2>1. write_seq < n + Cap /\ write_seq \in Nat /\ n \in Nat /\ n < write_seq
      BY DEF Kept, TypeOK
    <2>2. Slot(n) # Slot(write_seq)
      BY <2>1, SlotsDiffer
    <2>3. buf'[Slot(n)] = buf[Slot(n)]
      BY <2>1, <2>2, SlotType DEF TypeOK
    <2> QED BY <2>1, <2>3 DEF BufInv, Kept
  <1>3. (Views /\ WriterInv /\ RaceFree)'
    BY DEF Views, WriterInv, RaceFree, TypeOK
  <1>4. (ReaderInv /\ InOrder)'
    BY DEF ReaderInv, InOrder, TypeOK
  <1> QED BY <1>1, <1>2, <1>3, <1>4

LEMMA PublishIInv == ASSUME IInv, Publish PROVE IInv'
  <1> USE CapAssumption, MaxPushAssumption DEF IInv, Publish, rvars
  <1>0. /\ w.msg \in Msgs
        /\ Len(tape') = write_seq'
        /\ tape'[write_seq + 1] = w.msg
        /\ \A i \in 1 .. write_seq : tape'[i] = tape[i]
    BY DEF WriterInv, TypeOK, BufInv
  <1>1. TypeOK'
    <2>1. buf' \in [Slots -> Cells] /\ tape' \in Seq(Msgs)
      BY <1>0, SlotType DEF TypeOK, Cells
    <2>2. write_seq' \in 0 .. MaxPush
      BY DEF TypeOK, WriterInv
    <2> QED BY <2>1, <2>2, Zenon DEF TypeOK
  <1>2. BufInv'
    <2> SUFFICES ASSUME NEW n \in 0 .. write_seq, Kept(n)'
                 PROVE  buf'[Slot(n)] = tape'[n + 1]
      BY <1>0 DEF BufInv, Slot, TypeOK
    <2>1. CASE n = write_seq
      BY <2>1, <1>0, SlotType DEF TypeOK
    <2>2. CASE n < write_seq
      <3>1. write_seq < n + Cap /\ write_seq \in Nat /\ n \in Nat
        BY <2>2 DEF Kept, TypeOK
      <3>2. Slot(n) # Slot(write_seq)
        BY <2>2, <3>1, SlotsDiffer
      <3>3. buf'[Slot(n)] = buf[Slot(n)]
        BY <3>1, <3>2, SlotType DEF TypeOK
      <3>4. tape'[n + 1] = tape[n + 1] /\ n \in 0 .. write_seq - 1
        BY <1>0, <2>2, <3>1
      <3>5. buf[Slot(n)] = tape[n + 1]
        <4>1. Kept(n)
          BY <3>1 DEF Kept
        <4> QED BY <4>1, <3>4 DEF BufInv
      <3> QED BY <3>3, <3>4, <3>5
    <2>3. n = write_seq \/ n < write_seq
      BY DEF TypeOK
    <2> QED BY <2>1, <2>2, <2>3, Zenon
  <1>3. (Views /\ WriterInv /\ RaceFree)'
    <2>1. w.pc = "write" /\ w'.pc = "idle" /\ write_seq \in Nat
      BY DEF TypeOK
    <2>2. \A r \in Readers : wview[r] \in Nat /\ read_seq[r] \in Nat /\ rview[r] \in Nat
      BY DEF TypeOK
    <2>3. Views'
      BY <2>1, <2>2 DEF Views
    <2>4. \A r \in Readers : write_seq' <= read_seq'[r] + Cap
      BY <2>1, <2>2 DEF WriterInv, Views
    <2>5. WriterInv'
      BY <2>1, <2>4 DEF WriterInv
    <2>6. RaceFree'
      BY <2>1 DEF RaceFree
    <2> QED BY <2>3, <2>5, <2>6
  <1>4. ReaderInv'
    <2> SUFFICES ASSUME NEW r \in Readers
                 PROVE  /\ rpc[r] = "copying" => rtmp[r] = tape'[read_seq[r] + 1]
                        /\ rpc[r] \notin {"final", "done"}
      BY Zenon DEF ReaderInv
    <2>1. ~closed
      BY DEF WriterInv
    <2>2. rpc[r] = "copying" => read_seq[r] + 1 \in 1 .. write_seq
      BY DEF RaceFree, Views, TypeOK
    <2> QED BY <1>0, <2>1, <2>2, Zenon DEF ReaderInv
  <1>5. InOrder'
    BY <1>0 DEF InOrder, TypeOK, BufInv
  <1> QED BY <1>1, <1>2, <1>3, <1>4, <1>5

LEMMA CloseIInv == ASSUME IInv, Close PROVE IInv'
  <1> USE CapAssumption, MaxPushAssumption DEF IInv, Close, rvars
  <1>1. TypeOK'
    BY DEF TypeOK
  <1>2. BufInv'
    BY Zenon DEF BufInv, Kept, Slot, TypeOK
  <1>3. (Views /\ WriterInv /\ ReaderInv /\ InOrder /\ RaceFree)'
    BY DEF Views, WriterInv, ReaderInv, InOrder, RaceFree, TypeOK
  <1> QED BY <1>1, <1>2, <1>3

\* The readers' steps.
LEMMA TryPopLoadIInv ==
  ASSUME IInv, NEW r \in Readers, NEW v \in rview[r] .. write_seq, TryPopLoad(r, v)
  PROVE  IInv'
  <1> USE CapAssumption, MaxPushAssumption DEF IInv, TryPopLoad, wvars
  <1>1. TypeOK'
    BY DEF TypeOK
  <1>2. BufInv'
    BY DEF BufInv, Kept, Slot, TypeOK
  <1>3. (Views /\ WriterInv /\ RaceFree)'
    <2>1. /\ rview'[r] = v /\ \A q \in Readers \ {r} : rview'[q] = rview[q]
          /\ \A q \in Readers \ {r} : rpc'[q] = rpc[q]
          /\ rpc'[r] = IF read_seq[r] = v THEN "check" ELSE "copy"
      BY DEF TypeOK
    <2>2. /\ v \in Nat /\ rview[r] <= v /\ v <= write_seq
          /\ read_seq[r] \in Nat /\ rview[r] \in Nat /\ write_seq \in Nat
      BY DEF TypeOK
    <2>3. Views'
      BY <2>1, <2>2 DEF Views
    <2>4. WriterInv'
      BY DEF WriterInv
    <2>5. RaceFree'
      <3>1. rpc'[r] \in {"copy", "copying"} => read_seq[r] < rview'[r]
        BY <2>1, <2>2 DEF Views
      <3> QED BY <2>1, <3>1 DEF RaceFree
    <2> QED BY <2>3, <2>4, <2>5
  <1>4. (ReaderInv /\ InOrder)'
    BY DEF ReaderInv, InOrder, TypeOK
  <1> QED BY <1>1, <1>2, <1>3, <1>4

\* The slot a reader copies still holds the message its cursor stands at.
LEMMA SlotHolds ==
  ASSUME IInv, NEW r \in Readers, rpc[r] \in {"copy", "copying"}
  PROVE  /\ read_seq[r] \in 0 .. write_seq - 1
         /\ buf[Slot(read_seq[r])] = tape[read_seq[r] + 1]
         /\ tape[read_seq[r] + 1] \in Msgs
  <1>1. read_seq[r] \in 0 .. write_seq - 1
    BY DEF IInv, RaceFree, Views, TypeOK
  <1>2. Kept(read_seq[r])
    <2>1. /\ write_seq \in Nat /\ read_seq[r] \in Nat /\ wview[r] \in Nat /\ Cap \in Nat
          /\ wview[r] <= read_seq[r]
      BY CapAssumption, MaxPushAssumption DEF IInv, Views, TypeOK
    <2>2. /\ write_seq <= read_seq[r] + Cap
          /\ w.pc = "write" => write_seq < wview[r] + Cap
      BY DEF IInv, WriterInv
    <2> QED BY <2>1, <2>2 DEF Kept
  <1>3. tape[read_seq[r] + 1] \in Msgs
    BY <1>1 DEF IInv, BufInv, TypeOK
  <1> QED BY <1>1, <1>2, <1>3 DEF IInv, BufInv

LEMMA ReadSlotIInv == ASSUME IInv, NEW r \in Readers, ReadSlot(r) PROVE IInv'
  <1> USE CapAssumption, MaxPushAssumption DEF IInv, ReadSlot, wvars
  <1>0. rtmp' = [rtmp EXCEPT ![r] = tape[read_seq[r] + 1]] /\ tape[read_seq[r] + 1] \in Msgs
    BY SlotHolds, Zenon
  <1>1. TypeOK'
    BY <1>0 DEF TypeOK, Cells
  <1>2. BufInv'
    BY DEF BufInv, Kept, Slot, TypeOK
  <1>3. (Views /\ WriterInv /\ RaceFree)'
    BY DEF Views, WriterInv, RaceFree, TypeOK
  <1>4. (ReaderInv /\ InOrder)'
    BY <1>0 DEF ReaderInv, InOrder, TypeOK
  <1> QED BY <1>1, <1>2, <1>3, <1>4

LEMMA AdvanceIInv == ASSUME IInv, NEW r \in Readers, Advance(r) PROVE IInv'
  <1> USE CapAssumption, MaxPushAssumption DEF IInv, Advance, wvars
  <1> DEFINE m == tape[read_seq[r] + 1]
  <1>0. /\ read_seq[r] \in 0 .. write_seq - 1
        /\ got' = [got EXCEPT ![r] = Append(@, m)]
        /\ m \in Msgs
    BY SlotHolds, Zenon DEF ReaderInv
  <1>1. /\ Len(got'[r]) = read_seq'[r]
        /\ got'[r][read_seq[r] + 1] = m
        /\ \A i \in 1 .. read_seq[r] : got'[r][i] = got[r][i]
        /\ got'[r] \in Seq(Cells)
    BY <1>0 DEF TypeOK, InOrder, Cells
  <1>2. TypeOK'
    BY <1>0, <1>1 DEF TypeOK
  <1>3. BufInv'
    BY DEF BufInv, Kept, Slot, TypeOK
  <1>4. (Views /\ WriterInv /\ RaceFree)'
    <2>1. /\ read_seq'[r] = read_seq[r] + 1 /\ rpc'[r] = "pop"
          /\ \A q \in Readers \ {r} : read_seq'[q] = read_seq[q] /\ rpc'[q] = rpc[q]
      BY DEF TypeOK
    <2>2. /\ read_seq[r] < rview[r] /\ write_seq <= read_seq[r] + Cap
          /\ read_seq[r] \in Nat /\ rview[r] \in Nat /\ wview[r] \in Nat /\ write_seq \in Nat
      BY DEF RaceFree, WriterInv, TypeOK
    <2>3. Views'
      BY <2>1, <2>2 DEF Views
    <2>4. \A q \in Readers : write_seq <= read_seq'[q] + Cap
      BY <2>1, <2>2 DEF WriterInv
    <2>5. WriterInv'
      BY <2>4 DEF WriterInv
    <2>6. RaceFree'
      BY <2>1 DEF RaceFree
    <2> QED BY <2>3, <2>5, <2>6
  <1>5. ReaderInv'
    BY DEF ReaderInv, TypeOK
  <1>6. InOrder'
    <2>1. /\ read_seq'[r] = read_seq[r] + 1 /\ read_seq[r] \in Nat /\ tape' = tape
          /\ \A q \in Readers \ {r} : read_seq'[q] = read_seq[q] /\ got'[q] = got[q]
      BY DEF TypeOK
    <2>2. read_seq'[r] <= Len(tape')
      BY <1>0, <2>1 DEF BufInv, TypeOK
    <2>3. ASSUME NEW i \in 1 .. read_seq'[r] PROVE got'[r][i] = tape'[i]
      <3>1. i \in 1 .. read_seq[r] \/ i = read_seq[r] + 1
        BY <2>1
      <3> QED BY <1>1, <2>1, <3>1 DEF InOrder
    <2> QED BY <1>1, <2>1, <2>2, <2>3 DEF InOrder
  <1> QED BY <1>2, <1>3, <1>4, <1>5, <1>6

LEMMA CheckClosedIInv ==
  ASSUME IInv, NEW r \in Readers, NEW b \in BOOLEAN, CheckClosed(r, b)
  PROVE  IInv'
  <1> USE CapAssumption, MaxPushAssumption DEF IInv, CheckClosed, wvars
  <1>1. TypeOK'
    BY DEF TypeOK
  <1>2. BufInv'
    BY DEF BufInv, Kept, Slot, TypeOK
  <1>3. (Views /\ WriterInv /\ RaceFree)'
    BY DEF Views, WriterInv, RaceFree, TypeOK
  <1>4. (ReaderInv /\ InOrder)'
    BY DEF ReaderInv, InOrder, TypeOK
  <1> QED BY <1>1, <1>2, <1>3, <1>4

LEMMA CheckEmptyIInv == ASSUME IInv, NEW r \in Readers, CheckEmpty(r) PROVE IInv'
  <1> USE CapAssumption, MaxPushAssumption DEF IInv, CheckEmpty, wvars
  <1>1. TypeOK'
    BY DEF TypeOK
  <1>2. BufInv'
    BY DEF BufInv, Kept, Slot, TypeOK
  <1>3. (Views /\ WriterInv /\ RaceFree)'
    BY DEF Views, WriterInv, RaceFree, TypeOK, ReaderInv
  <1>4. (ReaderInv /\ InOrder)'
    BY DEF ReaderInv, InOrder, TypeOK
  <1> QED BY <1>1, <1>2, <1>3, <1>4

LEMMA StutterIInv == ASSUME IInv, UNCHANGED vars PROVE IInv'
  BY DEF IInv, vars, TypeOK, Views, WriterInv, BufInv, Kept, ReaderInv, InOrder, RaceFree

LEMMA NextIInv == IInv /\ [Next]_vars => IInv'
  <1> SUFFICES ASSUME IInv, [Next]_vars PROVE IInv'
    OBVIOUS
  <1>1. CASE Writer
    BY <1>1, TryPushIInv, LoadCursorIInv, PushFullIInv, WriteSlotIInv, PublishIInv, CloseIInv
    DEF Writer
  <1>2. ASSUME NEW r \in Readers, Reader(r) PROVE IInv'
    BY <1>2, TryPopLoadIInv, ReadSlotIInv, AdvanceIInv, CheckClosedIInv, CheckEmptyIInv
    DEF Reader
  <1>3. CASE AllDone \/ UNCHANGED vars
    BY <1>3, StutterIInv DEF AllDone
  <1> QED BY <1>1, <1>2, <1>3 DEF Next

\* The inductive invariant of the ring holds in every reachable state.
THEOREM Invariance == Spec => []IInv
  BY InitIInv, NextIInv, PTL DEF Spec

\* The type invariant: in particular no cursor passes the number of messages
\* pushed, and the writer only ever fills slots of the buffer.
THEOREM FanoutTypeOK == Spec => []TypeOK
  BY Invariance, PTL DEF IInv

\* Every worker is handed a prefix of the tape, whole and in order.
THEOREM FanoutInOrder == Spec => []InOrder
  BY Invariance, PTL DEF IInv

\* try_push and try_pop never touch a slot at the same time.
THEOREM FanoutRaceFree == Spec => []RaceFree
  BY Invariance, PTL DEF IInv

\* A worker that was told Closed was handed everything.
THEOREM FanoutDrained == Spec => []DrainedWhenDone
  <1>1. IInv => DrainedWhenDone
    BY DEF IInv, ReaderInv, BufInv, InOrder, DrainedWhenDone, TypeOK
  <1> QED BY <1>1, Invariance, PTL
----------------------------------------------------------------------------
(* The ring implements the broadcast tape: Publish is Push, Advance is Pop,  *)
(* CheckEmpty is End when it finds nothing, and every other step stutters.   *)

DoneSet == {r \in Readers : rpc[r] = "done"}

LEMMA PublishRefines == ASSUME IInv, Publish PROVE Tape!Push(w.msg) /\ w.msg \in Msgs
  <1> USE DEF Publish, rvars, IInv
  <1>1. w.msg \in Msgs /\ ~closed
    BY DEF WriterInv
  <1>2. \A r \in Readers : Len(tape) - read_seq[r] < Cap
    BY CapAssumption, MaxPushAssumption DEF RaceFree, Views, BufInv, TypeOK
  <1> QED BY <1>1, <1>2 DEF Tape!Push

LEMMA AdvanceRefines == ASSUME IInv, NEW r \in Readers, Advance(r) PROVE Tape!Pop(r)
  <1> USE DEF Advance, wvars, IInv
  <1>1. read_seq[r] < Len(tape)
    BY SlotHolds DEF BufInv, TypeOK
  <1>2. DoneSet' = DoneSet /\ r \notin DoneSet
    BY DEF DoneSet, TypeOK
  <1> QED BY <1>1, <1>2 DEF Tape!Pop, DoneSet

LEMMA CheckEmptyRefines ==
  ASSUME IInv, NEW r \in Readers, CheckEmpty(r)
  PROVE  Tape!End(r) \/ UNCHANGED Tape!vars
  <1> USE DEF CheckEmpty, wvars, IInv
  <1>1. PICK v \in rview[r] .. write_seq :
          rpc' = [rpc EXCEPT ![r] = IF read_seq[r] = v THEN "done" ELSE "pop"]
    BY Zenon
  <1>2. CASE read_seq[r] = v
    <2>1. closed /\ read_seq[r] = Len(tape)
      BY <1>2, MaxPushAssumption DEF ReaderInv, BufInv, TypeOK
    <2>2. DoneSet' = DoneSet \cup {r}
      BY <1>1, <1>2 DEF DoneSet, TypeOK
    <2> QED BY <2>1, <2>2 DEF Tape!End, DoneSet
  <1>3. CASE read_seq[r] # v
    <2>1. DoneSet' = DoneSet
      BY <1>1, <1>3 DEF DoneSet, TypeOK
    <2> QED BY <2>1 DEF Tape!vars, DoneSet
  <1> QED BY <1>2, <1>3

\* No other step of a reader changes who is done.
LEMMA ReaderStutters ==
  ASSUME IInv, NEW r \in Readers,
         \/ \E v \in rview[r] .. write_seq : TryPopLoad(r, v)
         \/ ReadSlot(r)
         \/ \E b \in BOOLEAN : CheckClosed(r, b)
  PROVE  UNCHANGED Tape!vars
  <1>1. DoneSet' = DoneSet
    BY DEF IInv, TypeOK, DoneSet, TryPopLoad, ReadSlot, CheckClosed
  <1> QED BY <1>1 DEF Tape!vars, DoneSet, TryPopLoad, ReadSlot, CheckClosed, wvars

LEMMA NextRefines == ASSUME IInv, [Next]_vars PROVE [Tape!Next]_(Tape!vars)
  <1>1. CASE Publish
    BY <1>1, PublishRefines DEF Tape!Next
  <1>2. CASE Close
    BY <1>2 DEF Close, rvars, Tape!Next, Tape!Close
  <1>3. CASE (\E m \in Msgs : TryPush(m)) \/ (\E r \in Readers : LoadCursor(r))
               \/ PushFull \/ WriteSlot
    BY <1>3, Zenon DEF TryPush, LoadCursor, PushFull, WriteSlot, rvars, Tape!vars
  <1>4. ASSUME NEW r \in Readers, Reader(r) PROVE [Tape!Next]_(Tape!vars)
    BY <1>4, AdvanceRefines, CheckEmptyRefines, ReaderStutters DEF Reader, Tape!Next
  <1>5. CASE AllDone \/ UNCHANGED vars
    BY <1>5 DEF AllDone, vars, Tape!vars
  <1> QED BY <1>1, <1>2, <1>3, <1>4, <1>5 DEF Next, Writer

\* The ring, its stale loads and torn copies included, is a broadcast tape.
THEOREM FanoutRefinesTape == Spec => TapeSpec
  <1>1. Init => Tape!Init
    BY DEF Init, Tape!Init
  <1> QED BY <1>1, NextRefines, Invariance, PTL DEF Spec, TapeSpec, Tape!Spec
----------------------------------------------------------------------------
(* The single-consumer ring.                                               *)

LEMMA RingSlotType == ASSUME NEW a \in Nat PROVE Ring!Slot(a) \in Ring!Slots
  BY CapAssumption DEF Ring!Slot, Ring!Slots

LEMMA RingSlotsDiffer ==
  ASSUME NEW a \in Nat, NEW b \in Nat, a < b, b < a + Cap
  PROVE  Ring!Slot(a) # Ring!Slot(b)
  BY SlotsDiffer DEF Slot, Ring!Slot
----------------------------------------------------------------------------
LEMMA RingInit == Ring!Init => Ring!IInv
  <1> SUFFICES ASSUME Ring!Init PROVE Ring!IInv
    OBVIOUS
  <1> USE CapAssumption, MaxPushAssumption DEF Ring!Init
  <1>1. Ring!TypeOK
    <2>1. head \in 0 .. MaxPush /\ tail \in 0 .. MaxPush
      OBVIOUS
    <2>2. cells \in [Ring!Slots -> Msgs \cup {Torn}]
      OBVIOUS
    <2>3. /\ p \in [pc : {"idle", "write"}, msg : Msgs \cup {Torn}, view : Nat]
          /\ c \in [pc : {"pop", "copy", "copying", "check", "final", "done"}, view : Nat, tmp : Msgs \cup {Torn}]
      OBVIOUS
    <2>4. pushed \in Seq(Msgs) /\ popped \in Seq(Msgs \cup {Torn})
      OBVIOUS
    <2>5. shut \in BOOLEAN
      BY Zenon
    <2> QED BY <2>1, <2>2, <2>3, <2>4, <2>5 DEF Ring!TypeOK
  <1>2. Ring!Views /\ Ring!ProducerInv /\ Ring!CellInv /\ Ring!ConsumerInv /\ Ring!InOrder /\ Ring!RaceFree
    BY DEF Ring!Views, Ring!ProducerInv, Ring!CellInv, Ring!ConsumerInv, Ring!InOrder, Ring!RaceFree
  <1> QED BY <1>1, <1>2 DEF Ring!IInv

\* The producer's steps.  Beginning to write a slot gives up the oldest message
\* kept, which the consumer has read: the producer saw the head_ that says so.
LEMMA RingTryPush ==
  ASSUME Ring!IInv, NEW m \in Msgs, NEW v \in p.view .. head, Ring!TryPush(m, v)
  PROVE  Ring!IInv'
  <1> USE CapAssumption, MaxPushAssumption DEF Ring!IInv
  <1>1. /\ v \in Nat /\ p.view \in Nat /\ p.view <= v /\ v <= head /\ head \in Nat /\ tail \in Nat
        /\ p.pc = "idle" /\ ~shut /\ tail < MaxPush
        /\ UNCHANGED <<head, tail, shut, c, pushed, popped>>
    BY DEF Ring!TryPush, Ring!cvars, Ring!TypeOK
  <1>2. CASE tail - v < Cap /\ p' = [pc |-> "write", msg |-> m, view |-> v]
             /\ cells' = [cells EXCEPT ![Ring!Slot(tail)] = Torn]
    <2>1. Ring!TypeOK'
      BY <1>1, <1>2, RingSlotType DEF Ring!TypeOK
    <2>2. Ring!CellInv'
      <3> SUFFICES ASSUME NEW n \in 0 .. tail - 1, tail < n + Cap
                   PROVE  cells'[Ring!Slot(n)] = pushed[n + 1]
        BY <1>1, <1>2 DEF Ring!CellInv, Ring!Kept, Ring!Slot
      <3>1. n \in Nat /\ n < tail /\ Ring!Kept(n)
        BY <1>1 DEF Ring!Kept
      <3>2. Ring!Slot(n) # Ring!Slot(tail)
        BY <1>1, <3>1, RingSlotsDiffer
      <3>3. cells'[Ring!Slot(n)] = cells[Ring!Slot(n)]
        BY <1>2, <3>1, <3>2, RingSlotType DEF Ring!TypeOK
      <3> QED BY <3>1, <3>3 DEF Ring!CellInv
    <2>3. (Ring!Views /\ Ring!ProducerInv /\ Ring!RaceFree)'
      BY <1>1, <1>2 DEF Ring!Views, Ring!ProducerInv, Ring!RaceFree, Ring!TypeOK
    <2>4. (Ring!ConsumerInv /\ Ring!InOrder)'
      BY <1>1 DEF Ring!ConsumerInv, Ring!InOrder
    <2> QED BY <2>1, <2>2, <2>3, <2>4
  <1>3. CASE tail - v >= Cap /\ p' = [p EXCEPT !.view = v] /\ UNCHANGED cells
    <2>1. Ring!TypeOK'
      BY <1>1, <1>3, Zenon DEF Ring!TypeOK
    <2>2. p'.pc = "idle" /\ p'.view = v
      BY <1>1, <1>3 DEF Ring!TypeOK
    <2>3. Ring!CellInv'
      BY <1>1, <1>3, <2>2 DEF Ring!CellInv, Ring!Kept, Ring!Slot
    <2>4. (Ring!Views /\ Ring!ProducerInv /\ Ring!RaceFree)'
      BY <1>1, <2>2 DEF Ring!Views, Ring!ProducerInv, Ring!RaceFree, Ring!TypeOK
    <2>5. (Ring!ConsumerInv /\ Ring!InOrder)'
      BY <1>1 DEF Ring!ConsumerInv, Ring!InOrder
    <2> QED BY <2>1, <2>3, <2>4, <2>5
  <1> QED BY <1>2, <1>3 DEF Ring!TryPush

LEMMA RingPublish == ASSUME Ring!IInv, Ring!Publish PROVE Ring!IInv'
  <1> USE CapAssumption, MaxPushAssumption DEF Ring!IInv
  <1>1. /\ head \in Nat /\ tail \in Nat /\ p.msg \in Msgs /\ p.pc = "write" /\ ~shut
        /\ tail < MaxPush /\ tail < p.view + Cap /\ p.view \in Nat /\ Len(pushed) = tail
        /\ tail' = tail + 1 /\ cells' = [cells EXCEPT ![Ring!Slot(tail)] = p.msg]
        /\ p'.pc = "idle" /\ p'.view = p.view
        /\ UNCHANGED <<head, shut, c, popped>>
    BY DEF Ring!Publish, Ring!cvars, Ring!TypeOK, Ring!ProducerInv, Ring!CellInv
  <1>2. /\ pushed' \in Seq(Msgs) /\ Len(pushed') = tail + 1 /\ pushed'[tail + 1] = p.msg
        /\ \A i \in 1 .. tail : pushed'[i] = pushed[i]
    <2>1. pushed \in Seq(Msgs) /\ pushed' = Append(pushed, p.msg) /\ Len(pushed) = tail /\ p.msg \in Msgs
      BY <1>1 DEF Ring!Publish, Ring!TypeOK
    <2> QED BY <2>1
  <1>3. Ring!TypeOK'
    <2>1. cells' \in [Ring!Slots -> Msgs \cup {Torn}]
      BY <1>1, RingSlotType DEF Ring!TypeOK
    <2>2. p' \in [pc : {"idle", "write"}, msg : Msgs \cup {Torn}, view : Nat]
      BY DEF Ring!TypeOK, Ring!Publish
    <2>3. tail' \in 0 .. MaxPush
      BY <1>1
    <2> QED BY <1>1, <1>2, <2>1, <2>2, <2>3 DEF Ring!TypeOK
  <1>4. Ring!CellInv'
    <2> SUFFICES ASSUME NEW n \in 0 .. tail, tail < n + Cap
                 PROVE  cells'[Ring!Slot(n)] = pushed'[n + 1]
      <3>1. tail' - 1 = tail /\ Len(pushed') = tail'
        BY <1>1, <1>2
      <3>2. \A n \in 0 .. tail : Ring!Kept(n)' => tail < n + Cap
        BY <1>1 DEF Ring!Kept
      <3> QED BY <3>1, <3>2 DEF Ring!CellInv, Ring!Slot
    <2>1. CASE n = tail
      BY <1>1, <1>2, <2>1, RingSlotType DEF Ring!TypeOK
    <2>2. CASE n < tail
      <3>1. n \in Nat /\ n \in 0 .. tail - 1 /\ Ring!Kept(n)
        BY <1>1, <2>2 DEF Ring!Kept
      <3>2. Ring!Slot(n) # Ring!Slot(tail)
        BY <1>1, <2>2, <3>1, RingSlotsDiffer
      <3>3. cells'[Ring!Slot(n)] = cells[Ring!Slot(n)]
        BY <1>1, <3>1, <3>2, RingSlotType DEF Ring!TypeOK
      <3> QED BY <1>1, <1>2, <3>1, <3>3 DEF Ring!CellInv
    <2> QED BY <1>1, <2>1, <2>2
  <1>5. (Ring!Views /\ Ring!ProducerInv /\ Ring!RaceFree)'
    BY <1>1 DEF Ring!Views, Ring!ProducerInv, Ring!RaceFree, Ring!TypeOK
  <1>6. Ring!ConsumerInv'
    BY <1>1, <1>2 DEF Ring!ConsumerInv, Ring!RaceFree, Ring!Views, Ring!TypeOK
  <1>7. Ring!InOrder'
    BY <1>1, <1>2 DEF Ring!InOrder
  <1> QED BY <1>3, <1>4, <1>5, <1>6, <1>7

LEMMA RingClose == ASSUME Ring!IInv, Ring!Close PROVE Ring!IInv'
  <1> USE CapAssumption, MaxPushAssumption DEF Ring!IInv, Ring!Close, Ring!cvars
  <1>1. Ring!TypeOK'
    BY DEF Ring!TypeOK
  <1>2. Ring!CellInv'
    BY DEF Ring!CellInv, Ring!Kept, Ring!Slot
  <1>3. (Ring!Views /\ Ring!ProducerInv /\ Ring!ConsumerInv /\ Ring!InOrder /\ Ring!RaceFree)'
    BY DEF Ring!Views, Ring!ProducerInv, Ring!ConsumerInv, Ring!InOrder, Ring!RaceFree
  <1> QED BY <1>1, <1>2, <1>3
----------------------------------------------------------------------------
\* The consumer's steps leave the producer's part alone.
LEMMA RingConsumerKeeps ==
  ASSUME Ring!IInv, UNCHANGED Ring!pvars
  PROVE  Ring!CellInv' /\ Ring!ProducerInv'
  BY DEF Ring!IInv, Ring!pvars, Ring!CellInv, Ring!Kept, Ring!Slot, Ring!ProducerInv

\* Loading an index, or a flag, changes only what the consumer believes.
LEMMA RingLoad ==
  ASSUME Ring!IInv, UNCHANGED <<head, popped>>, UNCHANGED Ring!pvars,
         NEW v \in c.view .. tail, NEW pc \in {"pop", "copy", "check", "final", "done"},
         c' = [c EXCEPT !.view = v, !.pc = pc],
         pc = "copy" => head # v,
         pc = "final" => shut /\ v = tail,
         pc = "done" => shut /\ head = tail
  PROVE  Ring!IInv'
  <1> USE CapAssumption, MaxPushAssumption DEF Ring!IInv
  <1>1. /\ c'.view = v /\ c'.pc = pc /\ v \in Nat /\ c.view \in Nat /\ head \in Nat /\ tail \in Nat
        /\ c.view <= v /\ v <= tail /\ UNCHANGED <<tail, shut, cells, p, pushed>>
    BY DEF Ring!TypeOK, Ring!pvars
  <1>2. Ring!TypeOK'
    BY <1>1, Zenon DEF Ring!TypeOK
  <1>3. (Ring!Views /\ Ring!RaceFree)'
    BY <1>1 DEF Ring!Views, Ring!RaceFree, Ring!TypeOK
  <1>4. Ring!ConsumerInv'
    BY <1>1 DEF Ring!ConsumerInv
  <1>5. Ring!InOrder'
    BY <1>1 DEF Ring!InOrder
  <1> QED BY <1>2, <1>3, <1>4, <1>5, RingConsumerKeeps

LEMMA RingTryPopLoad ==
  ASSUME Ring!IInv, NEW v \in c.view .. tail, Ring!TryPopLoad(v) PROVE Ring!IInv'
  <1> DEFINE pc == IF head = v THEN "check" ELSE "copy"
  <1>1. c' = [c EXCEPT !.view = v, !.pc = pc] /\ UNCHANGED <<head, popped>> /\ UNCHANGED Ring!pvars
    BY DEF Ring!TryPopLoad
  <1>2. pc \in {"pop", "copy", "check", "final", "done"}
    OBVIOUS
  <1>3. (pc = "copy" => head # v) /\ pc # "final" /\ pc # "done"
    OBVIOUS
  <1> HIDE DEF pc
  <1> QED BY <1>1, <1>2, <1>3, RingLoad, Zenon

LEMMA RingCheckClosed ==
  ASSUME Ring!IInv, NEW b \in BOOLEAN, Ring!CheckClosed(b) PROVE Ring!IInv'
  <1> DEFINE pc == IF b THEN "final" ELSE "pop"
             v == IF b THEN tail ELSE c.view
  <1>1. c' = [c EXCEPT !.view = v, !.pc = pc] /\ UNCHANGED <<head, popped>> /\ UNCHANGED Ring!pvars
    BY DEF Ring!CheckClosed
  <1>2. v \in c.view .. tail
    BY MaxPushAssumption DEF Ring!IInv, Ring!Views, Ring!TypeOK
  <1>3. pc \in {"pop", "copy", "check", "final", "done"} /\ pc # "copy" /\ pc # "done"
    OBVIOUS
  <1>4. pc = "final" => shut /\ v = tail
    BY DEF Ring!CheckClosed
  <1> HIDE DEF pc, v
  <1> QED BY <1>1, <1>2, <1>3, <1>4, RingLoad, Zenon

LEMMA RingCheckEmpty == ASSUME Ring!IInv, Ring!CheckEmpty PROVE Ring!IInv'
  <1>1. PICK v \in c.view .. tail : c' = [c EXCEPT !.view = v, !.pc = IF head = v THEN "done" ELSE "pop"]
    BY Zenon DEF Ring!CheckEmpty
  <1> DEFINE pc == IF head = v THEN "done" ELSE "pop"
  <1>2. c' = [c EXCEPT !.view = v, !.pc = pc] /\ UNCHANGED <<head, popped>> /\ UNCHANGED Ring!pvars
    BY <1>1 DEF Ring!CheckEmpty
  <1>3. pc \in {"pop", "copy", "check", "final", "done"} /\ pc # "copy" /\ pc # "final"
    OBVIOUS
  <1>4. pc = "done" => shut /\ head = tail
    BY MaxPushAssumption DEF Ring!CheckEmpty, Ring!IInv, Ring!ConsumerInv, Ring!TypeOK
  <1> HIDE DEF pc
  <1> QED BY <1>2, <1>3, <1>4, RingLoad, Zenon

\* The slot the consumer copies still holds the message head_ stands at.
LEMMA RingSlotHolds ==
  ASSUME Ring!IInv, c.pc \in {"copy", "copying"}
  PROVE  /\ head \in 0 .. tail - 1
         /\ cells[Ring!Slot(head)] = pushed[head + 1]
         /\ pushed[head + 1] \in Msgs
  <1>1. head \in 0 .. tail - 1
    BY MaxPushAssumption DEF Ring!IInv, Ring!RaceFree, Ring!Views, Ring!TypeOK
  <1>2. Ring!Kept(head)
    BY CapAssumption, MaxPushAssumption
    DEF Ring!IInv, Ring!Kept, Ring!Views, Ring!ProducerInv, Ring!TypeOK
  <1>3. pushed[head + 1] \in Msgs
    BY <1>1, MaxPushAssumption DEF Ring!IInv, Ring!CellInv, Ring!TypeOK
  <1> QED BY <1>1, <1>2, <1>3 DEF Ring!IInv, Ring!CellInv

LEMMA RingReadSlot == ASSUME Ring!IInv, Ring!ReadSlot PROVE Ring!IInv'
  <1> USE CapAssumption, MaxPushAssumption DEF Ring!IInv
  <1>1. /\ c.pc = "copy" /\ c'.pc = "copying" /\ c'.view = c.view /\ c'.tmp = pushed[head + 1]
        /\ c' \in [pc : {"pop", "copy", "copying", "check", "final", "done"}, view : Nat, tmp : Msgs \cup {Torn}]
        /\ UNCHANGED <<head, popped, tail, shut, cells, p, pushed>>
    BY RingSlotHolds, Zenon DEF Ring!ReadSlot, Ring!pvars, Ring!TypeOK
  <1>2. Ring!TypeOK'
    BY <1>1 DEF Ring!TypeOK
  <1>3. (Ring!Views /\ Ring!RaceFree /\ Ring!ConsumerInv /\ Ring!InOrder)'
    BY <1>1 DEF Ring!Views, Ring!RaceFree, Ring!ConsumerInv, Ring!InOrder
  <1> QED BY <1>2, <1>3, RingConsumerKeeps DEF Ring!ReadSlot

LEMMA RingAdvance == ASSUME Ring!IInv, Ring!Advance PROVE Ring!IInv'
  <1> USE CapAssumption, MaxPushAssumption DEF Ring!IInv
  <1>1. /\ head \in 0 .. tail - 1 /\ head \in Nat /\ tail \in Nat /\ pushed[head + 1] \in Msgs
        /\ popped' = Append(popped, pushed[head + 1])
        /\ head' = head + 1 /\ head < c.view
        /\ UNCHANGED <<tail, shut, cells, p, pushed>>
    BY RingSlotHolds DEF Ring!Advance, Ring!ConsumerInv, Ring!RaceFree, Ring!TypeOK, Ring!pvars
  <1>2. /\ c'.pc = "pop" /\ c'.view = c.view
        /\ c' \in [pc : {"pop", "copy", "copying", "check", "final", "done"}, view : Nat, tmp : Msgs \cup {Torn}]
    BY Zenon DEF Ring!Advance, Ring!TypeOK
  <1>3. /\ popped' \in Seq(Msgs \cup {Torn}) /\ Len(popped') = head + 1
        /\ popped'[head + 1] = pushed[head + 1]
        /\ \A i \in 1 .. head : popped'[i] = popped[i]
    BY <1>1 DEF Ring!TypeOK, Ring!InOrder
  <1>4. Ring!TypeOK'
    BY <1>1, <1>2, <1>3 DEF Ring!TypeOK
  <1>5. (Ring!Views /\ Ring!RaceFree /\ Ring!ConsumerInv)'
    BY <1>1, <1>2 DEF Ring!Views, Ring!RaceFree, Ring!ConsumerInv, Ring!TypeOK
  <1>6. Ring!InOrder'
    BY <1>1, <1>3 DEF Ring!InOrder, Ring!CellInv
  <1> QED BY <1>4, <1>5, <1>6, RingConsumerKeeps DEF Ring!Advance
----------------------------------------------------------------------------
LEMMA RingNext == ASSUME Ring!IInv, [Ring!Next]_svars PROVE Ring!IInv'
  <1>1. CASE Ring!Producer
    BY <1>1, RingTryPush, RingPublish, RingClose DEF Ring!Producer
  <1>2. CASE Ring!Consumer
    BY <1>2, RingTryPopLoad, RingReadSlot, RingAdvance, RingCheckClosed, RingCheckEmpty DEF Ring!Consumer
  <1>3. CASE UNCHANGED svars
    BY <1>3 DEF svars, Ring!IInv, Ring!TypeOK, Ring!Views, Ring!ProducerInv, Ring!CellInv, Ring!Kept,
         Ring!Slot, Ring!ConsumerInv, Ring!InOrder, Ring!RaceFree
  <1> QED BY <1>1, <1>2, <1>3 DEF Ring!Next, Ring!Done, Ring!vars, svars

\* One queue moves, the other stays as it was made.
LEMMA OneMoves == ASSUME [BackendNext]_allVars PROVE [Next]_vars /\ [Ring!Next]_svars
  BY DEF BackendNext, Disruptor, Spsc, allVars

LEMMA BackendStep ==
  ASSUME IInv, Ring!IInv, [BackendNext]_allVars
  PROVE  IInv' /\ Ring!IInv'
  BY OneMoves, NextIInv, RingNext

\* The inductive invariants of both queues hold in every reachable state.
THEOREM BackendInvariance == BackendSpec => [](IInv /\ Ring!IInv)
  <1>1. BackendInit => IInv /\ Ring!IInv
    BY InitIInv, RingInit DEF BackendInit
  <1>2. (IInv /\ Ring!IInv) /\ [BackendNext]_allVars => (IInv /\ Ring!IInv)'
    BY BackendStep
  <1> QED BY <1>1, <1>2, PTL DEF BackendSpec

\* Whichever queue the process has, every worker is handed a prefix of what was
\* pushed, whole, once and in order.
THEOREM BackendIsInOrder == BackendSpec => []BackendInOrder
  <1>1. IInv /\ Ring!IInv => BackendInOrder
    BY DEF IInv, Ring!IInv, BackendInOrder
  <1> QED BY <1>1, BackendInvariance, PTL

\* try_push and try_pop never touch a slot at the same time.
THEOREM BackendIsRaceFree == BackendSpec => []BackendRaceFree
  <1>1. IInv /\ Ring!IInv => BackendRaceFree
    BY DEF IInv, Ring!IInv, BackendRaceFree
  <1> QED BY <1>1, BackendInvariance, PTL
----------------------------------------------------------------------------
(* The ring implements the tape with one reader: Publish is Push, Advance is *)
(* Pop, CheckEmpty is End when it finds nothing.                             *)

RingPos == [r \in {"worker"} |-> head]
RingOver == IF c.pc = "done" THEN {"worker"} ELSE {}

LEMMA RingPublishRefines == ASSUME Ring!IInv, Ring!Publish PROVE Ring!Tape!Push(p.msg) /\ p.msg \in Msgs
  <1> USE DEF Ring!Publish, Ring!cvars, Ring!IInv
  <1>1. p.msg \in Msgs /\ ~shut
    BY DEF Ring!ProducerInv
  <1>2. Len(pushed) - head < Cap
    BY CapAssumption, MaxPushAssumption DEF Ring!RaceFree, Ring!Views, Ring!CellInv, Ring!TypeOK
  <1>3. pushed' = Append(pushed, p.msg) /\ UNCHANGED <<head, shut, c>>
    OBVIOUS
  <1> QED BY <1>1, <1>2, <1>3 DEF Ring!Tape!Push

LEMMA RingAdvanceRefines == ASSUME Ring!IInv, Ring!Advance PROVE Ring!Tape!Pop("worker")
  <1> USE DEF Ring!Advance, Ring!pvars, Ring!IInv
  <1>1. head < Len(pushed) /\ head \in Nat
    BY RingSlotHolds, MaxPushAssumption DEF Ring!CellInv, Ring!TypeOK
  <1>2. RingOver' = RingOver /\ "worker" \notin RingOver
    BY DEF RingOver, Ring!TypeOK
  <1>3. RingPos' = [RingPos EXCEPT !["worker"] = @ + 1] /\ RingPos["worker"] = head
    BY <1>1 DEF RingPos
  <1>4. UNCHANGED <<pushed, shut>>
    OBVIOUS
  <1> QED BY <1>1, <1>2, <1>3, <1>4 DEF Ring!Tape!Pop, RingPos, RingOver

LEMMA RingCheckEmptyRefines ==
  ASSUME Ring!IInv, Ring!CheckEmpty
  PROVE  Ring!Tape!End("worker") \/ UNCHANGED Ring!Tape!vars
  <1> USE DEF Ring!CheckEmpty, Ring!pvars, Ring!IInv
  <1>1. PICK v \in c.view .. tail : c' = [c EXCEPT !.view = v, !.pc = IF head = v THEN "done" ELSE "pop"]
    BY Zenon
  <1>2. c.pc = "final" /\ shut /\ c.view = tail /\ Len(pushed) = tail
        /\ UNCHANGED <<head, pushed, shut>> /\ RingPos' = RingPos
    BY DEF Ring!ConsumerInv, Ring!CellInv, RingPos
  <1>3. CASE head = v
    <2>1. head = Len(pushed)
      BY <1>2, <1>3, MaxPushAssumption DEF Ring!TypeOK
    <2>2. c'.pc = "done"
      BY <1>1, <1>3, Zenon DEF Ring!TypeOK
    <2>3. RingOver' = RingOver \cup {"worker"}
      BY <1>2, <2>2 DEF RingOver
    <2> QED BY <1>2, <2>1, <2>3 DEF Ring!Tape!End, RingPos, RingOver
  <1>4. CASE head # v
    <2>1. c'.pc = "pop"
      BY <1>1, <1>4, Zenon DEF Ring!TypeOK
    <2>2. RingOver' = RingOver
      BY <1>2, <2>1 DEF RingOver
    <2> QED BY <1>2, <2>2 DEF Ring!Tape!vars, RingPos, RingOver
  <1> QED BY <1>3, <1>4

LEMMA RingConsumerStutters ==
  ASSUME Ring!IInv,
         (\E v \in c.view .. tail : Ring!TryPopLoad(v)) \/ Ring!ReadSlot \/ (\E b \in BOOLEAN : Ring!CheckClosed(b))
  PROVE  UNCHANGED Ring!Tape!vars
  <1>1. c.pc # "done" /\ c'.pc # "done" /\ UNCHANGED <<head, shut, pushed>>
    BY Zenon DEF Ring!IInv, Ring!TypeOK, Ring!TryPopLoad, Ring!ReadSlot, Ring!CheckClosed, Ring!pvars
  <1> QED BY <1>1 DEF Ring!Tape!vars

LEMMA RingNextRefines == ASSUME Ring!IInv, [Ring!Next]_svars PROVE [Ring!Tape!Next]_(Ring!Tape!vars)
  <1>1. CASE Ring!Publish
    BY <1>1, RingPublishRefines DEF Ring!Tape!Next
  <1>2. CASE Ring!Close
    BY <1>2 DEF Ring!Close, Ring!cvars, Ring!Tape!Next, Ring!Tape!Close
  <1>3. CASE \E m \in Msgs, v \in p.view .. head : Ring!TryPush(m, v)
    BY <1>3 DEF Ring!TryPush, Ring!cvars, Ring!Tape!vars
  <1>4. CASE Ring!Advance
    BY <1>4, RingAdvanceRefines DEF Ring!Tape!Next
  <1>5. CASE Ring!CheckEmpty
    BY <1>5, RingCheckEmptyRefines DEF Ring!Tape!Next
  <1>6. CASE (\E v \in c.view .. tail : Ring!TryPopLoad(v)) \/ Ring!ReadSlot
               \/ (\E b \in BOOLEAN : Ring!CheckClosed(b))
    BY <1>6, RingConsumerStutters
  <1>7. CASE UNCHANGED svars
    BY <1>7 DEF svars, Ring!Tape!vars
  <1> QED BY <1>1, <1>2, <1>3, <1>4, <1>5, <1>6, <1>7
          DEF Ring!Next, Ring!Producer, Ring!Consumer, Ring!Done, Ring!vars, svars

\* Whichever queue the process has, it is a broadcast tape: bounded, and over for
\* a worker only when it is closed and the worker has been handed everything.
THEOREM BackendIsTape == BackendSpec => BackendTape
  <1>1. BackendInit => Tape!Init /\ Ring!Tape!Init
    BY DEF BackendInit, Init, Tape!Init, Ring!Init, Ring!Tape!Init
  <1>2. (IInv /\ Ring!IInv) /\ [BackendNext]_allVars
          => [Tape!Next]_(Tape!vars) /\ [Ring!Tape!Next]_(Ring!Tape!vars)
    BY OneMoves, NextRefines, RingNextRefines
  <1> QED BY <1>1, <1>2, BackendInvariance, PTL
          DEF BackendSpec, BackendTape, TapeSpec, Tape!Spec, Ring!TapeSpec, Ring!Tape!Spec
============================================================================
