------------------------ MODULE TelemetryChainProofs ------------------------
(***************************************************************************)
(* The telemetry chain, for any number of workers, records, slots,         *)
(* browsers and sockets: what the writers leave behind is right, each      *)
(* event is shown once, each descriptor is closed once, and simulated      *)
(* numbers do not pass for real ones.  The steps that count are here.      *)
(***************************************************************************)
EXTENDS TelemetryInvariant, FiniteSetTheorems

\* A block of n units of one owner adds n.
LEMMA AddBlock ==
  ASSUME NEW S, IsFiniteSet(S), NEW t, NEW n \in Nat, S \cap ({t} \X (1 .. n)) = {}
  PROVE  /\ IsFiniteSet(S \cup ({t} \X (1 .. n)))
         /\ Cardinality(S \cup ({t} \X (1 .. n))) = Cardinality(S) + n
  <1> DEFINE B == {t} \X (1 .. n)
  <1>1. IsFiniteSet({t}) /\ Cardinality({t}) = 1
    BY FS_Singleton
  <1>2. IsFiniteSet(1 .. n) /\ Cardinality(1 .. n) = n
    BY FS_Interval
  <1>3. IsFiniteSet(B) /\ Cardinality(B) = n
    <2>1. IsFiniteSet(B) /\ Cardinality(B) = Cardinality({t}) * Cardinality(1 .. n)
      BY <1>1, <1>2, FS_Product, Zenon
    <2> QED BY <2>1, <1>1, <1>2
  <1>4. Cardinality(S \cap B) = 0
    BY FS_EmptySet
  <1>5. Cardinality(S) \in Nat
    BY FS_CardinalityType
  <1>6. IsFiniteSet(S \cup B) /\ Cardinality(S \cup B) = Cardinality(S) + Cardinality(B) - Cardinality(S \cap B)
    BY <1>3, FS_Union
  <1> QED BY <1>3, <1>4, <1>5, <1>6

\* A message is popped: it is counted among those popped and still owed to the
\* counters.
LEMMA PopInv == ASSUME MemInv, NEW t \in Writers, Pop(t) PROVE MemInv'
  <1>i. MemoryType /\ StartInv /\ CountInv /\ MaxInv
    BY DEF MemInv
  <1>0. PICK l \in Lats :
          /\ wr' = [wr EXCEPT ![t].pc = "count", ![t].lat = l, ![t].left = @ - 1]
          /\ truth' = [n |-> truth.n + 1, sum |-> truth.sum + l, max |-> IF l > truth.max THEN l ELSE truth.max]
    BY Zenon DEF Pop
  <1>1. /\ t \in Workers /\ wr[t].pc = "idle" /\ wr[t].left > 0 /\ l \in Nat \ {0} /\ wr[t] \in WriterStates
        /\ UNCHANGED <<stats, config, write_index, slots, lapped>>
    BY TelemetryAssumption, <1>i DEF Pop, MemoryType, At
  <1> DEFINE r == [wr[t] EXCEPT !.pc = "count", !.lat = l, !.left = @ - 1]
  <1>2. /\ r.pc = "count" /\ r.lat = l /\ r.left = wr[t].left - 1
        /\ r.idx = wr[t].idx /\ r \in WriterStates
    <2>1. wr[t].left \in Nat
      BY <1>1 DEF WriterStates
    <2>2. wr[t].left - 1 \in Nat
      BY <2>1, <1>1
    <2>3. r.pc = "count" /\ r.lat = l /\ r.left = wr[t].left - 1 /\ r.idx = wr[t].idx
      BY <1>1 DEF WriterStates
    <2> QED BY <2>2, <2>3, <1>1, Zenon DEF WriterStates, Updating
  <1>3. wr' \in [Writers -> WriterStates] /\ wr'[t] = r /\ Touches(t)
    <2>1. wr' = [wr EXCEPT ![t] = r]
      BY <1>0, <1>i, Zenon DEF MemoryType
    <2> QED BY <2>1, <1>2, <1>i, WriterMoves, Zenon
  <1> HIDE DEF r
  <1>4. MemoryType'
    <2>1. truth' \in [n : Nat, sum : Nat, max : Nat]
      BY <1>0, <1>1, <1>i DEF MemoryType
    <2> QED BY <2>1, <1>1, <1>3, <1>i, Zenon DEF MemoryType
  <1>5. Ahead(t)' = Ahead(t)
    BY <1>1, <1>2, <1>3 DEF Ahead, Updating, WriterStates
  <1>6. IndexInv' /\ RingInv' /\ BoundInv'
    BY <1>1, <1>2, <1>3, <1>4, <1>5, KeepsRing, Zenon DEF InRecord
  <1>7. StartInv'
    BY <1>1, <1>2, <1>3, <1>i, TelemetryAssumption DEF StartInv, At, Touches, Writers
  <1>w. \A u \in Workers : u # t => wr'[u] = wr[u]
    BY <1>3 DEF Touches, Writers
  <1>8. Counting' = Counting \cup {t} /\ t \notin Counting
    BY <1>w, <1>1, <1>2, <1>3 DEF Counting, At
  <1>9. Owed' = Owed \cup ({t} \X (1 .. l)) /\ Owed \cap ({t} \X (1 .. l)) = {}
    <2>1. \A u \in Workers \X (Nat \ {0}) : u[1] # t => (u \in Owed' <=> u \in Owed)
      BY <1>w DEF Owed, At
    <2>2. \A u \in Workers \X (Nat \ {0}) : u[1] = t => (u \in Owed' <=> u \in {t} \X (1 .. l)) /\ u \notin Owed
      BY <1>1, <1>2, <1>3 DEF Owed, At
    <2>3. {t} \X (1 .. l) \subseteq Workers \X (Nat \ {0})
      BY <1>1
    <2>4. Owed' \subseteq Workers \X (Nat \ {0}) /\ Owed \subseteq Workers \X (Nat \ {0})
      BY DEF Owed
    <2>5. \A u \in {t} \X (1 .. l) : u[1] = t
      OBVIOUS
    <2> QED BY <2>1, <2>2, <2>3, <2>4, <2>5
  <1>10. CountInv'
    <2>0. IsFiniteSet(Counting) /\ IsFiniteSet(Owed) /\ l \in Nat
      BY <1>1, <1>i DEF CountInv
    <2>1. IsFiniteSet(Counting') /\ Cardinality(Counting') = Cardinality(Counting) + 1
      BY <2>0, <1>8, FS_AddElement
    <2>2. IsFiniteSet(Owed') /\ Cardinality(Owed') = Cardinality(Owed) + l
      BY <2>0, <1>9, AddBlock, Zenon
    <2>3. Cardinality(Counting) \in Nat /\ Cardinality(Owed) \in Nat
      BY <2>0, FS_CardinalityType
    <2>4. truth'.n = truth.n + 1 /\ truth'.sum = truth.sum + l /\ stats' = stats
      BY <1>0, <1>1
    <2>5. stats.processed \in Nat /\ stats.total \in Nat
      BY <1>i DEF MemoryType
    <2> QED BY <2>0, <2>1, <2>2, <2>3, <2>4, <2>5, <1>i DEF CountInv
  <1>11. MaxInv'
    <2>1. truth'.max = IF l > truth.max THEN l ELSE truth.max
      BY <1>0
    <2>2. truth.max \in Nat /\ stats.max \in Nat /\ \A u \in Workers : wr[u].lat \in Nat /\ wr[u].cur \in Nat
      BY <1>i DEF MemoryType, Writers, WriterStates
    <2> QED BY <2>1, <2>2, <1>w, <1>1, <1>2, <1>3, <1>i DEF MaxInv, At, Updating
  <1> QED BY <1>4, <1>6, <1>7, <1>10, <1>11 DEF MemInv

\* The counters get what they are owed.
LEMMA CountStepInv == ASSUME MemInv, NEW t \in Writers, Count(t) PROVE MemInv'
  <1>i. MemoryType /\ StartInv /\ CountInv /\ MaxInv
    BY DEF MemInv
  <1>1. /\ t \in Workers /\ wr[t].pc = "count" /\ wr[t] \in WriterStates /\ wr[t].lat \in Nat
        /\ UNCHANGED <<config, write_index, slots, truth, lapped>>
        /\ stats' = [stats EXCEPT !.processed = @ + 1, !.total = @ + wr[t].lat]
    BY <1>i DEF Count, MemoryType, At, StartInv, Writers, Updating, WriterStates
  <1> DEFINE r == [wr[t] EXCEPT !.pc = "load"]
  <1>2. /\ r.pc = "load" /\ r.lat = wr[t].lat /\ r.left = wr[t].left
        /\ r.idx = wr[t].idx /\ r \in WriterStates
    BY <1>1 DEF WriterStates, Updating
  <1>3. wr' \in [Writers -> WriterStates] /\ wr'[t] = r /\ Touches(t)
    <2>1. wr' = [wr EXCEPT ![t] = r]
      BY <1>i DEF Count, Goto, MemoryType
    <2> QED BY <2>1, <1>2, <1>i, WriterMoves, Zenon
  <1> HIDE DEF r
  <1>s. /\ stats' \in [received : Nat, processed : Nat, total : Nat, max : Nat]
        /\ stats'.processed = stats.processed + 1 /\ stats'.total = stats.total + wr[t].lat
        /\ stats'.max = stats.max /\ stats.processed \in Nat /\ stats.total \in Nat
    <2>1. stats.processed \in Nat /\ stats.total \in Nat /\ stats.max \in Nat /\ stats.received \in Nat
      BY <1>i DEF MemoryType
    <2>2. stats'.processed = stats.processed + 1 /\ stats'.total = stats.total + wr[t].lat /\ stats'.max = stats.max
      BY <1>1, <1>i DEF MemoryType
    <2>3. stats' \in [received : Nat, processed : Nat, total : Nat, max : Nat]
      <3>1. stats.total + wr[t].lat \in Nat /\ stats.processed + 1 \in Nat
        BY <2>1, <1>1
      <3> QED BY <3>1, <2>1, <1>1, <1>i, Zenon DEF MemoryType
    <2> QED BY <2>1, <2>2, <2>3
  <1>4. MemoryType'
    BY <1>s, <1>1, <1>3, <1>i, Zenon DEF MemoryType
  <1>5. Ahead(t)' = Ahead(t)
    BY <1>1, <1>2, <1>3 DEF Ahead, Updating
  <1>6. IndexInv' /\ RingInv' /\ BoundInv'
    BY <1>1, <1>2, <1>3, <1>4, <1>5, KeepsRing, Zenon DEF InRecord
  <1>7. StartInv'
    BY <1>1, <1>2, <1>3, <1>i, TelemetryAssumption DEF StartInv, At, Touches, Writers
  <1>w. \A u \in Workers : u # t => wr'[u] = wr[u]
    BY <1>3 DEF Touches, Writers
  <1>8. Counting = Counting' \cup {t} /\ t \notin Counting'
    BY <1>w, <1>1, <1>2, <1>3 DEF Counting, At
  <1>9. Owed = Owed' \cup ({t} \X (1 .. wr[t].lat)) /\ Owed' \cap ({t} \X (1 .. wr[t].lat)) = {}
    <2>1. \A u \in Workers \X (Nat \ {0}) : u[1] # t => (u \in Owed' <=> u \in Owed)
      BY <1>w DEF Owed, At
    <2>2. \A u \in Workers \X (Nat \ {0}) :
            u[1] = t => (u \in Owed <=> u \in {t} \X (1 .. wr[t].lat)) /\ u \notin Owed'
      BY <1>1, <1>2, <1>3 DEF Owed, At
    <2>3. {t} \X (1 .. wr[t].lat) \subseteq Workers \X (Nat \ {0})
      BY <1>1
    <2>4. Owed' \subseteq Workers \X (Nat \ {0}) /\ Owed \subseteq Workers \X (Nat \ {0})
      BY DEF Owed
    <2>5. \A u \in {t} \X (1 .. wr[t].lat) : u[1] = t
      OBVIOUS
    <2> QED BY <2>1, <2>2, <2>3, <2>4, <2>5
  <1>10. CountInv'
    <2>0. IsFiniteSet(Counting) /\ IsFiniteSet(Owed)
      BY <1>i DEF CountInv
    <2>1. IsFiniteSet(Counting') /\ IsFiniteSet(Owed')
      BY <2>0, <1>8, <1>9, FS_Subset
    <2>2. Cardinality(Counting) = Cardinality(Counting') + 1
      BY <2>1, <1>8, FS_AddElement, Zenon
    <2>3. Cardinality(Owed) = Cardinality(Owed') + wr[t].lat
      BY <2>1, <1>1, <1>9, AddBlock, Zenon
    <2>4. Cardinality(Counting') \in Nat /\ Cardinality(Owed') \in Nat
      BY <2>1, FS_CardinalityType
    <2> QED BY <2>1, <2>2, <2>3, <2>4, <1>s, <1>1, <1>i DEF CountInv
  <1>11. MaxInv'
    BY <1>w, <1>s, <1>1, <1>2, <1>3, <1>i DEF MaxInv, At, Updating
  <1> QED BY <1>4, <1>6, <1>7, <1>10, <1>11 DEF MemInv

\* An index is claimed.  Whoever still holds the index one lap earlier is overtaken.
LEMMA ClaimInv == ASSUME MemInv, NEW t \in Writers, Claim(t) PROVE MemInv'
  <1>i. MemoryType /\ StartInv /\ IndexInv /\ RingInv /\ BoundInv
    BY DEF MemInv
  <1>1. /\ wr[t].pc = "claim" /\ wr[t] \in WriterStates /\ wr[t].left \in Nat
        /\ UNCHANGED <<stats, config, slots, truth>>
        /\ write_index \in Nat /\ write_index' = write_index + 1 /\ RingCap \in Nat \ {0}
        /\ \A u \in Writers : wr[u].idx \in Int
    BY <1>i, TelemetryAssumption, Zenon DEF Claim, MemoryType, At, WriterStates
  <1> DEFINE r == [wr[t] EXCEPT !.idx = write_index, !.pc = "head"]
  <1>2. r.pc = "head" /\ r.left = wr[t].left /\ r.idx = write_index /\ r \in WriterStates
    <2>1. write_index \in Int
      BY <1>1
    <2> QED BY <2>1, <1>1, Zenon DEF WriterStates, InRecord
  <1>3. wr' \in [Writers -> WriterStates] /\ wr'[t] = r /\ Touches(t)
    <2>1. wr' = [wr EXCEPT ![t] = r]
      BY <1>i, Zenon DEF Claim, MemoryType
    <2> QED BY <2>1, <1>2, <1>i, WriterMoves, Zenon
  <1> HIDE DEF r
  <1>4. lapped' = (lapped \/ \E u \in Writers : wr[u].idx # Nothing /\ Slot(wr[u].idx) = Slot(write_index))
    BY DEF Claim
  <1>5. MemoryType'
    <2>1. write_index' \in Nat /\ lapped' \in BOOLEAN
      BY <1>1, <1>4, <1>i DEF MemoryType
    <2> QED BY <2>1, <1>1, <1>3, <1>i, Zenon DEF MemoryType
  <1>6. StartInv'
    <2>1. Receive \in Writers /\ wr[Receive].pc # "config" /\ wr'[t].pc \notin Updating \cup {"config"}
      BY <1>1, <1>2, <1>3, <1>i DEF StartInv, At, Updating, Writers
    <2>2. wr'[Receive].pc # "config" /\ wr'[Receive].pc \notin Updating
      BY <2>1, <1>3, <1>i DEF StartInv, Touches
    <2> QED BY <2>2, <1>1, <1>i DEF StartInv, At
  <1>7. CountInv' /\ MaxInv'
    <2>1. wr[t].pc \notin Updating /\ wr'[t].pc \notin Updating
      BY <1>1, <1>2, <1>3 DEF Updating
    <2> QED BY <2>1, <1>1, <1>3, KeepsCounts, Zenon
  <1>w. \A u \in Writers : u # t => wr'[u] = wr[u]
    BY <1>3 DEF Touches
  <1>x. \A u \in Writers : IF wr[u].pc \in InRecord THEN wr[u].idx \in 0 .. write_index - 1 ELSE wr[u].idx = Nothing
    BY <1>i DEF IndexInv
  <1>y. \A u \in Writers : wr[u].idx # write_index
    BY <1>x, <1>1 DEF Nothing
  <1>8. IndexInv'
    <2>1. \A u \in Writers : IF wr'[u].pc \in InRecord THEN wr'[u].idx \in 0 .. write_index' - 1
                                                       ELSE wr'[u].idx = Nothing
      BY <1>w, <1>x, <1>1, <1>2, <1>3 DEF InRecord
    <2>2. \A u, v \in Writers : u # v /\ wr'[u].idx = wr'[v].idx => wr'[u].idx = Nothing
      BY <1>w, <1>y, <1>2, <1>3, <1>i DEF IndexInv
    <2> QED BY <2>1, <2>2 DEF IndexInv
  <1>9. RingInv'
    <2> SUFFICES ASSUME ~lapped'
                 PROVE  /\ \A u \in Writers : wr'[u].pc \in InRecord => wr'[u].idx >= write_index' - RingCap
                        /\ \A i \in 0 .. write_index' - 1, p \in Parts :
                             i >= write_index' - RingCap => slots'[Slot(i)][p] = i \/ Unwritten(i, p)'
      BY DEF RingInv, Slot
    <2>1. ~lapped /\ \A u \in Writers : wr[u].idx # Nothing => Slot(wr[u].idx) # Slot(write_index)
      BY <1>4, Zenon
    <2>2. /\ \A u \in Writers : wr[u].pc \in InRecord => wr[u].idx >= write_index - RingCap
          /\ \A i \in 0 .. write_index - 1, p \in Parts :
               i >= write_index - RingCap => slots[Slot(i)][p] = i \/ Unwritten(i, p)
      BY <2>1, <1>i DEF RingInv
    <2>3. ASSUME NEW u \in Writers, wr'[u].pc \in InRecord PROVE wr'[u].idx >= write_index' - RingCap
      <3>1. CASE u = t
        BY <3>1, <1>1, <1>2, <1>3
      <3>2. CASE u # t
        <4>1. wr[u].pc \in InRecord /\ wr'[u] = wr[u]
          BY <3>2, <2>3, <1>w
        <4>2. wr[u].idx \in Nat /\ wr[u].idx >= write_index - RingCap /\ wr[u].idx # Nothing
          BY <4>1, <2>2, <1>x, <1>1 DEF Nothing
        <4>3. wr[u].idx + RingCap # write_index
          BY <4>2, <2>1, SlotAgain
        <4> QED BY <4>1, <4>2, <4>3, <1>1
      <3> QED BY <3>1, <3>2
    <2>4. ASSUME NEW i \in 0 .. write_index' - 1, NEW p \in Parts, i >= write_index' - RingCap
          PROVE  slots'[Slot(i)][p] = i \/ Unwritten(i, p)'
      <3>1. CASE i = write_index
        BY <3>1, <1>2, <1>3 DEF Unwritten, At
      <3>2. CASE i # write_index
        <4>1. i \in 0 .. write_index - 1 /\ i >= write_index - RingCap
          BY <3>2, <2>4, <1>1
        <4>2. slots[Slot(i)][p] = i \/ Unwritten(i, p)
          BY <4>1, <2>2
        <4>3. Unwritten(i, p) => Unwritten(i, p)'
          BY <1>w, <1>1 DEF Unwritten, At
        <4> QED BY <4>2, <4>3, <1>1
      <3> QED BY <3>1, <3>2
    <2> QED BY <2>3, <2>4
  <1>10. BoundInv'
    <2> DEFINE e == <<t, wr[t].left + 1>>
    <2>1. /\ Ahead(t) = wr[t].left + 1 /\ Ahead(t)' = wr[t].left
          /\ \A u \in Writers : u # t => Ahead(u)' = Ahead(u)
      BY <1>w, <1>1, <1>2, <1>3 DEF Ahead, Updating
    <2>2. e \in ToRecord
      BY <2>1, <1>1 DEF ToRecord
    <2>3. \A u \in Writers \X (Nat \ {0}) : (u[2] <= Ahead(u[1])') <=> (u[2] <= Ahead(u[1]) /\ u # e)
      <3> TAKE u \in Writers \X (Nat \ {0})
      <3>1. u[1] \in Writers /\ u[2] \in Nat /\ u = <<u[1], u[2]>>
        OBVIOUS
      <3>2. CASE u[1] # t
        BY <3>1, <3>2, <2>1
      <3>3. CASE u[1] = t
        BY <3>1, <3>3, <2>1, <1>1
      <3> QED BY <3>2, <3>3
    <2>4. ToRecord' = ToRecord \ {e}
      BY <2>3 DEF ToRecord
    <2>5. IsFiniteSet(ToRecord)
      BY <1>i DEF BoundInv
    <2> HIDE DEF e
    <2>6. IsFiniteSet(ToRecord') /\ Cardinality(ToRecord') = Cardinality(ToRecord) - 1
      BY <2>2, <2>4, <2>5, FS_RemoveElement, Zenon
    <2>7. Cardinality(ToRecord) \in Nat
      BY <2>5, FS_CardinalityType
    <2>8. write_index + Cardinality(ToRecord) <= MaxRecords * Cardinality(Writers)
      BY <1>i DEF BoundInv
    <2>9. write_index' + Cardinality(ToRecord') = write_index + Cardinality(ToRecord)
      BY <2>6, <2>7, <1>1
    <2> QED BY <2>6, <2>8, <2>9, Zenon DEF BoundInv
  <1> QED BY <1>5, <1>6, <1>7, <1>8, <1>9, <1>10 DEF MemInv

\* Fresh regions, and as many events to record as the scene has.
LEMMA MemoryInitInv ==
  ASSUME NEW records \in [Writers -> 0 .. MaxRecords], MemoryInit(records)
  PROVE  MemInv
  <1> USE TelemetryAssumption DEF MemoryInit
  <1>1. \A t \in Writers : /\ wr[t] \in WriterStates /\ wr[t].idx = Nothing /\ wr[t].left = records[t]
                           /\ wr[t].pc = IF t = Receive THEN "config" ELSE "start"
    <2>1. \A t \in Writers : records[t] \in Nat
      OBVIOUS
    <2>2. \A t \in Writers : wr[t] = [pc |-> IF t = Receive THEN "config" ELSE "start", lat |-> 0, cur |-> 0,
                                      idx |-> Nothing, left |-> records[t]]
      OBVIOUS
    <2> QED BY <2>1, <2>2 DEF WriterStates, Nothing
  <1>2. MemoryType
    <2>1. wr \in [Writers -> WriterStates]
      BY <1>1
    <2>2. slots \in [0 .. RingCap - 1 -> [Parts -> Int]]
      BY DEF Nothing
    <2> QED BY <2>1, <2>2, Zenon DEF MemoryType
  <1>3. StartInv
    BY <1>1 DEF StartInv, At, Writers, Updating
  <1>4. CountInv /\ MaxInv
    <2>1. \A t \in Workers : wr[t].pc \notin Updating
      BY <1>1 DEF Writers, Updating
    <2>2. Counting = {} /\ Owed = {}
      BY <2>1 DEF Counting, Owed, At, Updating
    <2>3. CountInv
      BY <2>2, FS_EmptySet DEF CountInv
    <2> QED BY <2>1, <2>3 DEF MaxInv, At, Updating
  <1>5. IndexInv /\ RingInv
    BY <1>1 DEF IndexInv, RingInv, InRecord, Nothing
  <1>6. BoundInv
    <2> DEFINE U == Writers \X (1 .. MaxRecords)
    <2>1. IsFiniteSet(Writers)
      <3>1. IsFiniteSet(Workers)
        OBVIOUS
      <3> QED BY <3>1, FS_AddElement DEF Writers
    <2>2. IsFiniteSet(1 .. MaxRecords) /\ Cardinality(1 .. MaxRecords) = MaxRecords
      BY FS_Interval
    <2>3. IsFiniteSet(U) /\ Cardinality(U) = Cardinality(Writers) * Cardinality(1 .. MaxRecords)
      BY <2>1, <2>2, FS_Product, Zenon
    <2>4. \A t \in Writers : Ahead(t) \in 0 .. MaxRecords
      BY <1>1 DEF Ahead, Updating
    <2>5. ToRecord \subseteq U
      BY <2>4 DEF ToRecord
    <2> HIDE DEF U
    <2>6. IsFiniteSet(ToRecord) /\ Cardinality(ToRecord) <= Cardinality(U)
      BY <2>3, <2>5, FS_Subset
    <2>7. Cardinality(Writers) \in Nat /\ Cardinality(U) \in Nat /\ Cardinality(ToRecord) \in Nat
      BY <2>1, <2>3, <2>6, FS_CardinalityType
    <2>8. Cardinality(U) = MaxRecords * Cardinality(Writers)
      BY <2>2, <2>3, <2>7
    <2> QED BY <2>6, <2>7, <2>8 DEF BoundInv
  <1> QED BY <1>2, <1>3, <1>4, <1>5, <1>6 DEF MemInv

\* Every step of the writers keeps the invariant of the memory.
LEMMA MemoryNextInv == ASSUME MemInv, MemoryNext PROVE MemInv'
  <1>1. ASSUME NEW t \in Writers, Write(t) PROVE MemInv'
    BY <1>1, PopInv, CountStepInv, LoadMaxInv, CasMaxInv, ReceivedInv, ClaimInv, WritePartInv DEF Write
  <1> QED BY <1>1, ConfigInv DEF MemoryNext

\* What the invariant says once everybody is done.
LEMMA MemInvSettles == ASSUME MemInv PROVE MemorySettled
  <1>i. /\ MemoryType /\ StartInv /\ CountInv /\ MaxInv /\ IndexInv /\ RingInv /\ BoundInv
    BY DEF MemInv
  <1>1. ASSUME \A t \in Workers : wr[t].pc \notin {"count", "load", "max"}
        PROVE  stats.processed = truth.n /\ stats.total = truth.sum /\ stats.max = truth.max
    <2>1. Counting = {} /\ Owed = {}
      BY <1>1 DEF Counting, Owed, At
    <2>2. Cardinality(Counting) = 0 /\ Cardinality(Owed) = 0
      BY <2>1, FS_EmptySet
    <2>3. stats.processed = truth.n /\ stats.total = truth.sum
      BY <2>2, <1>i DEF CountInv, MemoryType
    <2>4. stats.max = truth.max
      BY <1>1, <1>i DEF MaxInv, Updating
    <2> QED BY <2>3, <2>4
  <1>2. ASSUME ~lapped, \A t \in Writers : wr[t].idx = Nothing
        PROVE  \A i \in 0 .. write_index - 1 : i >= write_index - RingCap =>
                 \A p \in Parts : slots[Slot(i)][p] = i
    <2>1. \A i \in 0 .. write_index - 1, p \in Parts : ~Unwritten(i, p)
      BY <1>2, <1>i DEF Unwritten, Nothing, MemoryType
    <2> QED BY <2>1, <1>2, <1>i DEF RingInv
  <1> QED BY <1>1, <1>2 DEF MemorySettled

\* Every step of the memory and the bridge keeps both invariants.
LEMMA BridgeNextInv == ASSUME MemInv, BridgeInv, BridgeNext PROVE MemInv' /\ BridgeInv'
  <1>0. eintr \in {"none", "accept", "main"}
    BY DEF BridgeInv, BridgeType
  <1>1. CASE MemoryStep
    BY <1>1, MemoryNextInv, MemoryStepBridge DEF MemoryStep
  <1>2. ASSUME UNCHANGED memory PROVE MemInv'
    BY <1>2, MemoryStutters
  <1>3. CASE PeerStep
    <2>1. UNCHANGED memory /\ UNCHANGED <<fd, clients, acceptor, bridgeVars>> /\ eintr' = eintr
      BY <1>3 DEF PeerStep, Arrives, Talks, TalksNonsense, Stalls, Reads, Leaves, PeerMoves
    <2> QED BY <2>1, <1>0, <1>2, OthersBridge
  <1>4. CASE Signal
    <2>1. UNCHANGED memory /\ UNCHANGED <<fd, clients, acceptor, bridgeVars>>
      BY <1>4 DEF Signal, serverVars
    <2>2. eintr' \in {"none", "accept", "main"}
      BY <1>4 DEF Signal
    <2> QED BY <2>1, <2>2, <1>2, OthersBridge
  <1>5. CASE Over
    <2>1. UNCHANGED memory /\ UNCHANGED <<fd, clients, acceptor, bridgeVars>> /\ eintr' = eintr
      BY <1>5 DEF Over, vars, serverVars
    <2> QED BY <2>1, <1>0, <1>2, OthersBridge
  <1>6. CASE AcceptThread
    <2>1. UNCHANGED memory
      BY <1>6 DEF AcceptThread, Accept, HandshakeOk, HandshakeFails, Push, AcceptEnds, acceptOnly
    <2> QED BY <2>1, <1>2, <1>6, AcceptBridge
  <1>7. CASE MainThread
    <2>1. UNCHANGED memory
      BY <1>7 DEF MainThread, Check, ReadConfig, LoadIndex, ReadSlot, SlotsRead, Lock, SendOk, SendFails,
                  EndBroadcast, Stop, Join, bridgeOnly
    <2> QED BY <2>1, <1>2, <1>7, MainBridge
  <1> QED BY <1>1, <1>3, <1>4, <1>5, <1>6, <1>7 DEF BridgeNext

\* Nothing is open and nothing was read when the bridge starts.
LEMMA SceneInitInv == ASSUME NEW sc \in Scenes, SceneInit(sc) PROVE MemInv /\ BridgeInv
  <1>1. MemInv
    BY ScenesAssumption, MemoryInitInv DEF SceneInit
  <1>2. write_index = 0
    BY DEF SceneInit, MemoryInit
  <1>3. BridgeType
    BY DEF SceneInit, BridgeType, BridgeStates, NoPeer
  <1>4. SeenInv
    <2>1. Upto = 0 /\ seen = << >> /\ skipped = {}
      BY DEF SceneInit, Upto, BridgeAt
    <2>2. Range(seen) = {} /\ DOMAIN seen = {}
      BY <2>1, RangeEmpty
    <2> QED BY <2>1, <2>2, <1>2 DEF SceneInit, SeenInv
  <1>5. DescInv
    BY RangeEmpty DEF SceneInit, DescInv, InHand, Listed, BridgeAt
  <1> QED BY <1>1, <1>3, <1>4, <1>5 DEF BridgeInv

\* What the invariant says of the properties.
LEMMA BridgeInvMeans == ASSUME MemInv, BridgeInv PROVE EachEventOnce /\ DescriptorsExact
  <1>i. MemoryType /\ BoundInv /\ BridgeType /\ SeenInv /\ DescInv
    BY DEF MemInv, BridgeInv
  <1>1. TypeOK
    <2>1. Cardinality(ToRecord) \in Nat
      BY <1>i, FS_CardinalityType DEF BoundInv
    <2>2. IsFiniteSet(Writers)
      BY TelemetryAssumption, FS_AddElement DEF Writers
    <2>3. Cardinality(Writers) \in Nat
      BY <2>2, FS_CardinalityType
    <2>4. MaxRecords * Cardinality(Writers) \in Nat
      BY <2>3, TelemetryAssumption
    <2>5. write_index \in 0 .. MaxRecords * Cardinality(Writers)
      BY <2>1, <2>4, <1>i DEF BoundInv, MemoryType
    <2>6. bridge.pos \in 0 .. bridge.current
      BY <1>i DEF BridgeType, BridgeStates, SeenInv
    <2> QED BY <2>5, <2>6, <1>i DEF TypeOK, BridgeType, SeenInv, DescInv
  <1>2. EachEventOnce
    BY <1>1, <1>i DEF EachEventOnce, SeenInv, Upto
  <1>3. BridgeAt("send") => Range(bridge.todo \o bridge.alive) = Range(bridge.todo) \cup Range(bridge.alive)
    BY <1>i, RangeConcat DEF BridgeType, BridgeStates
  <1>4. DescriptorsExact
    BY <1>3, <1>i DEF DescriptorsExact, DescInv, InHand, Listed
  <1> QED BY <1>2, <1>4

\* The chain starts in the invariant.
LEMMA InitIInv == Init => IInv
  <1> SUFFICES ASSUME NEW sc \in Scenes, SceneInit(sc), HubInit(sc.page) PROVE IInv
    BY DEF Init
  <1>1. sc.page \in BOOLEAN
    BY ScenesAssumption
  <1> QED BY <1>1, SceneInitInv, HubInitInv DEF IInv

\* Every step of the chain keeps the invariant.
LEMMA NextIInv == IInv /\ [Next]_chainVars => IInv'
  <1> SUFFICES ASSUME IInv, [Next]_chainVars PROVE IInv'
    OBVIOUS
  <1>i. MemInv /\ BridgeInv /\ HubInv
    BY DEF IInv
  <1>0. eintr \in {"none", "accept", "main"}
    BY <1>i DEF BridgeInv, BridgeType
  <1>1. ASSUME UNCHANGED vars PROVE MemInv' /\ BridgeInv'
    <2>1. UNCHANGED memory /\ UNCHANGED <<fd, clients, acceptor, bridgeVars>> /\ eintr' = eintr
      BY <1>1 DEF vars, serverVars
    <2> QED BY <2>1, <1>0, <1>i, MemoryStutters, OthersBridge
  <1>2. ASSUME UNCHANGED hubVars PROVE HubInv'
    BY <1>2, <1>i DEF hubVars, HubInv, HubType, SourceHonest
  <1>3. CASE ~InPageScene /\ BridgeNext /\ UNCHANGED hubVars
    BY <1>2, <1>3, <1>i, BridgeNextInv DEF IInv
  <1>4. CASE InPageScene /\ HubNext /\ UNCHANGED vars
    BY <1>1, <1>4, <1>i, HubNextInv DEF IInv
  <1>5. CASE UNCHANGED chainVars
    BY <1>1, <1>2, <1>5 DEF chainVars, IInv
  <1> QED BY <1>3, <1>4, <1>5 DEF Next

\* The invariant holds, whatever the writers, the bridge's two threads, the browsers,
\* the signal and the page do.
THEOREM ChainInvariance == Spec => []IInv
  BY InitIInv, NextIInv, PTL DEF Spec

\* No update of the counters or of the maximum is lost (worker_run), and when no
\* writer is inside event_ring_record the last RingCap events are whole, unless one
\* writer overtook another by a lap.
THEOREM MemorySettles == Spec => []MemorySettled
  <1>1. IInv => MemorySettled
    BY MemInvSettles DEF IInv
  <1> QED BY <1>1, ChainInvariance, PTL

\* telemetry_bridge reads each event once and in order, and passes over only what the
\* ring had overwritten; the configuration is shown whole or not at all.
THEOREM EventsShownOnce == Spec => []EachEventOnce
  <1>1. IInv => EachEventOnce
    BY BridgeInvMeans DEF IInv
  <1> QED BY <1>1, ChainInvariance, PTL

\* WebSocketServer leaks no descriptor and uses none after it is closed, with a
\* broadcast, the accept thread and stop() in any order.
THEOREM DescriptorsAreExact == Spec => []DescriptorsExact
  <1>1. IInv => DescriptorsExact
    BY BridgeInvMeans DEF IInv
  <1> QED BY <1>1, ChainInvariance, PTL

\* FeedHub shows simulated numbers under the label DEMO and only there, and has at
\* most one thing that will connect again.
THEOREM SourceIsHonest == Spec => []SourceHonest
  <1>1. IInv => SourceHonest
    BY DEF IInv, HubInv
  <1> QED BY <1>1, ChainInvariance, PTL
=============================================================================
