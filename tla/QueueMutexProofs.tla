-------------------------- MODULE QueueMutexProofs --------------------------
(***************************************************************************)
(* The blocking queue is correct for every number of producers and workers *)
(* and every capacity: it is a FIFO, and no wakeup is lost.                *)
(***************************************************************************)
EXTENDS QueueMutex, FiniteSetTheorems, TLAPS

\* Woken threads can be counted, and one thread changes the count by one at most.
LEMMA WokenCount ==
  ASSUME NEW S, IsFiniteSet(S), NEW t
  PROVE  /\ Cardinality(S) \in Nat
         /\ IsFiniteSet(S \cup {t}) /\ IsFiniteSet(S \ {t})
         /\ Cardinality(S \cup {t}) = IF t \in S THEN Cardinality(S) ELSE Cardinality(S) + 1
         /\ Cardinality(S \ {t}) \in Nat /\ Cardinality(S \ {t}) >= Cardinality(S) - 1
  <1>1. /\ Cardinality(S) \in Nat
        /\ IsFiniteSet(S \cup {t}) /\ IsFiniteSet(S \ {t})
        /\ Cardinality(S \cup {t}) = IF t \in S THEN Cardinality(S) ELSE Cardinality(S) + 1
        /\ Cardinality(S \ {t}) = IF t \in S THEN Cardinality(S) - 1 ELSE Cardinality(S)
    BY FS_CardinalityType, FS_AddElement, FS_RemoveElement
  <1>2. Cardinality(S \ {t}) \in Nat
    BY <1>1, FS_CardinalityType
  <1> QED BY <1>1, <1>2

LEMMA WokenFinite == IsFiniteSet(Woken(Producers)) /\ IsFiniteSet(Woken(Consumers))
  BY QueueAssumption, FS_Subset DEF Woken

\* What a thread's own way out of a call, and the one wakeup it sends, do to the
\* threads of either kind.
LEMMA NotifyOneEffect ==
  ASSUME TypeOK, NEW T, NEW U, T \cup U = Threads, T \cap U = {},
         NEW t \in T, pc[t] \in {"out", "woken"}, NotifyOne(t, "out", U)
  PROVE  /\ pc' \in [Threads -> {"out", "wait", "woken", "done"}]
         /\ Waiting(T)' = Waiting(T)
         /\ Woken(T)' = Woken(T) \ {t}
         /\ \/ Waiting(U) = {} /\ Waiting(U)' = {} /\ Woken(U)' = Woken(U)
            \/ \E u \in Waiting(U) : /\ u \notin Woken(U)
                                     /\ Waiting(U)' = Waiting(U) \ {u}
                                     /\ Woken(U)' = Woken(U) \cup {u}
  <1>1. CASE Waiting(U) = {}
    <2>1. pc' = [u \in Threads |-> IF u = t THEN "out" ELSE pc[u]]
      BY <1>1 DEF NotifyOne, Goes
    <2> QED BY <1>1, <2>1 DEF Waiting, Woken, TypeOK
  <1>2. CASE Waiting(U) # {}
    <2>1. PICK u \in Waiting(U) :
             pc' = [v \in Threads |-> IF v = t THEN "out" ELSE IF v = u THEN "woken" ELSE pc[v]]
      BY <1>2 DEF NotifyOne, Goes
    <2>2. u \in U /\ u \notin T /\ pc[u] = "wait" /\ u # t
      BY DEF Waiting
    <2>3. pc' \in [Threads -> {"out", "wait", "woken", "done"}]
      BY <2>1 DEF TypeOK
    <2>4. Waiting(T)' = Waiting(T) /\ Woken(T)' = Woken(T) \ {t}
      BY <2>1, <2>2 DEF Waiting, Woken, TypeOK
    <2>5. Waiting(U)' = Waiting(U) \ {u} /\ Woken(U)' = Woken(U) \cup {u} /\ u \notin Woken(U)
      BY <2>1, <2>2 DEF Waiting, Woken, TypeOK
    <2> QED BY <2>3, <2>4, <2>5
  <1> QED BY <1>1, <1>2
----------------------------------------------------------------------------
(* Counting round the ring.                                                 *)

LEMMA ModUnique ==
  ASSUME NEW n \in Nat, NEW q \in Int, NEW r \in 0 .. Cap - 1, n = Cap * q + r
  PROVE  n % Cap = r
  <1> USE QueueAssumption
  <1>1. n = Cap * (n \div Cap) + (n % Cap) /\ n % Cap \in 0 .. Cap - 1 /\ n \div Cap \in Int
    OBVIOUS
  <1> DEFINE d == q - (n \div Cap)
  <1>2. Cap * d = (n % Cap) - r /\ d \in Int
    BY <1>1
  <1> HIDE DEF d
  <1>3. CASE d <= -1
    <2>1. Cap * d <= 0 - Cap
      BY <1>2, <1>3
    <2> QED BY <2>1, <1>1, <1>2
  <1>4. CASE d >= 1
    <2>1. Cap * d >= Cap
      BY <1>2, <1>4
    <2> QED BY <2>1, <1>1, <1>2
  <1>5. CASE d = 0
    <2>1. Cap * d = 0
      BY <1>5
    <2> QED BY <2>1, <1>1, <1>2
  <1> QED BY <1>2, <1>3, <1>4, <1>5

\* A step on is a step round the ring.
LEMMA ModNext ==
  ASSUME NEW n \in Nat
  PROVE  ((n % Cap) + 1) % Cap = (n + 1) % Cap /\ n % Cap \in 0 .. Cap - 1
  <1> USE QueueAssumption
  <1> DEFINE q == n \div Cap
             r == n % Cap
  <1>1. n = Cap * q + r /\ r \in 0 .. Cap - 1 /\ q \in Int
    OBVIOUS
  <1> HIDE DEF q, r
  <1>2. CASE r = Cap - 1
    <2>1. n + 1 = Cap * (q + 1) + 0 /\ r + 1 = Cap * 1 + 0
      BY <1>1, <1>2
    <2>2. (n + 1) % Cap = 0
      BY <2>1, <1>1, ModUnique
    <2>3. (r + 1) % Cap = 0
      BY <2>1, <1>1, ModUnique
    <2> QED BY <2>2, <2>3, <1>1 DEF r
  <1>3. CASE r < Cap - 1
    <2>1. n + 1 = Cap * q + (r + 1) /\ r + 1 = Cap * 0 + (r + 1)
      BY <1>1, <1>3
    <2>2. (n + 1) % Cap = r + 1
      BY <2>1, <1>1, <1>3, ModUnique
    <2>3. (r + 1) % Cap = r + 1
      BY <2>1, <1>1, <1>3, ModUnique
    <2> QED BY <2>2, <2>3, <1>1 DEF r
  <1> QED BY <1>1, <1>2, <1>3

\* Messages less than Cap apart are kept in different slots.
LEMMA SlotsApart ==
  ASSUME NEW a \in Nat, NEW b \in Nat, a < b, b < a + Cap
  PROVE  a % Cap # b % Cap
  <1> USE QueueAssumption
  <1> SUFFICES ASSUME a % Cap = b % Cap PROVE FALSE
    OBVIOUS
  <1>1. a = Cap * (a \div Cap) + (a % Cap) /\ a \div Cap \in Int /\ a % Cap \in Int
    OBVIOUS
  <1>2. b = Cap * (b \div Cap) + (b % Cap) /\ b \div Cap \in Int /\ b % Cap \in Int
    OBVIOUS
  <1> DEFINE d == (b \div Cap) - (a \div Cap)
  <1>3. b - a = Cap * d /\ d \in Int
    BY <1>1, <1>2
  <1> HIDE DEF d
  <1>4. CASE d <= 0
    <2>1. Cap * d <= 0
      BY <1>3, <1>4
    <2> QED BY <2>1, <1>3
  <1>5. CASE d >= 1
    <2>1. Cap * d >= Cap
      BY <1>3, <1>5
    <2> QED BY <2>1, <1>3
  <1> QED BY <1>3, <1>4, <1>5

\* The slot of the n-th message, counted from 0.
Slot(n) == n % Cap

LEMMA SlotFacts ==
  /\ \A n \in Nat : Slot(n) \in 0 .. Cap - 1
  /\ \A n \in Nat : (Slot(n) + 1) % Cap = Slot(n + 1)
  /\ \A a, b \in Nat : a < b /\ b < a + Cap => Slot(a) # Slot(b)
  /\ Slot(0) = 0
  <1>1. ASSUME NEW n \in Nat PROVE Slot(n) \in 0 .. Cap - 1 /\ (Slot(n) + 1) % Cap = Slot(n + 1)
    BY ModNext DEF Slot
  <1>2. ASSUME NEW a \in Nat, NEW b \in Nat, a < b, b < a + Cap PROVE Slot(a) # Slot(b)
    BY <1>2, SlotsApart DEF Slot
  <1>3. 0 % Cap = 0
    <2>1. 0 = Cap * 0 + 0 /\ 0 \in 0 .. Cap - 1
      BY QueueAssumption
    <2> QED BY <2>1, ModUnique
  <1> QED BY <1>1, <1>2, <1>3 DEF Slot

LEMMA FifoSlots ==
  Fifo <=> /\ Len(tape) = Len(got) + count
           /\ head = Slot(Len(got)) /\ tail = Slot(Len(tape))
           /\ \A i \in 1 .. Len(got) : got[i] = tape[i]
           /\ \A i \in 1 .. count : buf[Slot(Len(got) + i - 1)] = tape[Len(got) + i]
  BY Zenon DEF Fifo, Slot

LEMMA FifoSlotsNext ==
  ASSUME /\ Len(tape') = Len(got') + count'
         /\ head' = Slot(Len(got')) /\ tail' = Slot(Len(tape'))
         /\ \A i \in 1 .. Len(got') : got'[i] = tape'[i]
         /\ \A i \in 1 .. count' : buf'[Slot(Len(got') + i - 1)] = tape'[Len(got') + i]
  PROVE  Fifo'
  BY Zenon DEF Fifo, Slot
----------------------------------------------------------------------------
LEMMA InitIInv == Init => IInv
  <1> SUFFICES ASSUME Init PROVE IInv
    OBVIOUS
  <1> USE QueueAssumption DEF Init
  <1>1. TypeOK
    <2>1. buf \in [0 .. Cap - 1 -> Msgs \cup {Blank}] /\ arg \in [Producers -> Msgs \cup {Blank}]
      OBVIOUS
    <2>2. pc \in [Threads -> {"out", "wait", "woken", "done"}] /\ \A t \in Threads : pc[t] = "out"
      OBVIOUS
    <2>3. tape \in Seq(Msgs) /\ got \in Seq(Msgs)
      OBVIOUS
    <2>4. head \in 0 .. Cap - 1 /\ tail \in 0 .. Cap - 1 /\ count \in 0 .. Cap
      OBVIOUS
    <2>5. closed \in BOOLEAN
      BY Zenon
    <2>6. \A p \in Producers : pc[p] \notin {"wait", "woken"}
      BY <2>2 DEF Threads
    <2> HIDE DEF Init
    <2> QED BY <2>1, <2>2, <2>3, <2>4, <2>5, <2>6 DEF TypeOK
  <1>2. Fifo
    BY FifoSlots, SlotFacts
  <1>3. NoLostWakeup
    BY DEF NoLostWakeup, Waiting, Threads
  <1> QED BY <1>1, <1>2, <1>3 DEF IInv, Drained, Threads

\* The ring and the histories after a message was put in.
LEMMA InsertFifo ==
  ASSUME TypeOK, Fifo, NEW p, NEW m \in Msgs, count < Cap, Insert(p, m)
  PROVE  /\ Fifo'
         /\ buf' \in [0 .. Cap - 1 -> Msgs \cup {Blank}] /\ tail' \in 0 .. Cap - 1
         /\ tape' \in Seq(Msgs)
  <1> USE QueueAssumption
  <1> DEFINE n == Len(tape)
             g == Len(got)
  <1>1. /\ n \in Nat /\ g \in Nat /\ count \in Nat /\ n = g + count
        /\ tail = Slot(n) /\ head = Slot(g)
    BY FifoSlots DEF TypeOK
  <1>2. /\ tape' \in Seq(Msgs) /\ Len(tape') = n + 1 /\ tape'[n + 1] = m
        /\ \A i \in 1 .. n : tape'[i] = tape[i]
    BY DEF TypeOK, Insert
  <1>3. got' = got /\ head' = head /\ count' = count + 1 /\ buf' = [buf EXCEPT ![tail] = m]
    BY DEF Insert
  <1>4. tail' = Slot(n + 1) /\ tail' \in 0 .. Cap - 1
    BY <1>1, SlotFacts DEF Insert
  <1>5. buf' \in [0 .. Cap - 1 -> Msgs \cup {Blank}] /\ buf'[Slot(n)] = m
        /\ \A s \in 0 .. Cap - 1 : s # Slot(n) => buf'[s] = buf[s]
    BY <1>1, <1>3 DEF TypeOK
  <1>6. \A i \in 1 .. count + 1 : buf'[Slot(g + i - 1)] = tape'[g + i]
    <2> TAKE i \in 1 .. count + 1
    <2>1. CASE i = count + 1
      <3>1. g + i - 1 = n /\ g + i = n + 1
        BY <2>1, <1>1
      <3> QED BY <3>1, <1>2, <1>5
    <2>2. CASE i \in 1 .. count
      <3>1. g + i - 1 \in Nat /\ g + i - 1 < n /\ n < (g + i - 1) + Cap /\ g + i \in 1 .. n
        BY <2>2, <1>1
      <3>2. Slot(g + i - 1) # Slot(n) /\ Slot(g + i - 1) \in 0 .. Cap - 1
        BY <3>1, <1>1, SlotFacts
      <3>3. buf'[Slot(g + i - 1)] = buf[Slot(g + i - 1)]
        BY <1>5, <3>2
      <3> QED BY <2>2, <3>1, <3>3, <1>2, FifoSlots
    <2> QED BY <2>1, <2>2, <1>1
  <1>7. \A i \in 1 .. g : got[i] = tape'[i]
    BY <1>1, <1>2, FifoSlots
  <1>8. Fifo'
    BY <1>1, <1>2, <1>3, <1>4, <1>6, <1>7, FifoSlotsNext
  <1> QED BY <1>2, <1>4, <1>5, <1>8

\* The ring and the histories after a message was taken out.
LEMMA RemoveFifo ==
  ASSUME TypeOK, Fifo, NEW c, count > 0, Remove(c)
  PROVE  Fifo' /\ head' \in 0 .. Cap - 1 /\ got' \in Seq(Msgs)
  <1> USE QueueAssumption
  <1> DEFINE n == Len(tape)
             g == Len(got)
  <1>1. /\ n \in Nat /\ g \in Nat /\ count \in Nat \ {0} /\ n = g + count
        /\ tail = Slot(n) /\ head = Slot(g)
    BY FifoSlots DEF TypeOK
  <1>2. tape' = tape /\ tail' = tail /\ buf' = buf /\ count' = count - 1
        /\ got' = Append(got, buf[head])
    BY DEF Remove
  <1>3. buf[head] = tape[g + 1] /\ tape[g + 1] \in Msgs
    <2>1. 1 \in 1 .. count /\ g + 1 - 1 = g /\ g + 1 \in 1 .. n
      BY <1>1
    <2>2. buf[Slot(g + 1 - 1)] = tape[g + 1]
      BY <2>1, FifoSlots
    <2> QED BY <2>1, <2>2, <1>1 DEF TypeOK
  <1>4. /\ got' \in Seq(Msgs) /\ Len(got') = g + 1 /\ got'[g + 1] = tape[g + 1]
        /\ \A i \in 1 .. g : got'[i] = got[i]
    BY <1>2, <1>3 DEF TypeOK
  <1>5. head' = Slot(g + 1) /\ head' \in 0 .. Cap - 1
    BY <1>1, SlotFacts DEF Remove
  <1>6. \A i \in 1 .. count - 1 : buf[Slot(g + 1 + i - 1)] = tape[g + 1 + i]
    <2> TAKE i \in 1 .. count - 1
    <2>1. i + 1 \in 1 .. count /\ g + (i + 1) - 1 = g + 1 + i - 1 /\ g + (i + 1) = g + 1 + i
      BY <1>1
    <2> QED BY <2>1, FifoSlots, Zenon
  <1>7. \A i \in 1 .. g + 1 : got'[i] = tape[i]
    BY <1>1, <1>4, FifoSlots
  <1>8. Fifo'
    BY <1>1, <1>2, <1>4, <1>5, <1>6, <1>7, FifoSlotsNext
  <1> QED BY <1>4, <1>5, <1>8
----------------------------------------------------------------------------
\* A push that has room, whether the call is new or was woken.
LEMMA InsertIInv ==
  ASSUME IInv, NEW p \in Producers, NEW m \in Msgs, pc[p] \in {"out", "woken"},
         ~closed, count < Cap, Insert(p, m)
  PROVE  IInv'
  <1> USE QueueAssumption
  <1>1. /\ TypeOK /\ Fifo /\ NoLostWakeup /\ Drained
        /\ count \in Nat /\ count' = count + 1 /\ closed' = closed /\ arg' = arg
        /\ Producers \cup Consumers = Threads /\ NotifyOne(p, "out", Consumers)
    BY DEF IInv, TypeOK, Insert, Threads
  <1>2. /\ Fifo'
        /\ buf' \in [0 .. Cap - 1 -> Msgs \cup {Blank}] /\ tail' \in 0 .. Cap - 1
        /\ tape' \in Seq(Msgs)
    BY <1>1, InsertFifo
  <1>3. /\ pc' \in [Threads -> {"out", "wait", "woken", "done"}]
        /\ Waiting(Producers)' = Waiting(Producers)
        /\ Woken(Producers)' = Woken(Producers) \ {p}
        /\ \/ Waiting(Consumers) = {} /\ Waiting(Consumers)' = {} /\ Woken(Consumers)' = Woken(Consumers)
           \/ \E u \in Waiting(Consumers) : /\ u \notin Woken(Consumers)
                                            /\ Waiting(Consumers)' = Waiting(Consumers) \ {u}
                                            /\ Woken(Consumers)' = Woken(Consumers) \cup {u}
    BY <1>1, NotifyOneEffect
  <1>4. TypeOK'
    <2>1. \A q \in Producers : pc'[q] \in {"wait", "woken"} => pc[q] \in {"wait", "woken"}
      BY <1>1, <1>3 DEF Waiting, Woken
    <2> QED BY <1>1, <1>2, <1>3, <2>1 DEF TypeOK, Insert
  <1>5. Waiting(Producers)' # {} => Cap - count' <= Cardinality(Woken(Producers)')
    <2>1. /\ Cardinality(Woken(Producers)) \in Nat /\ Cardinality(Woken(Producers) \ {p}) \in Nat
          /\ Cardinality(Woken(Producers) \ {p}) >= Cardinality(Woken(Producers)) - 1
      BY WokenFinite, WokenCount, Zenon
    <2>2. Waiting(Producers) # {} => Cap - count <= Cardinality(Woken(Producers))
      BY <1>1 DEF NoLostWakeup
    <2> QED BY <1>1, <1>3, <2>1, <2>2
  <1>6. Waiting(Consumers)' # {} => count' <= Cardinality(Woken(Consumers)')
    <2> SUFFICES ASSUME Waiting(Consumers)' # {} PROVE count' <= Cardinality(Woken(Consumers)')
      OBVIOUS
    <2>1. PICK u \in Waiting(Consumers) : u \notin Woken(Consumers) /\ Woken(Consumers)' = Woken(Consumers) \cup {u}
      BY <1>3
    <2>2. /\ Cardinality(Woken(Consumers)) \in Nat
          /\ Cardinality(Woken(Consumers) \cup {u}) = Cardinality(Woken(Consumers)) + 1
      BY <2>1, WokenFinite, WokenCount, Zenon
    <2>3. count <= Cardinality(Woken(Consumers))
      BY <1>1, <2>1 DEF NoLostWakeup
    <2> QED BY <1>1, <2>1, <2>2, <2>3
  <1>7. NoLostWakeup'
    BY <1>1, <1>5, <1>6 DEF NoLostWakeup
  <1>8. Drained'
    <2>1. \A c \in Consumers : pc[c] # "done"
      BY <1>1 DEF Drained
    <2>2. \A c \in Consumers : pc'[c] # "done"
      BY <1>1, <2>1 DEF NotifyOne, Goes, Waiting
    <2> QED BY <2>2 DEF Drained
  <1> QED BY <1>2, <1>4, <1>7, <1>8 DEF IInv

\* A pop that finds a message.
LEMMA RemoveIInv ==
  ASSUME IInv, NEW c \in Consumers, pc[c] \in {"out", "woken"}, count > 0, Remove(c)
  PROVE  IInv'
  <1> USE QueueAssumption
  <1>1. /\ TypeOK /\ Fifo /\ NoLostWakeup /\ Drained
        /\ count \in Nat /\ count' = count - 1 /\ closed' = closed /\ arg' = arg
        /\ Consumers \cup Producers = Threads /\ NotifyOne(c, "out", Producers)
    BY DEF IInv, TypeOK, Remove, Threads
  <1>2. Fifo' /\ head' \in 0 .. Cap - 1 /\ got' \in Seq(Msgs)
    BY <1>1, RemoveFifo
  <1>3. /\ pc' \in [Threads -> {"out", "wait", "woken", "done"}]
        /\ Waiting(Consumers)' = Waiting(Consumers)
        /\ Woken(Consumers)' = Woken(Consumers) \ {c}
        /\ \/ Waiting(Producers) = {} /\ Waiting(Producers)' = {} /\ Woken(Producers)' = Woken(Producers)
           \/ \E u \in Waiting(Producers) : /\ u \notin Woken(Producers)
                                            /\ Waiting(Producers)' = Waiting(Producers) \ {u}
                                            /\ Woken(Producers)' = Woken(Producers) \cup {u}
    BY <1>1, NotifyOneEffect
  <1>4. TypeOK'
    <2>1. \A q \in Producers : pc'[q] \in {"wait", "woken"} => pc[q] \in {"wait", "woken"}
      BY <1>1, <1>3 DEF Waiting, Woken
    <2> QED BY <1>1, <1>2, <1>3, <2>1 DEF TypeOK, Remove
  <1>5. Waiting(Consumers)' # {} => count' <= Cardinality(Woken(Consumers)')
    <2>1. /\ Cardinality(Woken(Consumers)) \in Nat /\ Cardinality(Woken(Consumers) \ {c}) \in Nat
          /\ Cardinality(Woken(Consumers) \ {c}) >= Cardinality(Woken(Consumers)) - 1
      BY WokenFinite, WokenCount, Zenon
    <2>2. Waiting(Consumers) # {} => count <= Cardinality(Woken(Consumers))
      BY <1>1 DEF NoLostWakeup
    <2> QED BY <1>1, <1>3, <2>1, <2>2
  <1>6. Waiting(Producers)' # {} => Cap - count' <= Cardinality(Woken(Producers)')
    <2> SUFFICES ASSUME Waiting(Producers)' # {} PROVE Cap - count' <= Cardinality(Woken(Producers)')
      OBVIOUS
    <2>1. PICK u \in Waiting(Producers) : u \notin Woken(Producers) /\ Woken(Producers)' = Woken(Producers) \cup {u}
      BY <1>3
    <2>2. /\ Cardinality(Woken(Producers)) \in Nat
          /\ Cardinality(Woken(Producers) \cup {u}) = Cardinality(Woken(Producers)) + 1
      BY <2>1, WokenFinite, WokenCount
    <2>3. Cap - count <= Cardinality(Woken(Producers))
      BY <1>1, <2>1 DEF NoLostWakeup
    <2> QED BY <1>1, <2>1, <2>2, <2>3
  <1>7. closed' => Waiting(Threads)' = {}
    <2> SUFFICES ASSUME closed' PROVE Waiting(Threads)' = {}
      OBVIOUS
    <2>1. \A t \in Threads : pc[t] # "wait"
      BY <1>1 DEF NoLostWakeup, Waiting
    <2>2. \A t \in Threads : pc'[t] # "wait"
      BY <1>1, <2>1 DEF NotifyOne, Goes, Waiting
    <2> QED BY <2>2 DEF Waiting
  <1>8. NoLostWakeup'
    BY <1>5, <1>6, <1>7 DEF NoLostWakeup
  <1>9. Drained'
    <2>1. \A d \in Consumers : pc[d] # "done"
      BY <1>1 DEF Drained
    <2>2. \A d \in Consumers : pc'[d] # "done"
      BY <1>1, <2>1 DEF NotifyOne, Goes, Waiting
    <2> QED BY <2>2 DEF Drained
  <1> QED BY <1>2, <1>4, <1>8, <1>9 DEF IInv

\* Fifo, and most of TypeOK, do not depend on where the threads are.
LEMMA RingUnchanged ==
  ASSUME IInv, UNCHANGED <<buf, head, tail, count, tape, got>>,
         closed' \in BOOLEAN, pc' \in [Threads -> {"out", "wait", "woken", "done"}],
         arg' \in [Producers -> Msgs \cup {Blank}],
         \A p \in Producers : pc'[p] \in {"wait", "woken"} => arg'[p] \in Msgs
  PROVE  TypeOK' /\ Fifo'
  <1>1. TypeOK'
    BY DEF IInv, TypeOK
  <1>2. Fifo'
    BY Zenon DEF IInv, Fifo
  <1> QED BY <1>1, <1>2

LEMMA ToldClosedIInv ==
  ASSUME IInv, NEW t \in Threads, closed, t \in Consumers => count = 0, ToldClosed(t)
  PROVE  IInv'
  <1> USE DEF IInv, ToldClosed
  <1>1. \A u \in Threads : pc[u] # "wait" /\ pc'[u] = IF u = t THEN "done" ELSE pc[u]
    BY DEF TypeOK, NoLostWakeup, Waiting
  <1>2. TypeOK' /\ Fifo'
    <2>1. \A p \in Producers : pc'[p] \in {"wait", "woken"} => arg'[p] \in Msgs
      BY <1>1 DEF TypeOK, Threads
    <2> QED BY <2>1, RingUnchanged DEF TypeOK
  <1>3. NoLostWakeup'
    BY <1>1 DEF NoLostWakeup, Waiting, Threads
  <1>4. Drained'
    BY <1>1 DEF Drained, Threads
  <1> QED BY <1>2, <1>3, <1>4

\* A thread goes to sleep only when there is nothing to wake it for.
LEMMA SleepIInv ==
  ASSUME IInv, NEW t \in Threads, ~closed, pc[t] \in {"out", "woken"}, Sleep(t),
         \/ t \in Consumers /\ count = 0 /\ arg' = arg
         \/ \E m \in Msgs : t \in Producers /\ count = Cap /\ arg' = [arg EXCEPT ![t] = m]
  PROVE  IInv'
  <1> USE QueueAssumption DEF IInv, Sleep
  <1>1. \A u \in Threads : pc'[u] = IF u = t THEN "wait" ELSE pc[u]
    BY DEF TypeOK
  <1>2. TypeOK' /\ Fifo'
    <2>1. arg' \in [Producers -> Msgs \cup {Blank}]
      BY DEF TypeOK
    <2>2. \A p \in Producers : pc'[p] \in {"wait", "woken"} => arg'[p] \in Msgs
      BY <1>1 DEF TypeOK, Threads
    <2> QED BY <2>1, <2>2, RingUnchanged DEF TypeOK
  <1>3. NoLostWakeup'
    <2>1. /\ Cardinality(Woken(Producers)) \in Nat /\ Cardinality(Woken(Consumers)) \in Nat
          /\ Cardinality(Woken(Producers)') \in Nat /\ Cardinality(Woken(Consumers)') \in Nat
      BY FS_CardinalityType, FS_Subset DEF Woken
    <2>2. CASE t \in Consumers
      <3>1. Waiting(Producers)' = Waiting(Producers) /\ Woken(Producers)' = Woken(Producers)
        BY <1>1, <2>2 DEF Waiting, Woken, Threads
      <3>2. count' = 0
        BY <2>2
      <3> QED BY <2>1, <3>1, <3>2 DEF NoLostWakeup
    <2>3. CASE t \in Producers
      <3>1. Waiting(Consumers)' = Waiting(Consumers) /\ Woken(Consumers)' = Woken(Consumers)
        BY <1>1, <2>3 DEF Waiting, Woken, Threads
      <3>2. count' = count /\ Cap - count' = 0
        BY <2>3
      <3> QED BY <2>1, <3>1, <3>2 DEF NoLostWakeup
    <2> QED BY <2>2, <2>3
  <1>4. Drained'
    BY <1>1 DEF Drained, Threads
  <1> QED BY <1>2, <1>3, <1>4

LEMMA SpuriousIInv == ASSUME IInv, NEW t \in Threads, Spurious(t) PROVE IInv'
  <1> USE QueueAssumption DEF IInv, Spurious
  <1>1. \A u \in Threads : pc'[u] = IF u = t THEN "woken" ELSE pc[u]
    BY DEF TypeOK
  <1>2. TypeOK' /\ Fifo'
    <2>1. \A p \in Producers : pc'[p] \in {"wait", "woken"} => arg'[p] \in Msgs
      BY <1>1 DEF TypeOK, Threads
    <2> QED BY <2>1, RingUnchanged DEF TypeOK
  <1>3. ASSUME NEW T \in {Producers, Consumers}
        PROVE  /\ Waiting(T)' \subseteq Waiting(T)
               /\ Cardinality(Woken(T)) \in Nat /\ Cardinality(Woken(T)') \in Nat
               /\ Cardinality(Woken(T)) <= Cardinality(Woken(T)')
    <2>1. Waiting(T)' \subseteq Waiting(T) /\ Woken(T) \subseteq Woken(T)'
      BY <1>1 DEF Waiting, Woken, Threads
    <2>2. IsFiniteSet(Woken(T)')
      BY FS_Subset DEF Woken
    <2> QED BY <2>1, <2>2, FS_Subset, FS_CardinalityType
  <1>4. NoLostWakeup'
    <2>1. count' = count /\ count \in Nat /\ closed' = closed /\ ~closed
      BY DEF TypeOK, NoLostWakeup, Waiting
    <2> QED BY <1>3, <2>1 DEF NoLostWakeup
  <1>5. Drained'
    BY <1>1 DEF Drained, Threads
  <1> QED BY <1>2, <1>4, <1>5

LEMMA CloseIInv == ASSUME IInv, Close PROVE IInv'
  <1> USE DEF IInv, Close
  <1>1. \A u \in Threads : pc'[u] = IF pc[u] = "wait" THEN "woken" ELSE pc[u]
    BY DEF Waiting
  <1>2. TypeOK' /\ Fifo'
    <2>1. pc' \in [Threads -> {"out", "wait", "woken", "done"}]
      BY DEF TypeOK
    <2>2. \A p \in Producers : pc'[p] \in {"wait", "woken"} => arg'[p] \in Msgs
      BY <1>1, Zenon DEF TypeOK, Threads
    <2> QED BY <2>1, <2>2, RingUnchanged, Zenon DEF TypeOK
  <1>3. \A u \in Threads : pc'[u] # "wait"
    BY <1>1 DEF TypeOK
  <1>4. NoLostWakeup'
    BY <1>3 DEF NoLostWakeup, Waiting, Threads
  <1>5. Drained'
    BY <1>1 DEF Drained, Threads
  <1> QED BY <1>2, <1>4, <1>5

LEMMA NextIInv == ASSUME IInv, [Next]_vars PROVE IInv'
  <1>1. ASSUME NEW p \in Producers, NEW m \in Msgs, Push(p, m) \/ TryPush(p, m) PROVE IInv'
    <2>1. p \in Threads /\ p \notin Consumers /\ pc[p] \in {"out", "woken"}
      BY <1>1, QueueAssumption DEF Threads, Push, TryPush
    <2>2. CASE closed /\ ToldClosed(p)
      BY <2>1, <2>2, ToldClosedIInv
    <2>3. CASE ~closed /\ count < Cap /\ Insert(p, m)
      BY <2>1, <2>3, InsertIInv
    <2>4. CASE ~closed /\ count = Cap /\ Sleep(p) /\ arg' = [arg EXCEPT ![p] = m]
      BY <2>1, <2>4, SleepIInv, Zenon
    <2> QED BY <1>1, <2>2, <2>3, <2>4 DEF Push, TryPush
  <1>2. ASSUME NEW c \in Consumers, Pop(c) PROVE IInv'
    <2>1. c \in Threads /\ pc[c] \in {"out", "woken"}
      BY <1>2 DEF Threads, Pop
    <2>2. CASE count > 0 /\ Remove(c)
      BY <2>1, <2>2, RemoveIInv
    <2>3. CASE count = 0 /\ closed /\ ToldClosed(c)
      BY <2>1, <2>3, ToldClosedIInv
    <2>4. CASE count = 0 /\ ~closed /\ Sleep(c) /\ UNCHANGED arg
      BY <2>1, <2>4, SleepIInv
    <2> QED BY <1>2, <2>2, <2>3, <2>4 DEF Pop
  <1>3. CASE AllDone \/ UNCHANGED vars
    <2>1. UNCHANGED <<buf, head, tail, count, closed, pc, arg, tape, got>>
      BY <1>3 DEF AllDone, vars
    <2>2. TypeOK' /\ Fifo'
      BY <2>1, RingUnchanged DEF IInv, TypeOK
    <2>3. NoLostWakeup' /\ Drained'
      BY <2>1 DEF IInv, NoLostWakeup, Drained, Waiting, Woken
    <2> QED BY <2>2, <2>3 DEF IInv
  <1> QED BY <1>1, <1>2, <1>3, SpuriousIInv, CloseIInv DEF Next

LEMMA Invariance == Spec => []IInv
  BY InitIInv, NextIInv, PTL DEF Spec

\* The type invariant: in particular head_ and tail_ stay in the buffer, count_
\* never passes capacity_ and never wraps below 0, and a push that waits has kept
\* its message.
THEOREM QueueTypeOK == Spec => []TypeOK
  BY Invariance, PTL DEF IInv

\* Whatever the number of producers and workers and however their calls are
\* mixed, pop hands out what push and try_push accepted, once, in order.
THEOREM QueueIsFifo == Spec => []Fifo
  BY Invariance, PTL DEF IInv

\* One notify_one per push and per pop is enough, whoever takes lock_ first.
THEOREM QueueNoLostWakeup == Spec => []NoLostWakeup
  BY Invariance, PTL DEF IInv
----------------------------------------------------------------------------
(* The refinement.                                                          *)

\* The workers, when one of them was told Closed.
Told == {r \in {"workers"} : \E c \in Consumers : pc[c] = "done"}

LEMMA InsertRefines ==
  ASSUME IInv, NEW p \in Producers, NEW m \in Msgs, ~closed, count < Cap, Insert(p, m)
  PROVE  Tape!Push(m)
  <1>1. Len(tape) - Len(got) < Cap
    BY DEF IInv, Fifo, TypeOK
  <1>2. \A c \in Consumers : (pc[c] = "done") <=> (pc'[c] = "done")
    BY QueueAssumption DEF Insert, NotifyOne, Goes, Waiting, Threads
  <1>3. Told' = Told
    BY <1>2 DEF Told
  <1> QED BY <1>1, <1>3 DEF Tape!Push, Told, Insert

LEMMA RemoveRefines ==
  ASSUME IInv, NEW c \in Consumers, pc[c] \in {"out", "woken"}, count > 0, Remove(c)
  PROVE  Tape!Pop("workers")
  <1>1. \A d \in Consumers : pc[d] # "done"
    BY DEF IInv, Drained
  <1>2. \A d \in Consumers : pc'[d] # "done"
    BY <1>1 DEF Remove, NotifyOne, Goes, Waiting, Threads
  <1>3. Told = {} /\ Told' = {}
    BY <1>1, <1>2 DEF Told
  <1>4. Len(got) < Len(tape) /\ Len(got') = Len(got) + 1
    <2>1. Len(got) \in Nat /\ Len(tape) = Len(got) + count /\ count \in Nat
      BY DEF IInv, Fifo, TypeOK
    <2>2. got \in Seq(Msgs) /\ got' \in Seq(Msgs) /\ got' = Append(got, buf[head])
      BY RemoveFifo DEF IInv, TypeOK, Remove
    <2>3. buf[head] \in Msgs \cup {Blank}
      BY DEF IInv, TypeOK
    <2>4. Len(got') = Len(got) + 1
      BY <2>2, <2>3 DEF IInv, TypeOK
    <2> QED BY <2>1, <2>4
  <1> QED BY <1>3, <1>4 DEF Tape!Pop, Told, Remove

LEMMA ToldClosedRefines ==
  ASSUME IInv, NEW t \in Threads, closed, ToldClosed(t),
         t \in Producers \/ (t \in Consumers /\ count = 0)
  PROVE  Tape!End("workers") \/ UNCHANGED Tape!vars
  <1> USE QueueAssumption DEF ToldClosed
  <1>0. \A u \in Threads : pc'[u] = IF u = t THEN "done" ELSE pc[u]
    BY DEF IInv, TypeOK
  <1>1. CASE t \in Producers
    <2>1. Told' = Told
      BY <1>0, <1>1 DEF Told, Threads
    <2> QED BY <2>1 DEF Tape!vars, Told
  <1>2. CASE t \in Consumers /\ count = 0
    <2>1. Told' = {"workers"} /\ Told \cup {"workers"} = {"workers"}
      BY <1>0, <1>2 DEF Told
    <2>2. Len(got) = Len(tape)
      BY <1>2 DEF IInv, Fifo, TypeOK
    <2> QED BY <2>1, <2>2 DEF Tape!End, Told
  <1> QED BY <1>1, <1>2

\* Going to sleep, waking and closing tell no worker Closed.
LEMMA QuietRefines ==
  ASSUME IInv, NEW t \in Threads, Sleep(t) \/ Spurious(t), pc[t] # "done"
  PROVE  UNCHANGED Tape!vars
  <1>1. \A c \in Consumers : (pc[c] = "done") <=> (pc'[c] = "done")
    BY DEF IInv, TypeOK, Sleep, Spurious, Threads
  <1>2. Told' = Told
    BY <1>1 DEF Told
  <1> QED BY <1>2 DEF Tape!vars, Told, Sleep, Spurious

LEMMA CloseRefines == ASSUME IInv, Close PROVE Tape!Close
  <1>1. \A c \in Consumers : (pc[c] = "done") <=> (pc'[c] = "done")
    BY DEF Close, Waiting, Threads
  <1>2. Told' = Told
    BY <1>1 DEF Told
  <1> QED BY <1>2 DEF Tape!Close, Told, Close

LEMMA NextRefines == ASSUME IInv, [Next]_vars PROVE [Tape!Next]_(Tape!vars)
  <1>1. ASSUME NEW p \in Producers, NEW m \in Msgs, Push(p, m) \/ TryPush(p, m)
        PROVE  [Tape!Next]_(Tape!vars)
    <2>1. p \in Threads /\ pc[p] \in {"out", "woken"}
      BY <1>1 DEF Threads, Push, TryPush
    <2>2. CASE closed /\ ToldClosed(p)
      BY <2>1, <2>2, ToldClosedRefines DEF Tape!Next
    <2>3. CASE ~closed /\ count < Cap /\ Insert(p, m)
      BY <2>3, InsertRefines DEF Tape!Next
    <2>4. CASE ~closed /\ count = Cap /\ Sleep(p) /\ arg' = [arg EXCEPT ![p] = m]
      BY <2>1, <2>4, QuietRefines
    <2> QED BY <1>1, <2>2, <2>3, <2>4 DEF Push, TryPush
  <1>2. ASSUME NEW c \in Consumers, Pop(c) PROVE [Tape!Next]_(Tape!vars)
    <2>1. c \in Threads /\ pc[c] \in {"out", "woken"}
      BY <1>2 DEF Threads, Pop
    <2>2. CASE count > 0 /\ Remove(c)
      BY <2>1, <2>2, RemoveRefines DEF Tape!Next
    <2>3. CASE count = 0 /\ closed /\ ToldClosed(c)
      BY <2>1, <2>3, ToldClosedRefines DEF Tape!Next
    <2>4. CASE count = 0 /\ ~closed /\ Sleep(c) /\ UNCHANGED arg
      BY <2>1, <2>4, QuietRefines
    <2> QED BY <1>2, <2>2, <2>3, <2>4 DEF Pop
  <1>3. ASSUME NEW t \in Threads, Spurious(t) PROVE UNCHANGED Tape!vars
    BY <1>3, QuietRefines, Zenon DEF Spurious
  <1>4. CASE Close
    BY <1>4, CloseRefines DEF Tape!Next
  <1>5. CASE AllDone \/ UNCHANGED vars
    BY <1>5 DEF AllDone, vars, Tape!vars
  <1> QED BY <1>1, <1>2, <1>3, <1>4, <1>5 DEF Next

\* All the workers together are one reader of a broadcast tape: between them they
\* get every message once and in order, and none of them is told Closed before
\* the last message was taken.
THEOREM QueueRefinesTape == Spec => TapeSpec
  <1>1. Init => Tape!Init
    BY DEF Init, Tape!Init, Threads
  <1> QED BY <1>1, NextRefines, Invariance, PTL DEF Spec, TapeSpec, Tape!Spec
============================================================================
