------------------------- MODULE TickPipelineProofs -------------------------
(***************************************************************************)
(* The receiver's gap detection and its recoveries, for every number of    *)
(* messages and every order in which the network delivers them.            *)
(***************************************************************************)
EXTENDS TickPipeline, WellFoundedInduction, TLAPS

(* Gap detection.                                                           *)

\* Nothing was received at first.
LEMMA InitLossInv == Init => LossInv
  BY DEF Init, LossInv, NoSilentLoss

\* A datagram in order, ahead, late or again.
LEMMA ReceiveLossInv ==
  ASSUME LossInv, NEW m \in net, NEW again \in BOOLEAN, Receive(m, again)
  PROVE  LossInv'
  <1> USE DEF LossInv
  <1>1. /\ m \in Nat \ {0} /\ last_seq \in Nat /\ last_seq' = m /\ seen' = seen \cup {m}
        /\ gap' = gap \cup Gap(m) /\ seq' = seq /\ net' \subseteq net
        /\ first' = IF first = 0 THEN m ELSE first
    <2>1. m \in Nat \ {0} /\ last_seq \in Nat
      <3>1. m \in net /\ net \subseteq Nat \ {0} /\ seen \subseteq Nat \ {0}
        OBVIOUS
      <3>2. last_seq = 0 \/ last_seq \in seen
        OBVIOUS
      <3> HIDE DEF LossInv
      <3>3. m \in Nat \ {0}
        BY <3>1, Zenon
      <3>4. last_seq \in seen => last_seq \in Nat
        BY <3>1, Zenon
      <3>5. last_seq = 0 => last_seq \in Nat
        OBVIOUS
      <3> QED BY <3>2, <3>3, <3>4, <3>5, Zenon
    <2>2. /\ last_seq' = m /\ seen' = seen \cup {m} /\ gap' = gap \cup Gap(m) /\ seq' = seq
          /\ first' = IF first = 0 THEN m ELSE first
      BY Zenon DEF Receive, pubVars
    <2>3. net' \subseteq net
      <3>1. net' = IF again THEN net ELSE net \ {m}
        BY Zenon DEF Receive
      <3> QED BY <3>1
    <2> QED BY <2>1, <2>2, <2>3
  <1>2. CASE seen = {}
    <2>1. first' = m /\ seen' = {m}
      BY <1>1, <1>2
    <2>2. NoSilentLoss'
      BY <1>1, <2>1 DEF NoSilentLoss
    <2> QED BY <1>1, <2>1, <2>2
  <1>3. CASE seen # {}
    <2>1. first \in seen /\ last_seq \in seen /\ first' = first
      BY <1>1, <1>3, Zenon
    <2>2. ASSUME NEW n \in first .. m PROVE n \in seen' \cup gap'
      <3>1. CASE n = m
        BY <3>1, <1>1
      <3>2. CASE n # m /\ n <= last_seq
        <4>1. n \in first .. last_seq
          BY <1>1, <2>1, <3>2
        <4> QED BY <1>1, <2>1, <4>1 DEF NoSilentLoss
      <3>3. CASE n # m /\ n > last_seq
        <4>1. n \in last_seq + 1 .. m - 1 /\ last_seq > 0 /\ m > last_seq + 1
          BY <1>1, <2>1, <3>3
        <4>2. n \in Gap(m)
          BY <4>1 DEF Gap
        <4> QED BY <1>1, <4>2
      <3> QED BY <1>1, <2>1, <3>1, <3>2, <3>3
    <2>3. NoSilentLoss'
      BY <1>1, <2>1, <2>2 DEF NoSilentLoss
    <2> QED BY <1>1, <2>1, <2>3
  <1> QED BY <1>2, <1>3

\* Every other step leaves what was received alone.
LEMMA OtherLossInv ==
  ASSUME LossInv, seq' \in Nat \ {0}, net' \subseteq Nat \ {0},
         UNCHANGED <<last_seq, first, seen, gap>>
  PROVE  LossInv'
  BY DEF LossInv, NoSilentLoss

\* Every step keeps the invariant.
LEMMA NextLossInv == ASSUME LossInv, [Next]_vars PROVE LossInv'
  <1>1. ASSUME NEW dropped \in BOOLEAN, Generate(dropped) PROVE LossInv'
    <2>1. seq' \in Nat \ {0} /\ net' \subseteq Nat \ {0}
      BY <1>1 DEF LossInv, Generate
    <2> QED BY <1>1, <2>1, OtherLossInv DEF Generate, recvVars, history
  <1>2. ASSUME NEW m \in net, Lose(m) PROVE LossInv'
    BY <1>2, OtherLossInv DEF LossInv, Lose, pubVars, recvVars, history
  <1>3. ASSUME NEW i, NEW fails, Recover(i, fails) PROVE LossInv'
    BY <1>3, OtherLossInv DEF LossInv, Recover, pubVars, history
  <1>4. ASSUME NEW here, Signal(here) PROVE LossInv'
    BY <1>4, OtherLossInv DEF LossInv, Signal, pubVars, history
  <1>5. CASE ReceiveLoop
    <2>1. CASE Call \/ Push \/ PushGivesUp
      BY <2>1, OtherLossInv, Zenon DEF LossInv, Call, Push, PushGivesUp, pubVars, history
    <2>2. CASE Harvest \/ PushRecovered
      BY <2>2, OtherLossInv DEF LossInv, Harvest, PushRecovered, pubVars, history
    <2>3. CASE EndDrain \/ Join \/ Leave
      BY <2>3, OtherLossInv, Zenon DEF LossInv, EndDrain, Join, Leave, pubVars, history
    <2> QED BY <1>5, <2>1, <2>2, <2>3 DEF ReceiveLoop
  <1>6. CASE Process \/ WorkerExits
    BY <1>6, OtherLossInv, Zenon DEF LossInv, Process, WorkerExits, pubVars, recvVars, history
  <1>7. CASE UNCHANGED vars
    BY <1>7, OtherLossInv DEF LossInv, vars, pubVars, recvVars, history
  <1> QED BY <1>1, <1>2, <1>3, <1>4, <1>5, <1>6, <1>7, ReceiveLossInv DEF Next, Arrives, Answered

\* No loss goes unnoticed by process_one: for every number of messages, every
\* ring, queue and cap, and whatever the network loses, repeats or reorders.
THEOREM PipelineNoSilentLoss == Spec => []NoSilentLoss
  <1>1. LossInv => NoSilentLoss
    BY DEF LossInv
  <1> QED BY <1>1, InitLossInv, NextLossInv, PTL DEF Spec
----------------------------------------------------------------------------
(* Recoveries.  What is in a list is said by the set its elements are in:   *)
(* the queue has numbers received or asked for, drain_recoveries has in     *)
(* hand what was asked for, and a recovery in flight is an answer to a gap. *)

\* A recovery of numbers asked for, with what the server answered.
Answers ==
  {r \in Recovery : /\ r.from .. r.from + r.count - 1 \subseteq asked
                    /\ Len(r.msgs) <= r.count
                    /\ \A k \in 1 .. Len(r.msgs) : r.msgs[k] = r.from + k - 1}

RecInv ==
  /\ TypeOK
  /\ gap \subseteq Nat /\ asked \subseteq gap /\ processed \subseteq seen \cup asked
  /\ pending \in Seq(Answers)
  /\ harvest.msgs \in Seq(asked)
  /\ queue \in Seq(seen \cup asked)
  /\ pc = "push" => msg \in seen
----------------------------------------------------------------------------

\* A set of numbers has a least one.
LEMMA Least == ASSUME NEW T, T \subseteq Nat, T # {} PROVE \E n \in T : \A m \in T : n <= m
  <1> DEFINE R == OpToRel(<, Nat)
  <1>1. IsWellFoundedOn(R, Nat)
    BY NatLessThanWellFounded, Zenon
  <1>2. \A x, y \in Nat : x < y => <<x, y>> \in R
    BY DEF OpToRel
  <1> HIDE DEF R
  <1>3. PICK n \in T : \A m \in T : ~(<<m, n>> \in R)
    BY <1>1, WFMin, Zenon
  <1>4. \A m \in T : n <= m
    <2> SUFFICES ASSUME NEW m \in T PROVE n <= m
      OBVIOUS
    <2>1. n \in Nat /\ m \in Nat /\ ~(<<m, n>> \in R)
      BY <1>3
    <2> QED BY <1>2, <2>1
  <1> QED BY <1>4

\* A list of elements of S is one of elements of T.
LEMMA SeqGrows == ASSUME NEW S, NEW T, S \subseteq T, NEW s \in Seq(S) PROVE s \in Seq(T)
  OBVIOUS

\* So is one whose elements are all in T.
LEMMA SeqIn ==
  ASSUME NEW S, NEW T, NEW s \in Seq(S), \A k \in 1 .. Len(s) : s[k] \in T PROVE s \in Seq(T)
  OBVIOUS

\* An element is replaced.
LEMMA SeqReplace ==
  ASSUME NEW S, NEW s \in Seq(S), NEW i \in 1 .. Len(s), NEW e \in S
  PROVE  [s EXCEPT ![i] = e] \in Seq(S) /\ Len([s EXCEPT ![i] = e]) = Len(s)
  OBVIOUS

\* One is added, or the first one taken off.
LEMMA SeqEnds ==
  ASSUME NEW S, NEW s \in Seq(S), NEW e \in S
  PROVE  /\ Append(s, e) \in Seq(S) /\ Len(Append(s, e)) = Len(s) + 1
         /\ s # << >> => Head(s) \in S /\ Tail(s) \in Seq(S) /\ Len(Tail(s)) = Len(s) - 1
  OBVIOUS

\* serve_request answers with consecutive numbers, from the one asked for and no
\* more than were asked for, whatever is in the slots.
LEMMA Served ==
  ASSUME slot_seq \in [0 .. RingCap - 1 -> Nat], NEW from \in Nat, NEW count \in Nat
  PROVE  LET a == ServeRequest(from, count)
         IN  a \in Seq(Nat) /\ Len(a) <= count /\ \A k \in 1 .. Len(a) : a[k] = from + k - 1
  <1> DEFINE ok(k) == slot_seq[(from + k - 1) % RingCap] = from + k - 1
             has(n) == \A k \in 1 .. n : slot_seq[(from + k - 1) % RingCap] = from + k - 1
             T == {k \in 1 .. count : ~ok(k)}
             stops(n) == has(n) /\ (n = count \/ ~has(n + 1))
             n == CHOOSE n \in 0 .. count : stops(n)
  <1>1. \E m \in 0 .. count : stops(m)
    <2>1. CASE T = {}
      <3>1. has(count)
        BY <2>1, Zenon
      <3>2. count \in 0 .. count
        OBVIOUS
      <3>3. stops(count)
        BY <3>1, Zenon
      <3> HIDE DEF stops
      <3> QED BY <3>2, <3>3, Zenon
    <2>2. CASE T # {}
      <3>1. PICK t \in T : \A m \in T : t <= m
        <4>1. T \subseteq Nat
          OBVIOUS
        <4> QED BY <4>1, <2>2, Least, Zenon
      <3>2. t - 1 \in 0 .. count /\ (t - 1) + 1 = t /\ t \in 1 .. t
        BY <3>1
      <3>3. has(t - 1)
        <4> SUFFICES ASSUME NEW k \in 1 .. t - 1 PROVE ok(k)
          BY Zenon
        <4>1. k \in 1 .. count /\ ~(t <= k)
          BY <3>1
        <4>2. k \notin T
          BY <3>1, <4>1
        <4> QED BY <4>1, <4>2
      <3>4. ~has(t)
        BY <3>1, <3>2
      <3> QED BY <3>2, <3>3, <3>4, Zenon
    <2> QED BY <2>1, <2>2
  <1>2. n \in 0 .. count /\ has(n)
    BY <1>1, Zenon
  <1>3. ServeRequest(from, count) = [k \in 1 .. n |-> slot_seq[(from + k - 1) % RingCap]]
    BY DEF ServeRequest
  <1> HIDE DEF n
  <1>4. \A k \in 1 .. n : slot_seq[(from + k - 1) % RingCap] = from + k - 1
    BY <1>2, Zenon
  <1> DEFINE a == ServeRequest(from, count)
  <1>5. a = [k \in 1 .. n |-> from + k - 1]
    BY <1>3, <1>4, Zenon
  <1>6. a \in Seq(Nat) /\ Len(a) = n /\ \A k \in 1 .. n : a[k] = from + k - 1
    BY <1>2, <1>5
  <1> QED BY <1>2, <1>6
----------------------------------------------------------------------------
\* Nothing is asked for and nothing in flight at first.
LEMMA InitRecInv == Init => RecInv
  <1> SUFFICES ASSUME Init PROVE RecInv
    OBVIOUS
  <1>1. TypeOK
    BY PipelineAssumption DEF Init, TypeOK
  <1> QED BY <1>1 DEF Init, RecInv

\* The publisher and the network leave the receiver alone.
LEMMA PublisherRecInv ==
  ASSUME RecInv, (\E dropped \in BOOLEAN : Generate(dropped)) \/ (\E m \in net : Lose(m))
  PROVE  RecInv'
  <1>i. TypeOK
    BY DEF RecInv
  <1>1. UNCHANGED <<recvVars, queueVars, history>>
    BY DEF Generate, Lose
  <1>2. seq' \in Nat \ {0} /\ net' \subseteq Nat \ {0} /\ slot_seq' \in [0 .. RingCap - 1 -> Nat]
    <2>1. ASSUME NEW dropped \in BOOLEAN, Generate(dropped)
          PROVE  seq' = seq + 1 /\ net' \subseteq net \cup {seq} /\ slot_seq' = [slot_seq EXCEPT ![seq % RingCap] = seq]
      BY <2>1 DEF Generate
    <2>2. ASSUME NEW m \in net, Lose(m) PROVE seq' = seq /\ slot_seq' = slot_seq /\ net' \subseteq net
      BY <2>2 DEF Lose, pubVars
    <2>3. seq \in Nat \ {0} /\ net \subseteq Nat \ {0} /\ slot_seq \in [0 .. RingCap - 1 -> Nat]
      BY <1>i DEF TypeOK
    <2>4. [slot_seq EXCEPT ![seq % RingCap] = seq] \in [0 .. RingCap - 1 -> Nat]
      BY <2>3, Zenon
    <2>5. CASE \E dropped \in BOOLEAN : Generate(dropped)
      <3>1. seq' = seq + 1 /\ net' \subseteq net \cup {seq} /\ slot_seq' = [slot_seq EXCEPT ![seq % RingCap] = seq]
        BY <2>1, <2>5, Zenon
      <3>2. seq + 1 \in Nat \ {0} /\ net \cup {seq} \subseteq Nat \ {0}
        BY <2>3
      <3> QED BY <3>1, <3>2, <2>4, Zenon
    <2>6. CASE \E m \in net : Lose(m)
      BY <2>2, <2>3, <2>6, Zenon
    <2> QED BY <2>5, <2>6
  <1>4. TypeOK'
    BY <1>i, <1>1, <1>2 DEF TypeOK, recvVars, queueVars
  <1>5. Answers' = Answers
    BY <1>1 DEF Answers, history
  <1> QED BY <1>1, <1>4, <1>5 DEF RecInv, recvVars, queueVars, history

\* A recovery thread has its answer.
LEMMA RecoverRecInv ==
  ASSUME RecInv, NEW i \in 1 .. MaxPending, NEW fails \in BOOLEAN, Recover(i, fails)
  PROVE  RecInv'
  <1> DEFINE r == pending[i]
             count == IF r.count < MaxRequest THEN r.count ELSE MaxRequest
             answer == IF fails THEN << >> ELSE ServeRequest(r.from, count)
             new == [r EXCEPT !.ready = TRUE, !.msgs = answer]
  <1>i. TypeOK /\ pending \in Seq(Answers)
    BY DEF RecInv
  <1>1. i \in 1 .. Len(pending) /\ r \in Answers
    BY <1>i DEF Recover
  <1>2. /\ r \in Recovery /\ r.from .. r.from + r.count - 1 \subseteq asked
        /\ r.from \in Nat /\ r.count \in Nat
    BY <1>1 DEF Answers, Recovery
  <1>3. count \in Nat /\ count <= r.count
    BY <1>2, PipelineAssumption
  <1>4. answer \in Seq(Nat) /\ Len(answer) <= r.count /\ \A k \in 1 .. Len(answer) : answer[k] = r.from + k - 1
    <2>1. CASE fails
      BY <2>1, <1>2
    <2>2. CASE ~fails
      <3> HIDE DEF count, r
      <3>1. slot_seq \in [0 .. RingCap - 1 -> Nat]
        BY <1>i DEF TypeOK
      <3>2. LET a == ServeRequest(r.from, count)
            IN  a \in Seq(Nat) /\ Len(a) <= count /\ \A k \in 1 .. Len(a) : a[k] = r.from + k - 1
        BY <3>1, <1>2, <1>3, Served, Zenon
      <3>3. answer = ServeRequest(r.from, count)
        BY <2>2
      <3>4. Len(answer) \in Nat
        BY <3>2, <3>3
      <3> QED BY <3>2, <3>3, <3>4, <1>2, <1>3
    <2> QED BY <2>1, <2>2
  <1>5. pending' = [pending EXCEPT ![i] = new]
    <2>1. pending' = [pending EXCEPT ![i].ready = TRUE, ![i].msgs = answer]
      BY DEF Recover
    <2> HIDE DEF answer
    <2> QED BY <2>1, <1>i, <1>1, Zenon
  <1>6. UNCHANGED <<pubVars, net, pc, msg, last_seq, received, harvest, g_stop, queueVars, history>>
    BY DEF Recover
  <1>7. new \in Recovery /\ new.from = r.from /\ new.count = r.count /\ new.msgs = answer
    <2> HIDE DEF answer, r
    <2> QED BY <1>2, <1>4, Zenon DEF Recovery
  <1> HIDE DEF answer, r, new
  <1>8. new \in Answers
    BY <1>2, <1>4, <1>7 DEF Answers
  <1>9. pending' \in Seq(Answers) /\ Len(pending') = Len(pending)
    <2> HIDE DEF new
    <2> QED BY <1>i, <1>1, <1>5, <1>8, SeqReplace
  <1>10. Answers' = Answers
    BY <1>6 DEF Answers, history
  <1>11. Answers \subseteq Recovery
    BY DEF Answers
  <1>12. pending' \in Seq(Recovery)
    BY <1>9, <1>11, SeqGrows
  <1>13. TypeOK'
    BY <1>i, <1>6, <1>9, <1>12 DEF TypeOK, pubVars, queueVars
  <1> QED BY <1>6, <1>9, <1>10, <1>13 DEF RecInv, queueVars, history

\* A datagram arrives: a gap is counted before it is asked for.
LEMMA ReceiveRecInv ==
  ASSUME RecInv, NEW m \in net, NEW again \in BOOLEAN, Receive(m, again)
  PROVE  RecInv'
  <1> DEFINE ask == Gap(m) # {} /\ Len(pending) < MaxPending
             new == [from |-> last_seq + 1, count |-> m - last_seq - 1, ready |-> FALSE, msgs |-> << >>]
  <1>i. TypeOK /\ pending \in Seq(Answers) /\ harvest.msgs \in Seq(asked) /\ queue \in Seq(seen \cup asked)
        /\ gap \subseteq Nat /\ asked \subseteq gap /\ processed \subseteq seen \cup asked
    BY DEF RecInv
  <1>1. m \in Nat /\ last_seq \in Nat /\ Len(pending) \in Nat /\ MaxPending \in Nat /\ net' \subseteq net
    BY <1>i, PipelineAssumption DEF TypeOK, Receive
  <1>2. /\ received' = received + 1 /\ msg' = m /\ last_seq' = m /\ pc' = "push"
        /\ pending' = IF ask THEN Append(pending, new) ELSE pending
        /\ asked' = IF ask THEN asked \cup Gap(m) ELSE asked
        /\ gap' = gap \cup Gap(m) /\ seen' = seen \cup {m}
        /\ UNCHANGED <<pubVars, harvest, g_stop, queueVars, processed>>
    BY DEF Receive
  <1>3. Gap(m) \subseteq Nat /\ (Gap(m) # {} => m - last_seq - 1 \in Nat /\ Gap(m) = last_seq + 1 .. m - 1)
    BY <1>1 DEF Gap
  <1>4. /\ gap' \subseteq Nat /\ asked' \subseteq gap' /\ asked \subseteq asked'
        /\ seen \cup asked \subseteq (seen \cup asked)' /\ processed' \subseteq (seen \cup asked)'
    BY <1>i, <1>2, <1>3, Zenon
  <1>5. Answers \subseteq Answers' /\ Answers' \subseteq Recovery
    BY <1>4 DEF Answers
  <1>6. pending' \in Seq(Answers') /\ Len(pending') <= MaxPending
    <2>1. CASE ask
      <3>1. new \in Recovery /\ new.from .. new.from + new.count - 1 = Gap(m)
        BY <2>1, <1>1, <1>3 DEF Recovery
      <3>2. new \in Answers'
        <4>1. Gap(m) \subseteq asked' /\ Len(new.msgs) = 0 /\ new.count \in Nat
          BY <1>2, <1>3, <2>1
        <4>2. \A k \in 1 .. Len(new.msgs) : new.msgs[k] = new.from + k - 1
          BY <4>1
        <4>3. Len(new.msgs) <= new.count
          BY <4>1
        <4>4. new.from .. new.from + new.count - 1 \subseteq asked'
          BY <3>1, <4>1, Zenon
        <4> HIDE DEF new
        <4> QED BY <3>1, <4>2, <4>3, <4>4, Zenon DEF Answers
      <3>3. pending \in Seq(Answers')
        BY <1>i, <1>5, SeqGrows
      <3> HIDE DEF new
      <3>4. Append(pending, new) \in Seq(Answers') /\ Len(Append(pending, new)) = Len(pending) + 1
        BY <3>2, <3>3, SeqEnds
      <3> QED BY <1>1, <1>2, <2>1, <3>4
    <2>2. CASE ~ask
      <3>1. pending' = pending
        BY <1>2, <2>2
      <3>2. Len(pending) <= MaxPending
        BY <1>i DEF TypeOK
      <3> QED BY <1>i, <1>5, <3>1, <3>2, SeqGrows
    <2> QED BY <2>1, <2>2
  <1>7. pending' \in Seq(Recovery)
    BY <1>5, <1>6, SeqGrows
  <1>8. harvest'.msgs \in Seq(asked') /\ queue' \in Seq((seen \cup asked)')
    <2>1. harvest' = harvest /\ queue' = queue
      BY <1>2 DEF queueVars
    <2> QED BY <1>i, <1>4, <2>1, SeqGrows, Zenon
  <1>9. TypeOK'
    <2>1. net' \subseteq Nat \ {0}
      BY <1>i, <1>1 DEF TypeOK
    <2> QED BY <1>i, <1>1, <1>2, <1>6, <1>7, <2>1 DEF TypeOK, pubVars, queueVars
  <1>10. pc' = "push" => msg' \in seen'
    BY <1>2
  <1> QED BY <1>4, <1>6, <1>8, <1>9, <1>10 DEF RecInv

\* The steps that move nothing but the receive thread's place and what it starts to
\* drain.
LEMMA PlaceRecInv ==
  ASSUME RecInv, UNCHANGED <<pubVars, net, msg, last_seq, received, pending, queue, worker, history>>,
         pc' \in {"loop", "blocked", "drain", "last_drain", "join", "leave", "done"} \/ pc' = pc,
         harvest' \in [i : Nat \ {0}, msgs : {<< >>}] \/ harvest' = harvest,
         g_stop' \in BOOLEAN, closed' \in BOOLEAN
  PROVE  RecInv'
  <1>i. TypeOK /\ harvest.msgs \in Seq(asked) /\ (pc = "push" => msg \in seen)
    BY DEF RecInv
  <1>1. UNCHANGED <<first, seen, gap, asked, processed>>
    BY DEF history
  <1>2. harvest' \in [i : Nat \ {0}, msgs : Seq(Nat)] /\ harvest'.msgs \in Seq(asked)
    <2>1. CASE harvest' = harvest
      BY <1>i, <2>1 DEF TypeOK
    <2>2. CASE harvest' \in [i : Nat \ {0}, msgs : {<< >>}]
      <3>1. << >> \in Seq(Nat) /\ << >> \in Seq(asked)
        OBVIOUS
      <3> QED BY <2>2, <3>1, Zenon
    <2> QED BY <2>1, <2>2
  <1>3. TypeOK'
    <2>1. pc' \in {"loop", "blocked", "push", "drain", "last_drain", "join", "leave", "done"}
      BY <1>i DEF TypeOK
    <2> QED BY <1>i, <1>2, <2>1 DEF TypeOK, pubVars
  <1>4. pc' = "push" => msg' \in seen'
    BY <1>i, <1>1
  <1>5. Answers' = Answers
    BY <1>1 DEF Answers
  <1> QED BY <1>1, <1>2, <1>3, <1>4, <1>5 DEF RecInv

\* The message received is queued.
LEMMA PushRecInv == ASSUME RecInv, Push PROVE RecInv'
  <1>i. TypeOK /\ queue \in Seq(seen \cup asked) /\ msg \in seen
    BY DEF RecInv, Push
  <1>1. /\ queue' = Append(queue, msg) /\ pc' = "drain" /\ harvest' = [i |-> 1, msgs |-> << >>]
        /\ UNCHANGED <<pubVars, net, msg, last_seq, received, pending, g_stop, closed, worker, history>>
        /\ Len(queue) < QueueCap
    BY DEF Push
  <1>2. queue' \in Seq(seen \cup asked) /\ Len(queue') = Len(queue) + 1
    BY <1>i, <1>1, SeqEnds
  <1>3. queue' \in Seq(Nat) /\ Len(queue') <= QueueCap
    BY <1>i, <1>1, SeqEnds, PipelineAssumption DEF TypeOK
  <1>4. TypeOK'
    BY <1>i, <1>1, <1>3 DEF TypeOK, pubVars
  <1>5. Answers' = Answers
    BY <1>1 DEF Answers, history
  <1> QED BY <1>1, <1>2, <1>4, <1>5 DEF RecInv, history

\* A finished recovery is taken out of the list.
LEMMA HarvestRecInv == ASSUME RecInv, Harvest PROVE RecInv'
  <1> DEFINE i == harvest.i
             n == Len(pending)
             moved == [pending EXCEPT ![i] = pending[n]]
  <1>i. TypeOK /\ pending \in Seq(Answers) /\ harvest.msgs \in Seq(asked)
    BY DEF RecInv
  <1>1. i \in 1 .. n /\ n \in Nat /\ n \in 1 .. n
    BY <1>i DEF Harvest, TypeOK
  <1>2. UNCHANGED <<pubVars, net, pc, msg, last_seq, received, g_stop, queueVars, history>>
    BY DEF Harvest
  <1>3. harvest' \in [i : Nat \ {0}, msgs : Seq(Nat)] /\ harvest'.msgs \in Seq(asked)
        /\ pending' \in Seq(Answers) /\ Len(pending') <= n
    <2>1. CASE pending[i].ready
      <3>1. harvest' = [i |-> i, msgs |-> pending[i].msgs] /\ pending' = SubSeq(moved, 1, n - 1)
        BY <2>1 DEF Harvest
      <3>2. pending[i] \in Answers /\ pending[n] \in Answers
        BY <1>i, <1>1
      <3>3. moved \in Seq(Answers) /\ Len(moved) = n
        BY <1>i, <1>1, <3>2, SeqReplace
      <3>4. SubSeq(moved, 1, n - 1) \in Seq(Answers) /\ Len(SubSeq(moved, 1, n - 1)) = n - 1
        <4> HIDE DEF moved, n
        <4> QED BY <1>1, <3>3
      <3>5. pending[i].msgs \in Seq(Nat) /\ pending[i].msgs \in Seq(asked)
        <4> DEFINE r == pending[i]
        <4>1. /\ r.from \in Nat /\ r.count \in Nat /\ r.msgs \in Seq(Nat)
              /\ r.from .. r.from + r.count - 1 \subseteq asked /\ Len(r.msgs) <= r.count
              /\ \A k \in 1 .. Len(r.msgs) : r.msgs[k] = r.from + k - 1
          BY <3>2 DEF Answers, Recovery
        <4> HIDE DEF r
        <4>2. ASSUME NEW k \in 1 .. Len(r.msgs) PROVE r.msgs[k] \in asked
          <5>1. Len(r.msgs) \in Nat
            BY <4>1
          <5>2. r.from + k - 1 \in r.from .. r.from + r.count - 1
            BY <4>1, <5>1
          <5> QED BY <4>1, <5>2
        <4>3. r.msgs \in Seq(asked)
          BY <4>1, <4>2, SeqIn
        <4> QED BY <4>1, <4>3 DEF r
      <3>6. harvest' \in [i : Nat \ {0}, msgs : Seq(Nat)] /\ harvest'.msgs \in Seq(asked)
        BY <1>1, <3>1, <3>5
      <3> HIDE DEF moved, n
      <3> QED BY <1>1, <3>1, <3>4, <3>6
    <2>2. CASE ~pending[i].ready
      <3>1. harvest' = [harvest EXCEPT !.i = i + 1] /\ pending' = pending
        BY <2>2 DEF Harvest
      <3>2. harvest \in [i : Nat \ {0}, msgs : Seq(Nat)] /\ i + 1 \in Nat \ {0}
        BY <1>i, <1>1 DEF TypeOK
      <3>3. harvest' \in [i : Nat \ {0}, msgs : Seq(Nat)] /\ harvest'.msgs = harvest.msgs
        BY <3>1, <3>2
      <3> QED BY <1>i, <1>1, <3>1, <3>3
    <2> QED BY <2>1, <2>2
  <1>4. Answers' = Answers /\ Answers \subseteq Recovery
    BY <1>2 DEF Answers, history
  <1>5. pending' \in Seq(Recovery) /\ Len(pending') <= MaxPending
    <2>1. pending' \in Seq(Recovery)
      BY <1>3, <1>4, SeqGrows
    <2>2. Len(pending') \in Nat /\ n <= MaxPending /\ MaxPending \in Nat
      BY <2>1, <1>i, PipelineAssumption DEF TypeOK
    <2> QED BY <1>1, <1>3, <2>1, <2>2
  <1>6. TypeOK'
    BY <1>i, <1>2, <1>3, <1>5 DEF TypeOK, pubVars, queueVars
  <1>7. UNCHANGED <<seen, gap, asked, processed, queue, pc, msg>>
    BY <1>2 DEF history, queueVars
  <1> QED BY <1>3, <1>4, <1>6, <1>7 DEF RecInv

\* A recovered message is queued or dropped.
LEMMA PushRecoveredRecInv == ASSUME RecInv, PushRecovered PROVE RecInv'
  <1> DEFINE h == harvest.msgs
  <1>i. /\ TypeOK /\ h \in Seq(asked) /\ queue \in Seq(seen \cup asked) /\ h # << >>
        /\ gap \subseteq Nat /\ asked \subseteq gap
    BY DEF RecInv, PushRecovered
  <1>1. /\ queue' = IF Len(queue) < QueueCap THEN Append(queue, Head(h)) ELSE queue
        /\ harvest' = [harvest EXCEPT !.msgs = Tail(h)]
        /\ UNCHANGED <<pubVars, net, pc, msg, last_seq, received, pending, g_stop, closed, worker, history>>
    BY DEF PushRecovered
  <1>2. Head(h) \in asked /\ Tail(h) \in Seq(asked)
    <2> HIDE DEF h
    <2> QED BY <1>i
  <1>3. Tail(h) \in Seq(Nat) /\ harvest \in [i : Nat \ {0}, msgs : Seq(Nat)]
    BY <1>i, <1>2, SeqGrows DEF TypeOK
  <1>4. harvest' \in [i : Nat \ {0}, msgs : Seq(Nat)] /\ harvest'.msgs = Tail(h)
    <2> HIDE DEF h
    <2> QED BY <1>1, <1>3, Zenon
  <1>5. queue' \in Seq(seen \cup asked) /\ queue' \in Seq(Nat) /\ Len(queue') <= QueueCap
    <2>1. Head(h) \in seen \cup asked /\ Head(h) \in Nat /\ queue \in Seq(Nat) /\ Len(queue) <= QueueCap
          /\ QueueCap \in Nat /\ Len(queue) \in Nat
      BY <1>i, <1>2, PipelineAssumption DEF TypeOK
    <2> DEFINE e == Head(h)
    <2> HIDE DEF h, e
    <2>2. /\ Append(queue, e) \in Seq(seen \cup asked) /\ Append(queue, e) \in Seq(Nat)
          /\ Len(Append(queue, e)) = Len(queue) + 1
      BY <1>i, <2>1, SeqEnds DEF e
    <2> QED BY <1>i, <1>1, <2>1, <2>2 DEF e
  <1>6. TypeOK'
    BY <1>i, <1>1, <1>4, <1>5 DEF TypeOK, pubVars
  <1>7. Answers' = Answers
    BY <1>1 DEF Answers, history
  <1> QED BY <1>1, <1>2, <1>4, <1>5, <1>6, <1>7 DEF RecInv, history

\* The worker takes what was received or asked for.
LEMMA ProcessRecInv == ASSUME RecInv, Process PROVE RecInv'
  <1>i. TypeOK /\ queue \in Seq(seen \cup asked) /\ queue # << >> /\ processed \subseteq seen \cup asked
    BY DEF RecInv, Process
  <1>1. /\ processed' = processed \cup {Head(queue)} /\ queue' = Tail(queue)
        /\ UNCHANGED <<pubVars, net, recvVars, closed, worker, first, seen, gap, asked>>
    BY DEF Process
  <1>2. Head(queue) \in seen \cup asked /\ queue' \in Seq(seen \cup asked) /\ Len(queue') = Len(queue) - 1
    BY <1>i, <1>1
  <1>3. queue' \in Seq(Nat) /\ Len(queue') <= QueueCap
    BY <1>i, <1>1, PipelineAssumption DEF TypeOK
  <1>4. TypeOK'
    BY <1>i, <1>1, <1>3 DEF TypeOK, pubVars, recvVars
  <1>5. Answers' = Answers
    BY <1>1 DEF Answers
  <1>6. processed' \subseteq (seen \cup asked)'
    BY <1>i, <1>1, <1>2
  <1> QED BY <1>1, <1>2, <1>4, <1>5, <1>6 DEF RecInv, recvVars

\* Every step keeps the invariant of the recoveries.
LEMMA NextRecInv == ASSUME RecInv, [Next]_vars PROVE RecInv'
  <1>i. TypeOK
    BY DEF RecInv
  <1>0. g_stop \in BOOLEAN /\ closed \in BOOLEAN
    BY <1>i DEF TypeOK
  <1>1. CASE (\E dropped \in BOOLEAN : Generate(dropped)) \/ (\E m \in net : Lose(m))
    BY <1>1, PublisherRecInv
  <1>2. CASE Answered
    BY <1>2, RecoverRecInv DEF Answered
  <1>3. CASE Arrives
    BY <1>3, ReceiveRecInv DEF Arrives
  <1>4. CASE Push \/ Harvest \/ PushRecovered \/ Process
    BY <1>4, PushRecInv, HarvestRecInv, PushRecoveredRecInv, ProcessRecInv
  <1>5. ASSUME NEW here \in BOOLEAN, Signal(here) PROVE RecInv'
    <2>1. /\ UNCHANGED <<pubVars, net, msg, last_seq, received, pending, queueVars, history>>
          /\ g_stop' = TRUE /\ (pc' = "last_drain" \/ pc' = pc)
          /\ (harvest' = [i |-> 1, msgs |-> << >>] \/ harvest' = harvest)
      BY <1>5 DEF Signal
    <2> QED BY <1>0, <2>1, PlaceRecInv DEF queueVars
  <1>6. CASE Call \/ PushGivesUp \/ Join \/ Leave
    <2>1. /\ UNCHANGED <<pubVars, net, msg, last_seq, received, pending, queueVars, history>>
          /\ g_stop' = g_stop /\ pc' \in {"blocked", "drain", "leave", "done"}
          /\ (harvest' = [i |-> 1, msgs |-> << >>] \/ harvest' = harvest)
      BY <1>6 DEF Call, PushGivesUp, Join, Leave
    <2> QED BY <1>0, <2>1, PlaceRecInv DEF queueVars
  <1>7. CASE EndDrain
    <2>1. /\ UNCHANGED <<pubVars, net, msg, last_seq, received, pending, g_stop, queue, worker, history>>
          /\ pc' \in {"join", "last_drain", "loop"} /\ closed' \in BOOLEAN
          /\ harvest' = [i |-> 1, msgs |-> << >>]
      BY <1>7 DEF EndDrain
    <2> QED BY <1>0, <2>1, PlaceRecInv
  <1>8. CASE WorkerExits
    <2>1. UNCHANGED <<pubVars, net, recvVars, queue, closed, history>> /\ worker' = "exited"
      BY <1>8 DEF WorkerExits
    <2>2. TypeOK'
      BY <1>i, <2>1 DEF TypeOK, pubVars, recvVars
    <2>3. Answers' = Answers
      BY <2>1 DEF Answers, history
    <2> QED BY <2>1, <2>2, <2>3 DEF RecInv, recvVars, history
  <1>9. CASE UNCHANGED vars
    <2>1. UNCHANGED <<pubVars, net, recvVars, queueVars, history>>
      BY <1>9 DEF vars
    <2> QED BY <1>0, <2>1, PlaceRecInv DEF recvVars, queueVars
  <1> QED BY <1>1, <1>2, <1>3, <1>4, <1>5, <1>6, <1>7, <1>8, <1>9 DEF Next, ReceiveLoop

\* A recovery returns what was asked for and nothing else, for every number of
\* messages, every ring, request limit, queue and cap, and however late the requests
\* are served: the worker processes nothing that was neither received nor asked for.
THEOREM RecoveriesAreExact == Spec => []RecoveryExact
  <1>1. RecInv => RecoveryExact
    <2> SUFFICES ASSUME RecInv PROVE RecoveryExact
      OBVIOUS
    <2>1. TypeOK /\ pending \in Seq(Answers) /\ asked \subseteq gap /\ processed \subseteq seen \cup asked
      BY DEF RecInv
    <2>2. ASSUME NEW i \in DOMAIN pending
          PROVE  /\ Len(pending[i].msgs) <= pending[i].count
                 /\ \A k \in DOMAIN pending[i].msgs : pending[i].msgs[k] = pending[i].from + k - 1
      <3>1. pending[i] \in Answers
        BY <2>1
      <3>2. pending[i].msgs \in Seq(Nat)
        BY <3>1 DEF Answers, Recovery
      <3>3. DOMAIN pending[i].msgs = 1 .. Len(pending[i].msgs)
        BY <3>2
      <3> QED BY <3>1, <3>3 DEF Answers
    <2> QED BY <2>1, <2>2 DEF RecoveryExact
  <1> QED BY <1>1, InitRecInv, NextRecInv, PTL DEF Spec
============================================================================
