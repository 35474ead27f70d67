--------------------------- MODULE FeedSyncProofs ---------------------------
(***************************************************************************)
(* For every kind of book and message, every packet size and every loss,   *)
(* duplication and reordering: the trader's replica is exact.              *)
(***************************************************************************)
EXTENDS FeedSync, TLAPS

LEMMA InitIInv == Init => IInv
  <1> SUFFICES ASSUME Init PROVE IInv
    OBVIOUS
  <1> USE BookAssumption, BoundAssumption DEF Init, NoPacket, Connection
  <1>1. TypeOK
    <2>1. hist \in Seq(Books) /\ log \in Seq(Msgs) /\ rest \in Packets
      BY DEF Packets
    <2>2. DOMAIN reply = {"state", "orders", "next"} /\ reply.state = "none"
      OBVIOUS
    <2>3. synced \in BOOLEAN /\ starting \in BOOLEAN
      BY Zenon
    <2>4. /\ next_seq \in Nat /\ count \in 0 .. PktCap /\ expected \in Nat
          /\ net = {} /\ pc \in {"idle", "packet", "call", "wait", "exited"}
      OBVIOUS
    <2> HIDE DEF Init
    <2> QED BY <2>1, <2>2, <2>3, <2>4 DEF TypeOK
  <1>2. Chain /\ Network /\ TraderInv /\ SnapshotInv /\ ReplicaExact
    BY DEF Chain, Network, TraderInv, SnapshotInv, ReplicaExact
  <1> QED BY <1>1, <1>2 DEF IInv

\* What is left of a packet after a message was looked at is still genuine.
LEMMA LaterGenuine ==
  ASSUME rest \in Packets, Genuine(rest), rest.msgs # << >>, next_seq \in Nat
  PROVE  Later \in Packets /\ Genuine(Later) /\ Head(rest.msgs) = log[rest.seq]
                            /\ rest.seq \in 1 .. next_seq - 1
  <1>1. /\ Tail(rest.msgs) \in Seq(Msgs)
        /\ Len(Tail(rest.msgs)) = Len(rest.msgs) - 1
        /\ \A i \in 1 .. Len(Tail(rest.msgs)) : Tail(rest.msgs)[i] = rest.msgs[i + 1]
        /\ Head(rest.msgs) = rest.msgs[1]
        /\ Len(rest.msgs) \in Nat \ {0}
        /\ rest.seq \in Nat
    BY DEF Packets
  <1>2. \A i \in 1 .. Len(Tail(rest.msgs)) : Tail(rest.msgs)[i] = log[rest.seq + 1 + i - 1]
    <2> TAKE i \in 1 .. Len(Tail(rest.msgs))
    <2>1. i + 1 \in 1 .. Len(rest.msgs) /\ rest.seq + (i + 1) - 1 = rest.seq + 1 + i - 1
      BY <1>1
    <2> QED BY <1>1, <2>1 DEF Genuine
  <1> QED BY <1>1, <1>2 DEF Later, Packets, Genuine

\* The batch is a genuine packet once its numbers are used up.
LEMMA BatchGenuine ==
  ASSUME TypeOK, Chain
  PROVE  /\ Batch \in Packets
         /\ Batch.seq + Len(Batch.msgs) = next_seq + count
         /\ Batch.seq >= 1
         /\ \A i \in 1 .. Len(Batch.msgs) : Batch.msgs[i] = log[Batch.seq + i - 1]
  <1>1. /\ next_seq \in Nat /\ count \in Nat /\ Len(log) \in Nat
        /\ next_seq >= 1 /\ next_seq + count = Len(log) + 1
    BY BoundAssumption DEF TypeOK, Chain
  <1>2. /\ Batch.msgs \in Seq(Msgs)
        /\ Len(Batch.msgs) = count
        /\ \A i \in 1 .. count : Batch.msgs[i] = log[next_seq + i - 1]
    BY <1>1 DEF Batch, TypeOK
  <1> QED BY <1>1, <1>2 DEF Batch, Packets

\* A genuine packet stays genuine: published messages do not change.
LEMMA GenuineStable ==
  ASSUME TypeOK, Chain, NEW p \in Packets, Genuine(p), next_seq' \in Nat, next_seq' >= next_seq,
         \A n \in 1 .. Len(log) : log'[n] = log[n]
  PROVE  Genuine(p)'
  <1>1. next_seq \in Nat /\ Len(log) \in Nat /\ next_seq <= Len(log) + 1
    BY BoundAssumption DEF TypeOK, Chain
  <1>2. ASSUME NEW i \in 1 .. Len(p.msgs) PROVE p.msgs[i] = log'[p.seq + i - 1]
    <2>1. p.msgs[i] = log[p.seq + i - 1]
      BY DEF Genuine
    <2>2. p.seq + i - 1 \in 1 .. Len(log)
      BY <1>1 DEF Genuine, Packets
    <2> QED BY <2>1, <2>2
  <1> QED BY <1>1, <1>2 DEF Genuine, Packets

\* Flushing keeps the network genuine, whether the packet is sent or lost.
LEMMA FlushNetwork ==
  ASSUME TypeOK, Chain, Network, FlushBatch,
         \A n \in 1 .. Len(log) : log'[n] = log[n]
  PROVE  Network' /\ (\A p \in net' : p \in Packets) /\ next_seq' = Len(log) + 1
  <1>1. next_seq \in Nat /\ count \in Nat /\ Len(log) \in Nat /\ next_seq + count = Len(log) + 1
    BY BoundAssumption DEF TypeOK, Chain
  <1>2. next_seq' = next_seq + count
    BY DEF FlushBatch
  <1>3. ASSUME NEW p \in net PROVE p \in Packets /\ Genuine(p)'
    BY <1>1, <1>2, GenuineStable DEF TypeOK, Network
  <1>4. ASSUME NEW q, q = Batch PROVE q \in Packets /\ Genuine(q)'
    <2>1. ASSUME NEW i \in 1 .. Len(q.msgs) PROVE q.msgs[i] = log'[q.seq + i - 1]
      <3>1. q.seq + i - 1 \in 1 .. Len(log)
        BY <1>1, <1>4, BatchGenuine DEF Packets
      <3> QED BY <1>4, <3>1, BatchGenuine
    <2>2. q.seq + Len(q.msgs) <= next_seq' /\ q.seq >= 1 /\ q \in Packets
      BY <1>1, <1>2, <1>4, BatchGenuine
    <2> QED BY <2>1, <2>2 DEF Genuine
  <1> QED BY <1>1, <1>2, <1>3, <1>4 DEF FlushBatch, Network

\* A step of the exchange that only adds to the history leaves the trader right.
LEMMA ExchangeKeeps ==
  ASSUME IInv, UNCHANGED tvars, UNCHANGED reply,
         next_seq' \in Nat, next_seq' >= next_seq,
         Len(hist') \in Nat, Len(hist') >= Len(hist),
         \A n \in 1 .. Len(hist) : hist'[n] = hist[n],
         \A n \in 1 .. Len(log) : log'[n] = log[n]
  PROVE  TraderInv' /\ SnapshotInv' /\ ReplicaExact'
  <1>1. /\ next_seq \in Nat /\ Len(hist) \in Nat /\ next_seq <= Len(hist)
        /\ expected \in 1 .. next_seq
    BY BoundAssumption DEF IInv, TypeOK, Chain, TraderInv
  <1>2. TraderInv'
    <2>1. pc = "packet" => synced /\ Genuine(rest)'
      BY GenuineStable DEF IInv, TraderInv, TypeOK, tvars
    <2> QED BY <1>1, <2>1 DEF IInv, TraderInv, tvars, Genuine
  <1>3. SnapshotInv'
    BY <1>1 DEF IInv, SnapshotInv, tvars
  <1>4. ReplicaExact'
    BY <1>1 DEF IInv, ReplicaExact, tvars
  <1> QED BY <1>2, <1>3, <1>4

LEMMA PublishIInv == ASSUME IInv, NEW m \in Msgs, Publish(m) PROVE IInv'
  <1> DEFINE b == Apply(Book, m)
  <1>1. /\ Len(log) \in Nat /\ Len(hist) = Len(log) + 1 /\ next_seq \in Nat /\ count \in Nat
        /\ next_seq >= 1 /\ next_seq + count = Len(log) + 1
        /\ hist \in Seq(Books) /\ log \in Seq(Msgs)
    BY BoundAssumption DEF IInv, TypeOK, Chain
  <1>2. Book = hist[Len(log) + 1] /\ Book \in Books /\ b \in Books /\ Valid(Book, m)
    BY <1>1, BookAssumption DEF Book, Publish
  <1>3. /\ log' \in Seq(Msgs) /\ Len(log') = Len(log) + 1 /\ log'[Len(log) + 1] = m
        /\ \A n \in 1 .. Len(log) : log'[n] = log[n]
    BY <1>1 DEF Publish
  <1>4. /\ hist' \in Seq(Books) /\ Len(hist') = Len(hist) + 1 /\ hist'[Len(hist) + 1] = b
        /\ \A n \in 1 .. Len(hist) : hist'[n] = hist[n]
    BY <1>1, <1>2 DEF Publish
  <1> HIDE DEF b
  <1>5. /\ next_seq' \in Nat /\ next_seq' >= next_seq /\ count' \in 0 .. PktCap
        /\ next_seq' + count' = Len(log') + 1
    BY <1>1, <1>3, BoundAssumption DEF Publish, FlushBatch, IInv, TypeOK
  <1>6. Network' /\ \A p \in net' : p \in Packets
    <2>1. CASE net' = net
      BY <1>3, <1>5, <2>1, GenuineStable DEF IInv, TypeOK, Network
    <2>2. CASE FlushBatch
      BY <1>3, <2>2, FlushNetwork DEF IInv
    <2> QED BY <2>1, <2>2 DEF Publish
  <1>7. Chain'
    <2>1. ASSUME NEW n \in 1 .. Len(log')
          PROVE  Valid(hist'[n], log'[n]) /\ hist'[n + 1] = Apply(hist'[n], log'[n])
      <3>1. CASE n = Len(log) + 1
        BY <1>1, <1>2, <1>3, <1>4, <3>1 DEF b
      <3>2. CASE n \in 1 .. Len(log)
        <4>1. Valid(hist[n], log[n]) /\ hist[n + 1] = Apply(hist[n], log[n])
          BY <3>2 DEF IInv, Chain
        <4> QED BY <1>1, <1>3, <1>4, <3>2, <4>1
      <3> QED BY <1>1, <1>3, <3>1, <3>2
    <2> QED BY <1>1, <1>3, <1>4, <1>5, <2>1 DEF Chain
  <1>8. TypeOK'
    BY <1>3, <1>4, <1>5, <1>6 DEF IInv, TypeOK, Publish, tvars
  <1>9. (TraderInv /\ SnapshotInv /\ ReplicaExact)'
    BY <1>1, <1>3, <1>4, <1>5, ExchangeKeeps DEF Publish
  <1> QED BY <1>6, <1>7, <1>8, <1>9 DEF IInv

LEMMA FlushIInv == ASSUME IInv, Flush PROVE IInv'
  <1>1. /\ Len(log) \in Nat /\ Len(hist) = Len(log) + 1 /\ next_seq \in Nat /\ count \in Nat
        /\ next_seq >= 1 /\ next_seq + count = Len(log) + 1
    BY BoundAssumption DEF IInv, TypeOK, Chain
  <1>2. log' = log /\ hist' = hist /\ count' = 0 /\ UNCHANGED tvars /\ UNCHANGED reply
    BY DEF Flush
  <1>3. Network' /\ (\A p \in net' : p \in Packets) /\ next_seq' = Len(log) + 1
    BY <1>2, FlushNetwork DEF IInv, Flush
  <1>4. Chain'
    BY <1>1, <1>2, <1>3 DEF IInv, Chain
  <1>5. TypeOK'
    BY <1>1, <1>2, <1>3, BoundAssumption DEF IInv, TypeOK, tvars
  <1>6. (TraderInv /\ SnapshotInv /\ ReplicaExact)'
    BY <1>1, <1>2, <1>3, ExchangeKeeps
  <1> QED BY <1>3, <1>4, <1>5, <1>6 DEF IInv

LEMMA HeartbeatIInv == ASSUME IInv, Heartbeat PROVE IInv'
  <1> USE DEF Heartbeat
  <1>1. next_seq \in Nat /\ Len(hist) \in Nat
    BY DEF IInv, TypeOK
  <1>2. (\A p \in net' : p \in Packets) /\ Network'
    <2>1. ASSUME NEW p \in net PROVE p \in Packets /\ Genuine(p)'
      BY <1>1, GenuineStable DEF IInv, TypeOK, Network
    <2>2. ASSUME NEW q, q = [seq |-> next_seq, msgs |-> << >>] PROVE q \in Packets /\ Genuine(q)'
      <3>1. q.msgs = << >> /\ Len(q.msgs) = 0 /\ q.seq = next_seq
        BY <2>2
      <3>2. q \in Packets
        BY <1>1, <2>2 DEF Packets
      <3> QED BY <1>1, <3>1, <3>2 DEF Genuine
    <2> QED BY <2>1, <2>2 DEF Network
  <1>3. Chain'
    BY DEF IInv, Chain
  <1>4. TypeOK'
    BY <1>2 DEF IInv, TypeOK, tvars
  <1>5. (TraderInv /\ SnapshotInv /\ ReplicaExact)'
    BY <1>1, ExchangeKeeps
  <1> QED BY <1>2, <1>3, <1>4, <1>5 DEF IInv

LEMMA SendSnapshotIInv == ASSUME IInv, SendSnapshot PROVE IInv'
  <1>1. /\ Len(log) \in Nat /\ Len(hist) = Len(log) + 1 /\ next_seq \in Nat /\ count \in Nat
        /\ next_seq >= 1 /\ next_seq + count = Len(log) + 1 /\ expected \in 1 .. next_seq
    BY BoundAssumption DEF IInv, TypeOK, Chain, TraderInv
  <1>2. log' = log /\ hist' = hist /\ count' = 0 /\ UNCHANGED tvars
    BY DEF SendSnapshot
  <1>3. Network' /\ (\A p \in net' : p \in Packets) /\ next_seq' = Len(log) + 1
    BY <1>2, FlushNetwork DEF IInv, SendSnapshot
  <1>4. reply' = [state |-> "sent", orders |-> Dump(Book), next |-> next_seq']
    BY DEF SendSnapshot
  <1>5. Chain'
    BY <1>1, <1>2, <1>3 DEF IInv, Chain
  <1>6. TypeOK'
    BY <1>1, <1>2, <1>3, <1>4, BoundAssumption DEF IInv, TypeOK, tvars
  <1>7. TraderInv'
    <2>1. pc = "packet" => FALSE
      BY DEF IInv, TraderInv, SendSnapshot
    <2> QED BY <1>1, <1>2, <1>3, <1>4, <2>1 DEF IInv, TraderInv, tvars, SendSnapshot
  <1>8. SnapshotInv'
    BY <1>1, <1>2, <1>3, <1>4 DEF SnapshotInv, Book, tvars
  <1>9. ReplicaExact'
    BY <1>2 DEF IInv, ReplicaExact, tvars
  <1> QED BY <1>3, <1>5, <1>6, <1>7, <1>8, <1>9 DEF IInv

\* A step of the trader leaves the exchange's side alone.
LEMMA TraderKeeps ==
  ASSUME IInv, UNCHANGED xvars
  PROVE  /\ Chain' /\ Network'
         /\ \A p : Genuine(p)' <=> Genuine(p)
         /\ log' \in Seq(Msgs) /\ hist' \in Seq(Books) /\ next_seq' \in Nat
         /\ count' \in 0 .. PktCap /\ \A p \in net' : p \in Packets
  BY DEF IInv, xvars, Chain, Network, Genuine, TypeOK

\* Facts about the trader's own numbers, used in each of its steps.
LEMMA TraderFacts ==
  ASSUME IInv
  PROVE  /\ next_seq \in Nat /\ Len(hist) \in Nat /\ Len(log) \in Nat
         /\ Len(hist) = Len(log) + 1
         /\ next_seq <= Len(hist)
         /\ expected \in 1 .. next_seq
  BY BoundAssumption DEF IInv, TypeOK, Chain, TraderInv

LEMMA ReceivePacketIInv ==
  ASSUME IInv, NEW p \in net, ReceivePacket(p) PROVE IInv'
  <1> USE DEF ReceivePacket
  <1>1. TypeOK'
    BY TraderKeeps DEF IInv, TypeOK
  <1>2. Genuine(p)'
    BY TraderKeeps DEF IInv, Network
  <1>3. TraderInv'
    BY <1>2 DEF IInv, TraderInv, xvars, Genuine
  <1>4. (SnapshotInv /\ ReplicaExact)'
    BY DEF IInv, SnapshotInv, ReplicaExact, xvars
  <1> QED BY <1>1, <1>3, <1>4, TraderKeeps DEF IInv

LEMMA ReceiveHeartbeatIInv ==
  ASSUME IInv, NEW p \in net, ReceiveHeartbeat(p) PROVE IInv'
  <1> USE DEF ReceiveHeartbeat, Resync
  <1>1. TypeOK'
    BY TraderKeeps, Zenon DEF IInv, TypeOK
  <1>2. (TraderInv /\ SnapshotInv /\ ReplicaExact)'
    BY DEF IInv, TraderInv, SnapshotInv, ReplicaExact, xvars
  <1> QED BY <1>1, <1>2, TraderKeeps DEF IInv

LEMMA ApplyMessageIInv == ASSUME IInv, ApplyMessage PROVE IInv'
  <1> DEFINE m == Head(rest.msgs)
  <1>1. /\ rest.msgs # << >> /\ rest.seq = expected /\ pc = "packet"
        /\ expected' = expected + 1
        /\ UNCHANGED <<reply, starting>> /\ UNCHANGED xvars
    BY DEF ApplyMessage
  <1>2. Later \in Packets /\ Genuine(Later) /\ m = log[expected] /\ expected \in 1 .. next_seq - 1
    BY <1>1, LaterGenuine DEF IInv, TypeOK, TraderInv
  <1>3. synced /\ tbook = hist[expected] /\ reply.state = "none"
    BY <1>1 DEF IInv, TraderInv, ReplicaExact, TypeOK
  <1>4. Valid(hist[expected], m) /\ hist[expected + 1] = Apply(hist[expected], m)
    BY <1>2, TraderFacts DEF IInv, Chain
  <1>5. tbook' = hist[expected + 1] /\ rest' = Later /\ synced' = synced /\ pc' = pc
    BY <1>3, <1>4 DEF ApplyMessage
  <1> HIDE DEF m
  <1>6. TypeOK'
    BY <1>1, <1>2, <1>5, TraderKeeps, TraderFacts DEF IInv, TypeOK
  <1>7. TraderInv'
    <2>1. Genuine(rest)'
      BY <1>1, <1>2, <1>5 DEF Genuine, xvars
    <2> QED BY <1>1, <1>2, <1>3, <1>5, <2>1, TraderFacts DEF IInv, TraderInv, xvars
  <1>8. SnapshotInv'
    BY <1>1, <1>3 DEF SnapshotInv
  <1>9. ReplicaExact'
    BY <1>1, <1>2, <1>5, TraderFacts DEF ReplicaExact, xvars
  <1> QED BY <1>1, <1>6, <1>7, <1>8, <1>9, TraderKeeps DEF IInv

LEMMA SkipDuplicateIInv == ASSUME IInv, SkipDuplicate PROVE IInv'
  <1> USE DEF SkipDuplicate
  <1>1. Later \in Packets /\ Genuine(Later)
    BY LaterGenuine DEF IInv, TypeOK, TraderInv
  <1>2. TypeOK'
    BY <1>1, TraderKeeps DEF IInv, TypeOK
  <1>3. TraderInv'
    <2>1. Genuine(rest)'
      BY <1>1 DEF Genuine, xvars
    <2> QED BY <2>1 DEF IInv, TraderInv, xvars
  <1>4. (SnapshotInv /\ ReplicaExact)'
    BY DEF IInv, SnapshotInv, ReplicaExact, xvars
  <1> QED BY <1>2, <1>3, <1>4, TraderKeeps DEF IInv

LEMMA MessageGapIInv == ASSUME IInv, MessageGap PROVE IInv'
  <1> USE DEF MessageGap, Resync
  <1>1. NoPacket \in Packets
    BY DEF NoPacket, Packets
  <1>2. TypeOK'
    BY <1>1, TraderKeeps, Zenon DEF IInv, TypeOK
  <1>3. (TraderInv /\ SnapshotInv /\ ReplicaExact)'
    BY DEF IInv, TraderInv, SnapshotInv, ReplicaExact, xvars
  <1> QED BY <1>2, <1>3, TraderKeeps DEF IInv

LEMMA PacketDoneIInv == ASSUME IInv, PacketDone PROVE IInv'
  <1> USE DEF PacketDone
  <1>1. NoPacket \in Packets
    BY DEF NoPacket, Packets
  <1>2. TypeOK'
    BY <1>1, TraderKeeps DEF IInv, TypeOK
  <1>3. (TraderInv /\ SnapshotInv /\ ReplicaExact)'
    BY DEF IInv, TraderInv, SnapshotInv, ReplicaExact, xvars
  <1> QED BY <1>2, <1>3, TraderKeeps DEF IInv

LEMMA RetrySnapshotIInv == ASSUME IInv, RetrySnapshot PROVE IInv'
  <1> USE DEF RetrySnapshot
  <1>1. TypeOK'
    BY TraderKeeps DEF IInv, TypeOK
  <1>2. (TraderInv /\ SnapshotInv /\ ReplicaExact)'
    BY DEF IInv, TraderInv, SnapshotInv, ReplicaExact, xvars
  <1> QED BY <1>1, <1>2, TraderKeeps DEF IInv

LEMMA SnapshotAskIInv == ASSUME IInv, SnapshotAsk PROVE IInv'
  <1> USE DEF SnapshotAsk, Connection
  <1>1. TypeOK'
    BY TraderKeeps DEF IInv, TypeOK
  <1>2. (TraderInv /\ SnapshotInv /\ ReplicaExact)'
    BY DEF IInv, TraderInv, SnapshotInv, ReplicaExact, xvars
  <1> QED BY <1>1, <1>2, TraderKeeps DEF IInv

\* What a snapshot rebuilds is the book at the boundary it names.
LEMMA SnapshotLoads ==
  ASSUME IInv, reply.state = "sent"
  PROVE  reply.next \in expected .. next_seq /\ Load(reply.orders) = hist[reply.next]
  <1>1. reply.next \in expected .. next_seq /\ reply.orders = Dump(hist[reply.next])
    BY DEF IInv, SnapshotInv
  <1>2. hist[reply.next] \in Books
    BY <1>1, TraderFacts DEF IInv, TypeOK
  <1> QED BY <1>1, <1>2, RoundTripAssumption

LEMMA SnapshotDoneIInv == ASSUME IInv, SnapshotDone PROVE IInv'
  <1> USE DEF SnapshotDone, Connection
  <1>1. expected' \in expected .. next_seq /\ tbook' = hist[expected']
    BY SnapshotLoads
  <1>2. TypeOK'
    <2>1. expected' \in Nat
      BY <1>1, TraderFacts
    <2>2. reply'.state = "none" /\ DOMAIN reply' = {"state", "orders", "next"}
      OBVIOUS
    <2>3. synced' \in BOOLEAN /\ starting' \in BOOLEAN /\ pc' = "idle" /\ rest' = rest
      BY Zenon
    <2> HIDE DEF SnapshotDone, Connection
    <2> QED BY <2>1, <2>2, <2>3, TraderKeeps DEF IInv, TypeOK, SnapshotDone
  <1>3. TraderInv'
    BY <1>1, TraderFacts DEF IInv, TraderInv, xvars
  <1>4. SnapshotInv'
    BY DEF SnapshotInv
  <1>5. ReplicaExact'
    BY <1>1, TraderFacts DEF ReplicaExact, xvars
  <1> QED BY <1>2, <1>3, <1>4, <1>5, TraderKeeps DEF IInv

LEMMA SnapshotFailsIInv == ASSUME IInv, SnapshotFails PROVE IInv'
  <1>1. /\ UNCHANGED <<expected, synced, rest, starting>> /\ UNCHANGED xvars
        /\ pc \in {"call", "wait"}
        /\ pc' \in {"exited", "idle"}
        /\ reply' = Connection("none")
    BY DEF SnapshotFails
  <1>2. ~synced
    BY <1>1 DEF IInv, TraderInv, TypeOK
  <1>3. reply'.state = "none" /\ DOMAIN reply' = {"state", "orders", "next"}
    BY <1>1 DEF Connection
  <1>4. TypeOK'
    BY <1>1, <1>3, TraderKeeps DEF IInv, TypeOK
  <1>5. (TraderInv /\ SnapshotInv /\ ReplicaExact)'
    BY <1>1, <1>2, <1>3 DEF IInv, TraderInv, SnapshotInv, ReplicaExact, xvars
  <1> QED BY <1>1, <1>4, <1>5, TraderKeeps DEF IInv

LEMMA StutterIInv == ASSUME IInv, UNCHANGED vars PROVE IInv'
  BY DEF IInv, vars, TypeOK, Chain, Network, Genuine, TraderInv, SnapshotInv, ReplicaExact

LEMMA NextIInv == IInv /\ [Next]_vars => IInv'
  <1> SUFFICES ASSUME IInv, [Next]_vars PROVE IInv'
    OBVIOUS
  <1>1. CASE Exchange
    BY <1>1, PublishIInv, FlushIInv, HeartbeatIInv, SendSnapshotIInv DEF Exchange
  <1>2. CASE Trader
    BY <1>2, ReceivePacketIInv, ReceiveHeartbeatIInv, ApplyMessageIInv, SkipDuplicateIInv,
       MessageGapIInv, PacketDoneIInv, RetrySnapshotIInv, SnapshotAskIInv, SnapshotDoneIInv,
       SnapshotFailsIInv DEF Trader
  <1>3. CASE UNCHANGED vars
    BY <1>3, StutterIInv
  <1> QED BY <1>1, <1>2, <1>3 DEF Next

\* The inductive invariant holds: TypeOK, the chain of books, genuine packets.
THEOREM Invariance == Spec => []IInv
  BY InitIInv, NextIInv, PTL DEF Spec

\* The type invariant: in particular the replica is a book at all times, also in
\* the middle of a failed snapshot, and a packet carries messages of the feed.
THEOREM SyncTypeOK == Spec => []TypeOK
  BY Invariance, PTL DEF IInv

\* A synchronised replica is the exchange's book before message expected_.
THEOREM SyncReplicaExact == Spec => []ReplicaExact
  BY Invariance, PTL DEF IInv

\* A snapshot rebuilds the book before the message it resumes at, although
\* send_snapshot may run in the middle of a batch.
THEOREM SyncSnapshotExact == Spec => []SnapshotExact
  <1>1. IInv => SnapshotExact
    BY SnapshotLoads, TraderFacts DEF SnapshotExact
  <1> QED BY <1>1, Invariance, PTL

\* apply_itch never answers Inconsistent to a synchronised trader.
THEOREM SyncNeverInconsistent == Spec => []NeverInconsistent
  <1>1. IInv => NeverInconsistent
    <2> SUFFICES ASSUME IInv, pc = "packet", rest.msgs # << >>, rest.seq = expected
                 PROVE  Valid(tbook, Head(rest.msgs))
      BY DEF NeverInconsistent
    <2>1. Head(rest.msgs) = log[expected] /\ expected \in 1 .. next_seq - 1
      BY LaterGenuine DEF IInv, TypeOK, TraderInv
    <2>2. tbook = hist[expected]
      BY DEF IInv, ReplicaExact
    <2> QED BY <2>1, <2>2, TraderFacts DEF IInv, Chain
  <1> QED BY <1>1, Invariance, PTL

\* No step of the exchange or of the trader lowers expected_.
THEOREM SyncNeverBack == Spec => NeverBack
  <1>1. ASSUME IInv, [Next]_vars PROVE [expected' >= expected]_vars
    <2>1. expected \in Nat
      BY <1>1 DEF IInv, TypeOK
    <2>2. CASE Exchange
      BY <2>1, <2>2 DEF Exchange, Publish, Flush, Heartbeat, SendSnapshot, tvars
    <2>3. CASE SnapshotDone
      BY <1>1, <2>1, <2>3, SnapshotLoads, TraderFacts DEF SnapshotDone
    <2>4. CASE Trader /\ ~SnapshotDone
      BY <2>1, <2>4 DEF Trader, ReceivePacket, ReceiveHeartbeat, ApplyMessage, SkipDuplicate,
         MessageGap, PacketDone, RetrySnapshot, SnapshotAsk, SnapshotFails
    <2> QED BY <2>2, <2>3, <2>4, <1>1 DEF Next
  <1> QED BY <1>1, Invariance, PTL DEF Spec, NeverBack
============================================================================
