------------------------------ MODULE FeedSync ------------------------------
(***************************************************************************)
(* The trader's replica of one order book (src/trader.cpp) kept in step    *)
(* with the exchange (MarketDataFeed and send_snapshot in                  *)
(* src/exchange.cpp): a numbered multicast feed that loses, duplicates and *)
(* reorders packets, heartbeats, and a snapshot over TCP that tells where  *)
(* to resume.                                                              *)
(*                                                                         *)
(* The book and the messages are parameters: Valid(b, m) says that m is    *)
(* not Inconsistent with b, Apply(b, m) is the book after it (apply_itch), *)
(* Dump(b) the orders a snapshot lists and Load(s) the book rebuilt from   *)
(* such a list.  A packet of the network is never consumed: it may be      *)
(* delivered late, again, or never.                                        *)
(***************************************************************************)
EXTENDS Integers, Sequences

CONSTANTS
  Books, Book0,                              \* replicas; the empty one
  Msgs, Valid(_, _), Apply(_, _),            \* messages and apply_itch
  Dump(_), Load(_),                          \* for_each_order; the snapshot loop
  PktCap,                                    \* messages that fit in a packet
  MaxMsgs                                    \* bound on the messages published

ASSUME BookAssumption ==
  /\ Book0 \in Books
  /\ \A b \in Books, m \in Msgs : Valid(b, m) => Apply(b, m) \in Books

\* A snapshot's list of orders rebuilds the book it was made from, priorities
\* included.
ASSUME RoundTripAssumption == \A b \in Books : Load(Dump(b)) = b

ASSUME BoundAssumption == PktCap \in Nat \ {0} /\ MaxMsgs \in Nat

VARIABLES
  log,       \* history: log[n] is the message with sequence number n
  hist,      \* history: hist[n] is the exchange's book before message n
  next_seq,  \* MarketDataFeed::next_seq_, the number of the batch's first message
  count,     \* pkt_.count()
  net,       \* the packets sent
  tbook,     \* Trader::book_
  expected,  \* SequenceTracker::expected_
  synced,    \* synced_
  pc,        \* where the trader is: "idle" in pump, "packet" in handle_packet,
             \* "call" and "wait" in snapshot(), "exited"
  rest,      \* what handle_packet has still to look at
  reply,     \* the snapshot connection: "none", "asked" or "sent", and what was sent
  starting   \* the trader has not had its first snapshot yet

xvars == <<log, hist, next_seq, count, net>>
tvars == <<tbook, expected, synced, pc, rest, starting>>
vars == <<log, hist, next_seq, count, net, tbook, expected, synced, pc, rest, reply, starting>>

Book == hist[Len(hist)]
NoPacket == [seq |-> 0, msgs |-> << >>]
Connection(state) == [state |-> state, orders |-> << >>, next |-> 0]

Init ==
  /\ log = << >>
  /\ hist = <<Book0>>
  /\ next_seq = 1
  /\ count = 0
  /\ net = {}
  /\ tbook = Book0
  /\ expected = 1
  /\ synced = FALSE
  /\ pc = "call"
  /\ rest = NoPacket
  /\ reply = Connection("none")
  /\ starting = TRUE
----------------------------------------------------------------------------
(* The exchange. *)

\* The packet under construction.
Batch == [seq |-> next_seq, msgs |-> SubSeq(log, next_seq, next_seq + count - 1)]

\* flush: an empty batch is not sent; the numbers are used up even when the
\* packet is dropped (drop_every_) or sendto fails.
FlushBatch ==
  /\ \/ count > 0 /\ net' = net \cup {Batch}
     \/ net' = net
  /\ next_seq' = next_seq + count

\* A change of the book is published: the message joins the batch, which is
\* flushed first when it is full.
Publish(m) ==
  /\ Len(log) < MaxMsgs
  /\ Valid(Book, m)
  /\ log' = Append(log, m)
  /\ hist' = Append(hist, Apply(Book, m))
  /\ \/ /\ count < PktCap
        /\ count' = count + 1
        /\ UNCHANGED <<net, next_seq>>
     \/ /\ count = PktCap
        /\ FlushBatch
        /\ count' = 1
  /\ UNCHANGED tvars
  /\ UNCHANGED reply

\* The end of an iteration of the event loop.
Flush ==
  /\ count > 0
  /\ FlushBatch
  /\ count' = 0
  /\ UNCHANGED <<log, hist, reply>>
  /\ UNCHANGED tvars

\* heartbeat_if_idle: an empty packet with the next number.
Heartbeat ==
  /\ count = 0
  /\ net' = net \cup {[seq |-> next_seq, msgs |-> << >>]}
  /\ UNCHANGED <<log, hist, next_seq, count, reply>>
  /\ UNCHANGED tvars

\* send_snapshot: flush, then the book and the number that comes next.
SendSnapshot ==
  /\ reply.state = "asked"
  /\ FlushBatch
  /\ count' = 0
  /\ reply' = [state |-> "sent", orders |-> Dump(Book), next |-> next_seq']
  /\ UNCHANGED <<log, hist>>
  /\ UNCHANGED tvars

Exchange ==
  \/ \E m \in Msgs : Publish(m)
  \/ Flush
  \/ Heartbeat
  \/ SendSnapshot
----------------------------------------------------------------------------
(* The trader. *)

\* resync: the book is stale and snapshot() is called.
Resync ==
  /\ synced' = FALSE
  /\ pc' = "call"

\* handle_packet up to its loop.  Packets that arrive while the book is stale
\* are discarded; a heartbeat may show that messages were missed.
ReceivePacket(p) ==
  /\ pc = "idle" /\ synced
  /\ p \in net
  /\ p.msgs # << >>
  /\ pc' = "packet"
  /\ rest' = p
  /\ UNCHANGED <<tbook, expected, synced, reply, starting>>
  /\ UNCHANGED xvars

\* Faulty variant: only a heartbeat two ahead is a gap.
ReceiveHeartbeatLate(p) ==
  /\ pc = "idle" /\ synced
  /\ p \in net
  /\ p.msgs = << >>
  /\ p.seq > expected + 1
  /\ Resync
  /\ UNCHANGED <<tbook, expected, rest, reply, starting>>
  /\ UNCHANGED xvars

ReceiveHeartbeat(p) ==
  /\ pc = "idle" /\ synced
  /\ p \in net
  /\ p.msgs = << >>
  /\ p.seq > expected
  /\ Resync
  /\ UNCHANGED <<tbook, expected, rest, reply, starting>>
  /\ UNCHANGED xvars

\* One message of the packet: SequenceTracker::on_message and apply_itch.
Later == [seq |-> rest.seq + 1, msgs |-> Tail(rest.msgs)]

\* Faulty variant: a duplicate is applied again.
ApplyDuplicate ==
  /\ pc = "packet" /\ rest.msgs # << >>
  /\ rest.seq <= expected
  /\ expected' = rest.seq + 1
  /\ IF Valid(tbook, Head(rest.msgs))
       THEN /\ tbook' = Apply(tbook, Head(rest.msgs))
            /\ rest' = Later
            /\ UNCHANGED <<synced, pc>>
       ELSE Resync /\ rest' = NoPacket /\ UNCHANGED tbook
  /\ UNCHANGED <<reply, starting>>
  /\ UNCHANGED xvars

\* The expected message.  Its number is used up even when it does not fit the
\* book; then the rest of the packet is skipped.
ApplyMessage ==
  /\ pc = "packet" /\ rest.msgs # << >>
  /\ rest.seq = expected
  /\ expected' = expected + 1
  /\ IF Valid(tbook, Head(rest.msgs))
       THEN /\ tbook' = Apply(tbook, Head(rest.msgs))
            /\ rest' = Later
            /\ UNCHANGED <<synced, pc>>
       ELSE Resync /\ rest' = NoPacket /\ UNCHANGED tbook
  /\ UNCHANGED <<reply, starting>>
  /\ UNCHANGED xvars

SkipDuplicate ==
  /\ pc = "packet" /\ rest.msgs # << >>
  /\ rest.seq < expected
  /\ rest' = Later
  /\ UNCHANGED <<tbook, expected, synced, pc, reply, starting>>
  /\ UNCHANGED xvars

\* Faulty variant: a gap is passed over.
MessageGapIgnored ==
  /\ pc = "packet" /\ rest.msgs # << >>
  /\ rest.seq > expected
  /\ expected' = rest.seq
  /\ UNCHANGED <<tbook, synced, pc, rest, reply, starting>>
  /\ UNCHANGED xvars

\* A message beyond the expected one: the rest of the packet is skipped.
MessageGap ==
  /\ pc = "packet" /\ rest.msgs # << >>
  /\ rest.seq > expected
  /\ Resync
  /\ rest' = NoPacket
  /\ UNCHANGED <<tbook, expected, reply, starting>>
  /\ UNCHANGED xvars

\* The packet is done; the strategy looks at the book here (maybe_trade).
PacketDone ==
  /\ pc = "packet" /\ rest.msgs = << >>
  /\ pc' = "idle"
  /\ rest' = NoPacket
  /\ UNCHANGED <<tbook, expected, synced, reply, starting>>
  /\ UNCHANGED xvars

\* on_timer: a stale book is snapshotted again.
RetrySnapshot ==
  /\ pc = "idle" /\ ~synced
  /\ pc' = "call"
  /\ UNCHANGED <<tbook, expected, synced, rest, reply, starting>>
  /\ UNCHANGED xvars

\* snapshot(): connected, the login sent, the book cleared.
SnapshotAsk ==
  /\ pc = "call"
  /\ pc' = "wait"
  /\ reply' = Connection("asked")
  /\ tbook' = Book0
  /\ UNCHANGED <<expected, synced, rest, starting>>
  /\ UNCHANGED xvars

\* snapshot() returns true: End Of Snapshot was read.
SnapshotDone ==
  /\ pc = "wait" /\ reply.state = "sent"
  /\ tbook' = Load(reply.orders)
  /\ expected' = reply.next
  /\ synced' = TRUE
  /\ starting' = FALSE
  /\ pc' = "idle"
  /\ reply' = Connection("none")
  /\ UNCHANGED rest
  /\ UNCHANGED xvars

\* snapshot() returns false: the connection was refused, or timed out or ended
\* when some of the orders had been read.  The first time, run() gives up.
SnapshotFails ==
  /\ \/ pc = "call" /\ tbook' = tbook
     \/ pc = "wait" /\ reply.state = "asked" /\ tbook' = tbook
     \/ /\ pc = "wait" /\ reply.state = "sent"
        /\ \E k \in 0 .. Len(reply.orders) : tbook' = Load(SubSeq(reply.orders, 1, k))
  /\ pc' = IF starting THEN "exited" ELSE "idle"
  /\ reply' = Connection("none")
  /\ UNCHANGED <<expected, synced, rest, starting>>
  /\ UNCHANGED xvars

Trader ==
  \/ \E p \in net : ReceivePacket(p) \/ ReceiveHeartbeat(p)
  \/ ApplyMessage \/ SkipDuplicate \/ MessageGap \/ PacketDone
  \/ RetrySnapshot \/ SnapshotAsk \/ SnapshotDone \/ SnapshotFails

Next == Exchange \/ Trader

Spec == Init /\ [][Next]_vars
----------------------------------------------------------------------------
(***************************************************************************)
(* Fairness.  The exchange's loop runs and its timer sends a heartbeat a   *)
(* second whenever the feed is quiet; the trader's loop runs.  The network *)
(* may lose any packet but not every heartbeat for ever, and not every     *)
(* attempt at a snapshot fails.                                            *)
(***************************************************************************)
Fairness ==
  /\ WF_vars(Flush)
  /\ WF_vars(Heartbeat)
  /\ WF_vars(ApplyMessage \/ SkipDuplicate \/ MessageGap \/ PacketDone)
  /\ WF_vars(RetrySnapshot)
  /\ SF_vars(\E p \in net : p.seq = next_seq /\ ReceiveHeartbeat(p))
  /\ SF_vars(SnapshotAsk)
  /\ SF_vars(SendSnapshot)
  /\ SF_vars(SnapshotDone)

FairSpec == Spec /\ Fairness
----------------------------------------------------------------------------
Packets == [seq : Nat, msgs : Seq(Msgs)]

\* Every variable holds a value of its type, a packet carries messages of the
\* feed, the replica is a book.
TypeOK ==
  /\ log \in Seq(Msgs)
  /\ hist \in Seq(Books)
  /\ next_seq \in Nat /\ count \in 0 .. PktCap
  /\ \A p \in net : p \in Packets
  /\ expected \in Nat
  /\ synced \in BOOLEAN /\ starting \in BOOLEAN
  /\ pc \in {"idle", "packet", "call", "wait", "exited"}
  /\ rest \in Packets
  /\ DOMAIN reply = {"state", "orders", "next"}
  /\ reply.state \in {"none", "asked", "sent"}

\* Whenever the trader holds its book for good (synced_), and at every message
\* of a packet after which it may trade, the replica is the exchange's book as
\* it was before message expected_: nothing was applied twice, out of order or
\* left out, whatever was lost, repeated or reordered.
ReplicaExact ==
  synced \/ pc = "packet" =>
    /\ expected \in 1 .. Len(hist)
    /\ tbook = hist[expected]

\* The boundary of a snapshot is exact (the comment at MarketDataFeed::flush):
\* its orders rebuild the book before the message it tells to resume at, also
\* when it was made in the middle of a batch.
SnapshotExact ==
  reply.state = "sent" =>
    /\ reply.next \in 1 .. Len(hist)
    /\ Load(reply.orders) = hist[reply.next]

\* A synchronised trader never meets a message that does not fit its book:
\* apply_itch never answers Inconsistent.
NeverInconsistent ==
  pc = "packet" /\ rest.msgs # << >> /\ rest.seq = expected => Valid(tbook, Head(rest.msgs))

\* The trader never goes back: no step lowers expected_, resuming from a
\* snapshot included, so no message is ever applied a second time.
NeverBack == [][expected' >= expected]_vars

\* Every published message reaches the replica, by the feed or by a snapshot,
\* unless the trader gave up at its first snapshot.
CatchesUp ==
  \A n \in 1 .. MaxMsgs :
    Len(log) >= n ~> (synced /\ expected > n) \/ pc = "exited"
----------------------------------------------------------------------------
(* The inductive invariant behind the safety properties. *)

\* hist and log agree, and the batch is the end of the log.
Chain ==
  /\ Len(hist) = Len(log) + 1
  /\ \A n \in 1 .. Len(log) : Valid(hist[n], log[n]) /\ hist[n + 1] = Apply(hist[n], log[n])
  /\ next_seq >= 1
  /\ next_seq + count = Len(log) + 1

\* A packet carries the messages its numbers say, all of them flushed.
Genuine(p) ==
  /\ p.seq + Len(p.msgs) <= next_seq
  /\ p.msgs # << >> => p.seq >= 1
  /\ \A i \in 1 .. Len(p.msgs) : p.msgs[i] = log[p.seq + i - 1]

Network == \A p \in net : Genuine(p)

\* Where the trader is.
TraderInv ==
  /\ expected \in 1 .. next_seq
  /\ pc = "packet" => synced /\ Genuine(rest)
  /\ synced => pc \in {"idle", "packet"}
  /\ reply.state # "none" <=> pc = "wait"

\* A snapshot on its way to the trader does not lie before expected_.
SnapshotInv ==
  reply.state = "sent" =>
    /\ reply.next \in expected .. next_seq
    /\ reply.orders = Dump(hist[reply.next])

IInv == TypeOK /\ Chain /\ Network /\ TraderInv /\ SnapshotInv /\ ReplicaExact
============================================================================
