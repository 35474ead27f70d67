---------------------------- MODULE TickPipeline ----------------------------
(***************************************************************************)
(* The tick pipeline from end to end: the publisher (src/publisher.cpp)    *)
(* and its snapshot ring (src/snapshot_server.cpp), a network that loses,  *)
(* duplicates and reorders datagrams, the receiver (src/receiver.cpp) with *)
(* its background recoveries (src/snapshot_client.cpp), a bounded queue    *)
(* and a worker (src/worker.cpp).  A message is its sequence number.       *)
(*                                                                         *)
(* The queue is what all backends promise (BroadcastTape, with one         *)
(* reader).  Statistics and telemetry are written but never read here, and *)
(* the publisher sends no invalid message: both are left out.              *)
(***************************************************************************)
EXTENDS Integers, Sequences

CONSTANTS
  Count,       \* messages the publisher generates
  RingCap,     \* kSnapshotRingCapacity
  MaxRequest,  \* kMaxSnapshotRequestLen
  MaxPending,  \* kMaxPendingRecoveries
  QueueCap,    \* kQueueCapacity
  MaxCopied    \* bound: only the first datagrams received may arrive again

ASSUME PipelineAssumption ==
  /\ Count \in Nat /\ MaxCopied \in Nat
  /\ {RingCap, MaxRequest, MaxPending, QueueCap} \subseteq Nat \ {0}

VARIABLES
  seq,        \* publisher: the next sequence number
  slot_seq,   \* snapshot ring: the number in each slot, 0 when empty
  net,        \* datagrams on their way
  pc,         \* where the receive thread is
  msg,        \* the datagram it works on
  last_seq,   \* 0 until the first message (have_last)
  received,   \* number of datagrams received
  pending,    \* pending_recoveries: [from, count, ready, msgs]
  harvest,    \* drain_recoveries: its index, and the messages in hand
  g_stop,
  queue, closed,
  worker,     \* "running" or "exited"
  first,      \* history: the first number received
  seen,       \* history: the numbers received
  gap,        \* history: the numbers counted as sequence gaps
  asked,      \* history: the numbers a recovery was asked for
  processed   \* history: the numbers the worker processed

pubVars == <<seq, slot_seq>>
recvVars == <<pc, msg, last_seq, received, pending, harvest, g_stop>>
queueVars == <<queue, closed, worker>>
history == <<first, seen, gap, asked, processed>>
vars == <<pubVars, net, recvVars, queueVars, history>>

Init ==
  /\ seq = 1 /\ slot_seq = [s \in 0 .. RingCap - 1 |-> 0]
  /\ net = {}
  /\ pc = "loop" /\ msg = 0 /\ last_seq = 0 /\ received = 0
  /\ pending = << >> /\ harvest = [i |-> 1, msgs |-> << >>]
  /\ g_stop = FALSE
  /\ queue = << >> /\ closed = FALSE /\ worker = "running"
  /\ first = 0 /\ seen = {} /\ gap = {} /\ asked = {} /\ processed = {}
----------------------------------------------------------------------------
(* Publisher and snapshot server.                                           *)

\* One iteration of the send loop: recorded always, sent or dropped on purpose.
Generate(dropped) ==
  /\ seq <= Count
  /\ slot_seq' = [slot_seq EXCEPT ![seq % RingCap] = seq]
  /\ net' = IF dropped THEN net ELSE net \cup {seq}
  /\ seq' = seq + 1
  /\ UNCHANGED <<recvVars, queueVars, history>>

Lose(m) ==
  /\ m \in net
  /\ net' = net \ {m}
  /\ UNCHANGED <<pubVars, recvVars, queueVars, history>>

\* Faulty variant: the number in the slot is not compared.
ServeRequestUnchecked(from, count) ==
  [k \in 1 .. count |-> slot_seq[(from + k - 1) % RingCap]]

\* serve_request: from `from' on, up to the first number that is not in its slot.
ServeRequest(from, count) ==
  LET has(n) == \A k \in 1 .. n : slot_seq[(from + k - 1) % RingCap] = from + k - 1
      n == CHOOSE n \in 0 .. count : has(n) /\ (n = count \/ ~has(n + 1))
  IN  [k \in 1 .. n |-> slot_seq[(from + k - 1) % RingCap]]

\* A recovery thread: the answer, or nothing when the connection fails.
Recover(i, fails) ==
  /\ i \in DOMAIN pending /\ ~pending[i].ready
  /\ LET count == IF pending[i].count < MaxRequest THEN pending[i].count ELSE MaxRequest
         answer == IF fails THEN << >> ELSE ServeRequest(pending[i].from, count)
     IN  pending' = [pending EXCEPT ![i].ready = TRUE, ![i].msgs = answer]
  /\ UNCHANGED <<pubVars, net, pc, msg, last_seq, received, harvest, g_stop, queueVars, history>>
----------------------------------------------------------------------------
(* The receive loop.                                                        *)

\* recvfrom is called; without a datagram the thread blocks in it.
Call ==
  /\ pc = "loop"
  /\ pc' = "blocked"
  /\ UNCHANGED <<pubVars, net, msg, last_seq, received, pending, harvest, g_stop, queueVars, history>>

\* SIGINT or SIGTERM: the handler runs on any thread, and only a signal handled
\* by a thread blocked in recvfrom makes that call return (EINTR).
Signal(here) ==
  /\ ~g_stop
  /\ g_stop' = TRUE
  /\ pc' = IF here /\ pc = "blocked" THEN "last_drain" ELSE pc
  /\ harvest' = IF here /\ pc = "blocked" THEN [i |-> 1, msgs |-> << >>] ELSE harvest
  /\ UNCHANGED <<pubVars, net, msg, last_seq, received, pending, queueVars, history>>

\* Faulty variant: a gap of one number is not noticed.
GapOffByOne(m) == IF last_seq > 0 /\ m > last_seq + 2 THEN last_seq + 1 .. m - 1 ELSE {}

\* The numbers process_one counts as a gap.
Gap(m) == IF last_seq > 0 /\ m > last_seq + 1 THEN last_seq + 1 .. m - 1 ELSE {}

\* process_one: a datagram arrives (its copy may arrive again).  A gap is counted,
\* and asked for if fewer than MaxPending recoveries are in flight.
Receive(m, again) ==
  /\ pc = "blocked" /\ m \in net /\ (again => received < MaxCopied)
  /\ net' = IF again THEN net ELSE net \ {m}
  /\ received' = received + 1
  /\ msg' = m /\ last_seq' = m
  /\ pc' = "push"
  /\ LET ask == Gap(m) # {} /\ Len(pending) < MaxPending
     IN  /\ pending' = IF ask THEN Append(pending, [from |-> last_seq + 1, count |-> m - last_seq - 1,
                                                    ready |-> FALSE, msgs |-> << >>])
                       ELSE pending
         /\ asked' = IF ask THEN asked \cup Gap(m) ELSE asked
  /\ gap' = gap \cup Gap(m)
  /\ first' = IF first = 0 THEN m ELSE first
  /\ seen' = seen \cup {m}
  /\ UNCHANGED <<pubVars, harvest, g_stop, queueVars, processed>>

\* try_push is tried until there is room or the receiver is to stop.
Push ==
  /\ pc = "push"
  /\ Len(queue) < QueueCap
  /\ queue' = Append(queue, msg)
  /\ pc' = "drain" /\ harvest' = [i |-> 1, msgs |-> << >>]
  /\ UNCHANGED <<pubVars, net, msg, last_seq, received, pending, g_stop, closed, worker, history>>

PushGivesUp ==
  /\ pc = "push"
  /\ Len(queue) = QueueCap /\ g_stop
  /\ pc' = "drain" /\ harvest' = [i |-> 1, msgs |-> << >>]
  /\ UNCHANGED <<pubVars, net, msg, last_seq, received, pending, g_stop, queueVars, history>>

Draining == pc \in {"drain", "last_drain"}

\* drain_recoveries: a finished recovery is taken out (the last one takes its
\* place), an unfinished one is passed over.
Harvest ==
  /\ Draining /\ harvest.msgs = << >> /\ harvest.i <= Len(pending)
  /\ LET i == harvest.i
         n == Len(pending)
     IN  IF pending[i].ready
           THEN /\ harvest' = [i |-> i, msgs |-> pending[i].msgs]
                /\ pending' = SubSeq([pending EXCEPT ![i] = pending[n]], 1, n - 1)
           ELSE harvest' = [harvest EXCEPT !.i = i + 1] /\ UNCHANGED pending
  /\ UNCHANGED <<pubVars, net, pc, msg, last_seq, received, g_stop, queueVars, history>>

\* A recovered message is pushed once: if the queue is full it is dropped.
PushRecovered ==
  /\ Draining /\ harvest.msgs # << >>
  /\ queue' = IF Len(queue) < QueueCap THEN Append(queue, Head(harvest.msgs)) ELSE queue
  /\ harvest' = [harvest EXCEPT !.msgs = Tail(@)]
  /\ UNCHANGED <<pubVars, net, pc, msg, last_seq, received, pending, g_stop, closed, worker, history>>

\* The end of an iteration looks at g_stop; after the loop there is one more
\* drain, and the queue is closed.
EndDrain ==
  /\ Draining /\ harvest.msgs = << >> /\ harvest.i > Len(pending)
  /\ pc' = IF pc = "last_drain" THEN "join" ELSE IF g_stop THEN "last_drain" ELSE "loop"
  /\ closed' = (pc = "last_drain")
  /\ harvest' = [i |-> 1, msgs |-> << >>]
  /\ UNCHANGED <<pubVars, net, msg, last_seq, received, pending, g_stop, queue, worker, history>>

\* The workers are joined.
Join ==
  /\ pc = "join" /\ worker = "exited"
  /\ pc' = "leave"
  /\ UNCHANGED <<pubVars, net, msg, last_seq, received, pending, harvest, g_stop, queueVars, history>>

\* main returns: the destructors of the futures wait for the recoveries left.
Leave ==
  /\ pc = "leave" /\ \A i \in DOMAIN pending : pending[i].ready
  /\ pc' = "done"
  /\ UNCHANGED <<pubVars, net, msg, last_seq, received, pending, harvest, g_stop, queueVars, history>>
----------------------------------------------------------------------------
(* worker_run                                                               *)

Process ==
  /\ worker = "running" /\ queue # << >>
  /\ processed' = processed \cup {Head(queue)}
  /\ queue' = Tail(queue)
  /\ UNCHANGED <<pubVars, net, recvVars, closed, worker, first, seen, gap, asked>>

\* Faulty variant: a closed queue ends the worker, full or not.
WorkerExitsAtClose ==
  /\ worker = "running" /\ closed
  /\ worker' = "exited"
  /\ UNCHANGED <<pubVars, net, recvVars, queue, closed, history>>

WorkerExits ==
  /\ worker = "running" /\ queue = << >> /\ closed
  /\ worker' = "exited"
  /\ UNCHANGED <<pubVars, net, recvVars, queue, closed, history>>
----------------------------------------------------------------------------
ReceiveLoop ==
  \/ Call
  \/ Push
  \/ PushGivesUp
  \/ Harvest
  \/ PushRecovered
  \/ EndDrain
  \/ Join
  \/ Leave

Arrives == \E m \in net, again \in BOOLEAN : Receive(m, again)
Answered == \E i \in 1 .. MaxPending, fails \in BOOLEAN : Recover(i, fails)

Next ==
  \/ \E dropped \in BOOLEAN : Generate(dropped)
  \/ \E m \in net : Lose(m)
  \/ Answered
  \/ \E here \in BOOLEAN : Signal(here)
  \/ Arrives
  \/ ReceiveLoop
  \/ Process
  \/ WorkerExits

Spec == Init /\ [][Next]_vars

\* No thread is stopped for ever; the snapshot server answers or the connection
\* fails (the client has no time-out of its own); the publisher goes on.  Nothing
\* is assumed of the datagrams or of the user.
FairSpec ==
  /\ Spec
  /\ WF_vars(\E dropped \in BOOLEAN : Generate(dropped))
  /\ WF_vars(Answered)
  /\ WF_vars(Arrives)
  /\ WF_vars(ReceiveLoop)
  /\ WF_vars(Process) /\ WF_vars(WorkerExits)
----------------------------------------------------------------------------
Recovery ==
  [from : Nat, count : Nat, ready : BOOLEAN, msgs : Seq(Nat)]

\* The queue and the recoveries in flight keep their limits.
TypeOK ==
  /\ seq \in Nat \ {0} /\ slot_seq \in [0 .. RingCap - 1 -> Nat]
  /\ net \subseteq Nat \ {0}
  /\ pc \in {"loop", "blocked", "push", "drain", "last_drain", "join", "leave", "done"}
  /\ msg \in Nat /\ last_seq \in Nat /\ received \in Nat
  /\ pending \in Seq(Recovery) /\ Len(pending) <= MaxPending
  /\ harvest \in [i : Nat \ {0}, msgs : Seq(Nat)]
  /\ g_stop \in BOOLEAN /\ closed \in BOOLEAN
  /\ queue \in Seq(Nat) /\ Len(queue) <= QueueCap
  /\ worker \in {"running", "exited"}

\* No loss goes unnoticed: every number between the first one received and any
\* later one was received itself or was counted as a gap, although the receiver
\* remembers only the last number, and a late datagram sets it back.
NoSilentLoss == \A m \in seen : \A n \in first .. m : n \in seen \cup gap

\* A recovery returns what was asked for: consecutive numbers from the start of
\* the gap, whatever the publisher overwrote in the ring before the request was
\* served.  So the worker gets nothing that was neither received nor asked for,
\* no more is asked for than was counted as a gap, and neither the recoveries in
\* flight nor what they add to the queue pass their limits (TypeOK).
RecoveryExact ==
  /\ TypeOK
  /\ \A i \in DOMAIN pending :
       /\ Len(pending[i].msgs) <= pending[i].count
       /\ \A k \in DOMAIN pending[i].msgs : pending[i].msgs[k] = pending[i].from + k - 1
  /\ asked \subseteq gap
  /\ processed \subseteq seen \cup asked

\* Once the receive loop has ended, the process ends, although it waits for the
\* worker and for the recoveries in flight, and not before the worker has
\* processed everything that was queued.
LoopEndDrains == (pc = "last_drain") ~> (pc = "done" /\ queue = << >>)
----------------------------------------------------------------------------
(* The inductive invariant behind NoSilentLoss: last_seq, wherever a late   *)
(* datagram sets it, is a number that was received.                         *)
LossInv ==
  /\ seq \in Nat \ {0} /\ net \subseteq Nat \ {0} /\ seen \subseteq Nat \ {0}
  /\ \/ first = 0 /\ last_seq = 0 /\ seen = {}
     \/ first \in seen /\ last_seq \in seen
  /\ NoSilentLoss
============================================================================
