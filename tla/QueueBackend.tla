---------------------------- MODULE QueueBackend ----------------------------
(***************************************************************************)
(* make_queue_backend (src/queue_backend.cpp) for the lock-free kinds: the *)
(* process has one queue, a SpscRing or a MpmcFanout, for all its life.    *)
(* The third kind, QueueMutex, has its own module.                         *)
(***************************************************************************)
EXTENDS MpmcFanout

VARIABLES
  kind,                                             \* QueueKind
  head, tail, shut, cells, p, c, pushed, popped     \* the SpscRing

svars == <<head, tail, shut, cells, p, c, pushed, popped>>
allVars == <<kind, svars, vars>>

Ring == INSTANCE SpscRing

BackendInit ==
  /\ kind \in {"Spsc", "Disruptor"}
  /\ Init
  /\ Ring!Init

Disruptor(A) == kind = "Disruptor" /\ A /\ UNCHANGED <<kind, svars>>
Spsc(A) == kind = "Spsc" /\ A /\ UNCHANGED <<kind, vars>>

BackendNext == Disruptor(Next) \/ Spsc(Ring!Next)

\* The fairness of MpmcFanout for the queue there is; the ring's consumer
\* spins in pop in the same way.
BackendFairness ==
  /\ \A r \in Readers :
       /\ WF_allVars(Disruptor(Reader(r)))
       /\ SF_allVars(Disruptor(TryPopLoad(r, write_seq)))
       /\ SF_allVars(Disruptor(CheckClosed(r, TRUE)))
  /\ WF_allVars(Spsc(Ring!Consumer))
  /\ SF_allVars(Spsc(Ring!TryPopLoad(tail)))
  /\ SF_allVars(Spsc(Ring!CheckClosed(TRUE)))

BackendSpec == BackendInit /\ [][BackendNext]_allVars /\ BackendFairness
----------------------------------------------------------------------------
(* What the program relies on, whichever of the two it has. *)

\* Every worker is handed every message, whole, once and in the order in which
\* the receiver pushed them.
BackendInOrder == InOrder /\ Ring!InOrder

\* Every two conflicting accesses to a slot are ordered by an acquire/release
\* pair: no slot is written while a worker may read it, or read before it is
\* published.
BackendRaceFree == RaceFree /\ Ring!RaceFree

\* The queue implements the broadcast tape: it takes no more than its capacity,
\* and ends only for a worker that was handed everything, after close().
BackendTape == TapeSpec /\ Ring!TapeSpec

\* Every message reaches every worker, closed or not, and once the queue is
\* closed every worker leaves pop with Closed, so that join() returns.
BackendDrains ==
  /\ EverythingConsumed /\ Ring!EverythingConsumed
  /\ WorkersStop /\ Ring!WorkerStops
============================================================================
