---------------------------- MODULE QueueMutex ----------------------------
(***************************************************************************)
(* The blocking queue (src/queue_mutex.cpp) and the threads that share it: *)
(* producers that call push or try_push, workers that call pop until it    *)
(* returns Closed, and one thread that calls close().                      *)
(*                                                                         *)
(* All of a call from taking lock_ to releasing it, or to sleeping on a    *)
(* condition variable, is one step.  A thread that sleeps is woken by a    *)
(* notification or for no reason, and then has to take lock_ again: other  *)
(* threads may come first.                                                 *)
(***************************************************************************)
EXTENDS Integers, Sequences, FiniteSets

CONSTANTS
  Producers, Consumers,  \* the threads
  Cap,                   \* capacity_
  Msgs,                  \* messages
  Blank,                 \* a TickMessage as the constructor leaves it
  MaxPush                \* bound: no new push call after so many messages

ASSUME QueueAssumption ==
  /\ Cap \in Nat \ {0} /\ MaxPush \in Nat
  /\ IsFiniteSet(Producers) /\ IsFiniteSet(Consumers)
  /\ Producers \cap Consumers = {}
  /\ Blank \notin Msgs

VARIABLES
  buf, head, tail, count, closed,  \* buf_, head_, tail_, count_, closed_
  pc,    \* per thread: "out" of the queue, "wait" in a condition variable,
         \* "woken" and to take lock_ again, or "done": it was told Closed
  arg,   \* the message of a push call that waits
  tape,  \* history: the messages accepted
  got    \* history: the messages popped, in the order of the pops

vars == <<buf, head, tail, count, closed, pc, arg, tape, got>>

Threads == Producers \cup Consumers
Waiting(T) == {t \in T : pc[t] = "wait"}
Woken(T) == {t \in T : pc[t] = "woken"}

Init ==
  /\ buf = [s \in 0 .. Cap - 1 |-> Blank]
  /\ head = 0 /\ tail = 0 /\ count = 0 /\ closed = FALSE
  /\ pc = [t \in Threads |-> "out"]
  /\ arg = [p \in Producers |-> Blank]
  /\ tape = << >> /\ got = << >>
----------------------------------------------------------------------------
\* Thread t leaves the call in state s, and the threads of W are woken.
Goes(t, s, W) == pc' = [u \in Threads |-> IF u = t THEN s ELSE IF u \in W THEN "woken" ELSE pc[u]]

\* notify_one wakes one sleeper, if there is one.
NotifyOne(t, s, T) ==
  IF Waiting(T) = {} THEN Goes(t, s, {}) ELSE \E u \in Waiting(T) : Goes(t, s, {u})

\* Faulty variant: the wrong end of the ring is written.
InsertAtHead(p, m) ==
  /\ buf' = [buf EXCEPT ![head] = m]
  /\ tail' = (tail + 1) % Cap
  /\ count' = count + 1
  /\ tape' = Append(tape, m)
  /\ NotifyOne(p, "out", Consumers)
  /\ UNCHANGED <<head, closed, arg, got>>

\* The common end of push and try_push.
Insert(p, m) ==
  /\ buf' = [buf EXCEPT ![tail] = m]
  /\ tail' = (tail + 1) % Cap
  /\ count' = count + 1
  /\ tape' = Append(tape, m)
  /\ NotifyOne(p, "out", Consumers)
  /\ UNCHANGED <<head, closed, arg, got>>

\* push and pop wait, or find the queue closed.
Sleep(t) == pc' = [pc EXCEPT ![t] = "wait"] /\ UNCHANGED <<buf, head, tail, count, closed, tape, got>>
ToldClosed(t) == pc' = [pc EXCEPT ![t] = "done"] /\ UNCHANGED <<buf, head, tail, count, closed, arg, tape, got>>

\* A call of push(m), and what it does when it is woken and has lock_ again.
Push(p, m) ==
  /\ \/ pc[p] = "out" /\ Len(tape) < MaxPush
     \/ pc[p] = "woken" /\ m = arg[p]
  /\ \/ closed /\ ToldClosed(p)
     \/ ~closed /\ count < Cap /\ Insert(p, m)
     \/ ~closed /\ count = Cap /\ Sleep(p) /\ arg' = [arg EXCEPT ![p] = m]

\* try_push(m), where it changes something (Full does not).
TryPush(p, m) ==
  /\ pc[p] = "out" /\ Len(tape) < MaxPush
  /\ \/ closed /\ ToldClosed(p)
     \/ ~closed /\ count < Cap /\ Insert(p, m)

\* Faulty variant: pop wakes nobody.
RemoveSilently(c) ==
  /\ got' = Append(got, buf[head])
  /\ head' = (head + 1) % Cap
  /\ count' = count - 1
  /\ Goes(c, "out", {})
  /\ UNCHANGED <<buf, tail, closed, arg, tape>>

\* The end of pop when there is a message.
Remove(c) ==
  /\ got' = Append(got, buf[head])
  /\ head' = (head + 1) % Cap
  /\ count' = count - 1
  /\ NotifyOne(c, "out", Producers)
  /\ UNCHANGED <<buf, tail, closed, arg, tape>>

\* Faulty variant: a worker waits for a full queue.
PopFull(c) ==
  /\ pc[c] \in {"out", "woken"}
  /\ \/ count > 0 /\ (count = Cap \/ closed) /\ Remove(c)
     \/ count = 0 /\ closed /\ ToldClosed(c)
     \/ count = 0 /\ ~closed /\ Sleep(c) /\ UNCHANGED arg

\* A worker's call of pop, and what it does when it is woken and has lock_ again.
Pop(c) ==
  /\ pc[c] \in {"out", "woken"}
  /\ \/ count > 0 /\ Remove(c)
     \/ count = 0 /\ closed /\ ToldClosed(c)
     \/ count = 0 /\ ~closed /\ Sleep(c) /\ UNCHANGED arg

\* A sleeper wakes for no reason.
Spurious(t) ==
  /\ pc[t] = "wait"
  /\ pc' = [pc EXCEPT ![t] = "woken"]
  /\ UNCHANGED <<buf, head, tail, count, closed, arg, tape, got>>

\* close(): notify_all on both condition variables.  (A second call changes nothing.)
Close ==
  /\ ~closed
  /\ closed' = TRUE
  /\ pc' = [t \in Threads |-> IF t \in Waiting(Threads) THEN "woken" ELSE pc[t]]
  /\ UNCHANGED <<buf, head, tail, count, arg, tape, got>>

\* All workers were told Closed.
AllDone == (\A c \in Consumers : pc[c] = "done") /\ UNCHANGED vars

Next ==
  \/ \E p \in Producers, m \in Msgs : Push(p, m) \/ TryPush(p, m)
  \/ \E c \in Consumers : Pop(c)
  \/ \E t \in Threads : Spurious(t)
  \/ Close
  \/ AllDone

Spec == Init /\ [][Next]_vars

\* A worker, and a woken producer, gets lock_ in the end.  Nobody has to push,
\* close or wake for no reason.
FairSpec ==
  /\ Spec
  /\ \A c \in Consumers : WF_vars(Pop(c))
  /\ \A p \in Producers : WF_vars(pc[p] = "woken" /\ Push(p, arg[p]))
----------------------------------------------------------------------------
TypeOK ==
  /\ buf \in [0 .. Cap - 1 -> Msgs \cup {Blank}]
  /\ head \in 0 .. Cap - 1 /\ tail \in 0 .. Cap - 1 /\ count \in 0 .. Cap
  /\ closed \in BOOLEAN
  /\ pc \in [Threads -> {"out", "wait", "woken", "done"}]
  /\ arg \in [Producers -> Msgs \cup {Blank}]
  /\ \A p \in Producers : pc[p] \in {"wait", "woken"} => arg[p] \in Msgs
  /\ tape \in Seq(Msgs) /\ got \in Seq(Msgs)

\* The messages popped, whichever worker popped them, are those that were
\* accepted, in that order; count_ is the number of those still to come, and
\* head_ and tail_ stand for the two ends.
Fifo ==
  /\ Len(tape) = Len(got) + count
  /\ head = Len(got) % Cap /\ tail = Len(tape) % Cap
  /\ \A i \in 1 .. Len(got) : got[i] = tape[i]
  /\ \A i \in 1 .. count : buf[(Len(got) + i - 1) % Cap] = tape[Len(got) + i]

\* No wakeup is lost, although every push and pop wakes one thread at most and a
\* thread that was not woken may take what a woken one was woken for: as long as
\* a worker sleeps, there are no more messages than woken workers, and as
\* long as a producer sleeps, no more free slots than woken producers.
NoLostWakeup ==
  /\ Waiting(Consumers) # {} => count <= Cardinality(Woken(Consumers))
  /\ Waiting(Producers) # {} => Cap - count <= Cardinality(Woken(Producers))
  /\ closed => Waiting(Threads) = {}

\* All workers together are one reader of the broadcast tape.
Tape == INSTANCE BroadcastTape WITH
          Readers <- {"workers"},
          pos <- [r \in {"workers"} |-> Len(got)],
          over <- {r \in {"workers"} : \E c \in Consumers : pc[c] = "done"}

TapeSpec == Tape!Spec

\* No call waits in vain: a producer that sleeps returns, every message accepted
\* is popped whether or not the queue is closed, and after close() every worker is
\* told so.
CallsReturn ==
  /\ \A n \in 1 .. MaxPush : (Len(tape) >= n) ~> (Len(got) >= n)
  /\ \A p \in Producers : pc[p] = "wait" ~> pc[p] \in {"out", "done"}
  /\ \A c \in Consumers : closed ~> pc[c] = "done"
----------------------------------------------------------------------------
(* The inductive invariant.                                                 *)

\* A worker was told Closed when nothing was left, and nothing came after that.
Drained == \A c \in Consumers : pc[c] = "done" => closed /\ count = 0

IInv == TypeOK /\ Fifo /\ NoLostWakeup /\ Drained
============================================================================
