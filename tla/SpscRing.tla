------------------------------ MODULE SpscRing ------------------------------
(***************************************************************************)
(* The single-producer single-consumer ring (src/spsc_ring.cpp) and the    *)
(* consumer loop of its adapter (SpscConsumer::pop).  Loads and copies are *)
(* as in MpmcFanout: a load of the other thread's index may return any     *)
(* value not older than the last one seen, an acquire load of closed_      *)
(* brings the tail_ stored before close(), and a slot is copied in two     *)
(* steps, Torn when it is written meanwhile.                               *)
(***************************************************************************)
EXTENDS Integers, Sequences

CONSTANTS
  Cap,       \* buf_.size()
  Msgs,      \* messages
  Torn,      \* contents of a slot read while it is being written
  MaxPush    \* bound on the number of messages pushed

VARIABLES
  head, tail,   \* head_ and tail_
  shut,         \* closed_
  cells,        \* buf_
  p,            \* the producer: where it is in try_push, its message and the
                \* latest head_ it loaded
  c,            \* the consumer: where it is in pop, the latest tail_ it loaded
                \* and what its copy found when it began
  pushed,       \* history: the messages pushed
  popped        \* history: the messages pop returned

pvars == <<tail, shut, cells, p, pushed>>
cvars == <<head, c, popped>>
vars == <<head, tail, shut, cells, p, c, pushed, popped>>

Slots == 0 .. Cap - 1
Slot(seq) == seq % Cap

Init ==
  /\ head = 0
  /\ tail = 0
  /\ shut = FALSE
  /\ cells = [s \in Slots |-> Torn]
  /\ p = [pc |-> "idle", msg |-> Torn, view |-> 0]
  /\ c = [pc |-> "pop", view |-> 0, tmp |-> Torn]
  /\ pushed = << >>
  /\ popped = << >>
----------------------------------------------------------------------------
(* The producer. *)

\* try_push up to the copy into buf_[tail & mask_].  It returns Closed or Full
\* with no effect but the new view of head_.
TryPush(m, v) ==
  /\ p.pc = "idle"
  /\ ~shut
  /\ tail < MaxPush
  /\ v \in p.view .. head
  /\ \/ /\ tail - v < Cap
        /\ p' = [pc |-> "write", msg |-> m, view |-> v]
        /\ cells' = [cells EXCEPT ![Slot(tail)] = Torn]
     \/ /\ tail - v >= Cap
        /\ p' = [p EXCEPT !.view = v]
        /\ UNCHANGED cells
  /\ UNCHANGED <<tail, shut, pushed>>
  /\ UNCHANGED cvars

\* Faulty variant: tail_ is stored before the copy is complete.
PublishEarly ==
  /\ p.pc = "write"
  /\ IF Len(pushed) = tail
       THEN /\ pushed' = Append(pushed, p.msg)
            /\ tail' = tail + 1
            /\ UNCHANGED <<cells, p>>
       ELSE /\ cells' = [cells EXCEPT ![Slot(tail - 1)] = p.msg]
            /\ p' = [p EXCEPT !.pc = "idle"]
            /\ UNCHANGED <<tail, pushed>>
  /\ UNCHANGED shut
  /\ UNCHANGED cvars

\* The copy is complete and tail_ is stored: try_push returns Ok.
Publish ==
  /\ p.pc = "write"
  /\ cells' = [cells EXCEPT ![Slot(tail)] = p.msg]
  /\ tail' = tail + 1
  /\ pushed' = Append(pushed, p.msg)
  /\ p' = [p EXCEPT !.pc = "idle"]
  /\ UNCHANGED shut
  /\ UNCHANGED cvars

Close ==
  /\ p.pc = "idle"
  /\ ~shut
  /\ shut' = TRUE
  /\ UNCHANGED <<tail, cells, p, pushed>>
  /\ UNCHANGED cvars

Producer ==
  \/ \E m \in Msgs, v \in p.view .. head : TryPush(m, v)
  \/ Publish
  \/ Close
----------------------------------------------------------------------------
(* The consumer. *)

\* try_pop loads tail_ (acquire) and compares it with its own index.
TryPopLoad(v) ==
  /\ c.pc = "pop"
  /\ v \in c.view .. tail
  /\ c' = [c EXCEPT !.view = v, !.pc = IF head = v THEN "check" ELSE "copy"]
  /\ UNCHANGED <<head, popped>>
  /\ UNCHANGED pvars

ReadSlot ==
  /\ c.pc = "copy"
  /\ c' = [c EXCEPT !.pc = "copying", !.tmp = cells[Slot(head)]]
  /\ UNCHANGED <<head, popped>>
  /\ UNCHANGED pvars

\* The copy ends and head_ is stored: pop returns Ok with the message.
Advance ==
  /\ c.pc = "copying"
  /\ popped' = Append(popped, IF cells[Slot(head)] = c.tmp THEN c.tmp ELSE Torn)
  /\ head' = head + 1
  /\ c' = [c EXCEPT !.pc = "pop"]
  /\ UNCHANGED pvars

\* closed_and_empty loads closed_ (acquire) ...
CheckClosed(b) ==
  /\ c.pc = "check"
  /\ b => shut
  /\ c' = [c EXCEPT !.view = IF b THEN tail ELSE @, !.pc = IF b THEN "final" ELSE "pop"]
  /\ UNCHANGED <<head, popped>>
  /\ UNCHANGED pvars

\* Faulty variant: empty is looked for past the end.
CheckEmptyPastEnd ==
  /\ c.pc = "final"
  /\ \E v \in c.view .. tail :
       c' = [c EXCEPT !.view = v, !.pc = IF head = v + 1 THEN "done" ELSE "pop"]
  /\ UNCHANGED <<head, popped>>
  /\ UNCHANGED pvars

\* ... and tail_ after it: pop returns Closed, or tries again.
CheckEmpty ==
  /\ c.pc = "final"
  /\ \E v \in c.view .. tail :
       c' = [c EXCEPT !.view = v, !.pc = IF head = v THEN "done" ELSE "pop"]
  /\ UNCHANGED <<head, popped>>
  /\ UNCHANGED pvars

Consumer ==
  \/ \E v \in c.view .. tail : TryPopLoad(v)
  \/ ReadSlot
  \/ Advance
  \/ \E b \in BOOLEAN : CheckClosed(b)
  \/ CheckEmpty

\* The worker was told Closed: join() returns.
Done == c.pc = "done" /\ UNCHANGED vars

Next == Producer \/ Consumer \/ Done

Spec == Init /\ [][Next]_vars
----------------------------------------------------------------------------
\* The worker is handed every message, whole, once and in the order in which the
\* receiver pushed them.
InOrder ==
  /\ Len(popped) = head
  /\ head <= Len(pushed)
  /\ \A i \in 1 .. head : popped[i] = pushed[i]

\* Conflicting accesses to a slot are ordered by the acquire/release pairs: the
\* producer writes a slot only when it saw the head_ that gave it back, the
\* consumer reads one only when it saw the tail_ that publishes it.
RaceFree ==
  /\ p.pc = "write" => tail < p.view + Cap
  /\ c.pc \in {"copy", "copying"} => head < c.view

\* The ring implements the broadcast tape with one reader: a bounded FIFO queue
\* that ends only when it is closed and empty.
Tape == INSTANCE BroadcastTape WITH
          Readers <- {"worker"}, tape <- pushed, pos <- [r \in {"worker"} |-> head],
          closed <- shut, over <- IF c.pc = "done" THEN {"worker"} ELSE {}

TapeSpec == Tape!Spec

\* Once the ring is closed the worker leaves pop with Closed.
WorkerStops == shut ~> c.pc = "done"

\* Every message pushed is popped, whether or not the ring is ever closed.
EverythingConsumed == []<>(Len(popped) = Len(pushed))
----------------------------------------------------------------------------
(* The inductive invariant behind the safety properties. *)

TypeOK ==
  /\ head \in 0 .. MaxPush /\ tail \in 0 .. MaxPush
  /\ shut \in BOOLEAN
  /\ cells \in [Slots -> Msgs \cup {Torn}]
  /\ p \in [pc : {"idle", "write"}, msg : Msgs \cup {Torn}, view : Nat]
  /\ c \in [pc : {"pop", "copy", "copying", "check", "final", "done"}, view : Nat, tmp : Msgs \cup {Torn}]
  /\ pushed \in Seq(Msgs)
  /\ popped \in Seq(Msgs \cup {Torn})

\* A view is never ahead of the index it is a view of, the consumer never ahead
\* of what it saw published.
Views == p.view <= head /\ head <= c.view /\ c.view <= tail /\ tail <= p.view + Cap

ProducerInv == p.pc = "write" => p.msg \in Msgs /\ ~shut /\ tail < MaxPush /\ tail < p.view + Cap

\* The slots hold the last Cap messages; the oldest is given up when its slot is
\* about to be written again.
Kept(n) == tail < n + Cap \/ (tail = n + Cap /\ p.pc # "write")

CellInv ==
  /\ Len(pushed) = tail
  /\ \A n \in 0 .. tail - 1 : Kept(n) => cells[Slot(n)] = pushed[n + 1]

ConsumerInv ==
  /\ c.pc = "copying" => c.tmp = pushed[head + 1]
  /\ c.pc = "final" => shut /\ c.view = tail
  /\ c.pc = "done" => shut /\ head = tail

IInv == TypeOK /\ Views /\ ProducerInv /\ CellInv /\ ConsumerInv /\ InOrder /\ RaceFree
============================================================================
