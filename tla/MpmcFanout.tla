---------------------------- MODULE MpmcFanout ----------------------------
(***************************************************************************)
(* The broadcast ring (src/mpmc_fanout.cpp) together with the consumer     *)
(* loop of its adapter (DisruptorConsumer::pop): one writer thread, the    *)
(* receiver's, and one thread per reader.                                  *)
(*                                                                         *)
(* Memory order.  A load of another thread's atomic may return any value   *)
(* that is not older than the one this thread already saw: LoadCursor      *)
(* takes a value between the writer's last view of a cursor and its        *)
(* current value, TryPopLoad does so for write_seq_.  An acquire load also *)
(* brings the views that the release store carried: reading closed_ = TRUE *)
(* raises the reader's view of write_seq_ to its value at close().  Slots  *)
(* are plain memory: a copy into or out of a slot takes two steps, and a   *)
(* copy out of a slot that is being written, or that was written since the *)
(* copy began, yields Torn.                                                *)
(***************************************************************************)
EXTENDS Integers, Sequences

CONSTANTS
  Readers,   \* reader ids, one per worker
  Cap,       \* buf_.size()
  Msgs,      \* messages
  Torn,      \* contents of a slot read while it is being written
  MaxPush    \* bound on the number of messages pushed

ASSUME CapAssumption == Cap \in Nat \ {0}
ASSUME TornAssumption == Torn \notin Msgs
ASSUME MaxPushAssumption == MaxPush \in Nat

VARIABLES
  write_seq,  \* write_seq_
  read_seq,   \* read_seq_[r]
  closed,     \* closed_
  buf,        \* buf_
  w,          \* the writer: where it is in try_push, its message, the minimum
              \* so far and the cursors min_read_seq has still to load
  wview,      \* wview[r]: the latest value of read_seq_[r] the writer loaded
  rpc,        \* where reader r is in DisruptorConsumer::pop
  rview,      \* rview[r]: the latest value of write_seq_ reader r loaded
  rtmp,       \* rtmp[r]: what reader r's copy found in the slot when it began
  tape,       \* history: the messages pushed
  got         \* history: got[r], the messages handed to reader r

wvars == <<write_seq, closed, buf, w, wview, tape>>
rvars == <<read_seq, rpc, rview, rtmp, got>>
vars == <<write_seq, read_seq, closed, buf, w, wview, rpc, rview, rtmp, tape, got>>

Slots == 0 .. Cap - 1
Slot(seq) == seq % Cap
Cells == Msgs \cup {Torn}

Init ==
  /\ write_seq = 0
  /\ read_seq = [r \in Readers |-> 0]
  /\ closed = FALSE
  /\ buf = [s \in Slots |-> Torn]
  /\ w = [pc |-> "idle", msg |-> Torn, min |-> 0, todo |-> {}]
  /\ wview = [r \in Readers |-> 0]
  /\ rpc = [r \in Readers |-> "pop"]
  /\ rview = [r \in Readers |-> 0]
  /\ rtmp = [r \in Readers |-> Torn]
  /\ tape = << >>
  /\ got = [r \in Readers |-> << >>]
----------------------------------------------------------------------------
(* The writer. *)

\* try_push(m) up to min_read_seq: closed_ is written by this thread only, so
\* the relaxed load of it is exact.  (With closed_ set, try_push returns Closed
\* and changes nothing.)
TryPush(m) ==
  /\ w.pc = "idle"
  /\ ~closed
  /\ write_seq < MaxPush
  /\ w' = [pc |-> "scan", msg |-> m, min |-> write_seq, todo |-> Readers]
  /\ UNCHANGED <<write_seq, closed, buf, wview, tape>>
  /\ UNCHANGED rvars

\* Faulty variant: the scan returns after the first cursor.
LoadOneCursorOnly(r) ==
  /\ w.pc = "scan"
  /\ r \in w.todo
  /\ \E v \in wview[r] .. read_seq[r] :
       /\ wview' = [wview EXCEPT ![r] = v]
       /\ w' = [w EXCEPT !.min = IF v < @ THEN v ELSE @, !.todo = {}]
  /\ UNCHANGED <<write_seq, closed, buf, tape>>
  /\ UNCHANGED rvars

\* One iteration of the loop in min_read_seq: an acquire load of one cursor.
LoadCursor(r) ==
  /\ w.pc = "scan"
  /\ r \in w.todo
  /\ \E v \in wview[r] .. read_seq[r] :
       /\ wview' = [wview EXCEPT ![r] = v]
       /\ w' = [w EXCEPT !.min = IF v < @ THEN v ELSE @, !.todo = @ \ {r}]
  /\ UNCHANGED <<write_seq, closed, buf, tape>>
  /\ UNCHANGED rvars

\* try_push returns Full.
PushFull ==
  /\ w.pc = "scan"
  /\ w.todo = {}
  /\ write_seq - w.min >= Cap
  /\ w' = [w EXCEPT !.pc = "idle"]
  /\ UNCHANGED <<write_seq, closed, buf, wview, tape>>
  /\ UNCHANGED rvars

\* The copy into buf_[write & mask_] begins.
WriteSlot ==
  /\ w.pc = "scan"
  /\ w.todo = {}
  /\ write_seq - w.min < Cap
  /\ buf' = [buf EXCEPT ![Slot(write_seq)] = Torn]
  /\ w' = [w EXCEPT !.pc = "write"]
  /\ UNCHANGED <<write_seq, closed, wview, tape>>
  /\ UNCHANGED rvars

\* The copy is complete and write_seq_ is stored: try_push returns Ok.
Publish ==
  /\ w.pc = "write"
  /\ buf' = [buf EXCEPT ![Slot(write_seq)] = w.msg]
  /\ write_seq' = write_seq + 1
  /\ tape' = Append(tape, w.msg)
  /\ w' = [w EXCEPT !.pc = "idle"]
  /\ UNCHANGED <<closed, wview>>
  /\ UNCHANGED rvars

\* close(): called by the writer's thread when it leaves the receive loop.
Close ==
  /\ w.pc = "idle"
  /\ ~closed
  /\ closed' = TRUE
  /\ UNCHANGED <<write_seq, buf, w, wview, tape>>
  /\ UNCHANGED rvars

Writer ==
  \/ \E m \in Msgs : TryPush(m)
  \/ \E r \in Readers : LoadCursor(r)
  \/ PushFull
  \/ WriteSlot
  \/ Publish
  \/ Close
----------------------------------------------------------------------------
(* Reader r, in DisruptorConsumer::pop. *)

\* try_pop loads write_seq_ (acquire) and compares it with the own cursor.
TryPopLoad(r, v) ==
  /\ rpc[r] = "pop"
  /\ v \in rview[r] .. write_seq
  /\ rview' = [rview EXCEPT ![r] = v]
  /\ rpc' = [rpc EXCEPT ![r] = IF read_seq[r] = v THEN "check" ELSE "copy"]
  /\ UNCHANGED <<read_seq, rtmp, got>>
  /\ UNCHANGED wvars

\* The copy out of buf_[read & mask_] begins.
ReadSlot(r) ==
  /\ rpc[r] = "copy"
  /\ rtmp' = [rtmp EXCEPT ![r] = buf[Slot(read_seq[r])]]
  /\ rpc' = [rpc EXCEPT ![r] = "copying"]
  /\ UNCHANGED <<read_seq, rview, got>>
  /\ UNCHANGED wvars

\* The copy ends and the cursor is stored: pop returns Ok with the message.
Advance(r) ==
  /\ rpc[r] = "copying"
  /\ got' = [got EXCEPT ![r] =
               Append(@, IF buf[Slot(read_seq[r])] = rtmp[r] THEN rtmp[r] ELSE Torn)]
  /\ read_seq' = [read_seq EXCEPT ![r] = @ + 1]
  /\ rpc' = [rpc EXCEPT ![r] = "pop"]
  /\ UNCHANGED <<rview, rtmp>>
  /\ UNCHANGED wvars

\* Faulty variant: closed_ is loaded relaxed, which brings no view of write_seq_.
CheckClosedRelaxed(r, c) ==
  /\ rpc[r] = "check"
  /\ c => closed
  /\ rpc' = [rpc EXCEPT ![r] = IF c THEN "final" ELSE "pop"]
  /\ UNCHANGED <<read_seq, rview, rtmp, got>>
  /\ UNCHANGED wvars

\* closed_and_empty loads closed_ (acquire) first ...  (A load that returns FALSE
\* once more after one that returned TRUE is allowed: it only repeats the loop.)
CheckClosed(r, c) ==
  /\ rpc[r] = "check"
  /\ c => closed
  /\ rview' = [rview EXCEPT ![r] = IF c THEN write_seq ELSE @]
  /\ rpc' = [rpc EXCEPT ![r] = IF c THEN "final" ELSE "pop"]
  /\ UNCHANGED <<read_seq, rtmp, got>>
  /\ UNCHANGED wvars

\* ... and write_seq_ after it: pop returns Closed only if the cursor is there.
CheckEmpty(r) ==
  /\ rpc[r] = "final"
  /\ \E v \in rview[r] .. write_seq :
       /\ rview' = [rview EXCEPT ![r] = v]
       /\ rpc' = [rpc EXCEPT ![r] = IF read_seq[r] = v THEN "done" ELSE "pop"]
  /\ UNCHANGED <<read_seq, rtmp, got>>
  /\ UNCHANGED wvars

Reader(r) ==
  \/ \E v \in rview[r] .. write_seq : TryPopLoad(r, v)
  \/ ReadSlot(r)
  \/ Advance(r)
  \/ \E c \in BOOLEAN : CheckClosed(r, c)
  \/ CheckEmpty(r)

\* Every worker was told Closed: the receiver's join() calls return.
AllDone ==
  /\ \A r \in Readers : rpc[r] = "done"
  /\ UNCHANGED vars

Next == Writer \/ (\E r \in Readers : Reader(r)) \/ AllDone

Spec == Init /\ [][Next]_vars
----------------------------------------------------------------------------
(***************************************************************************)
(* Fairness.  Worker threads are scheduled, and a store becomes visible to *)
(* the loads of other threads in finite time: a load that is repeated for  *)
(* ever returns the current value some day.  Nothing is asked of the       *)
(* writer, which may stop pushing, and need never call close().            *)
(***************************************************************************)
Fairness ==
  \A r \in Readers :
    /\ WF_vars(Reader(r))
    /\ SF_vars(TryPopLoad(r, write_seq))
    /\ SF_vars(CheckClosed(r, TRUE))

FairSpec == Spec /\ Fairness
----------------------------------------------------------------------------
\* Every variable holds a value of its C++ type; no cursor passes the number
\* of messages ever pushed.
TypeOK ==
  /\ write_seq \in 0 .. MaxPush
  /\ read_seq \in [Readers -> 0 .. MaxPush]
  /\ closed \in BOOLEAN
  /\ buf \in [Slots -> Cells]
  /\ w \in [pc : {"idle", "scan", "write"}, msg : Cells, min : Nat, todo : SUBSET Readers]
  /\ wview \in [Readers -> Nat]
  /\ rpc \in [Readers -> {"pop", "copy", "copying", "check", "final", "done"}]
  /\ rview \in [Readers -> Nat]
  /\ rtmp \in [Readers -> Cells]
  /\ tape \in Seq(Msgs)
  /\ got \in [Readers -> Seq(Cells)]

\* Every worker is handed every message, whole, once and in the order in which
\* the receiver pushed them (try_pop): what reader r got is the beginning of
\* the tape, as far as its cursor.
InOrder ==
  \A r \in Readers :
    /\ Len(got[r]) = read_seq[r]
    /\ read_seq[r] <= Len(tape)
    /\ \A i \in 1 .. read_seq[r] : got[r][i] = tape[i]

\* Conflicting accesses to a slot are ordered by the acquire/release pairs of
\* the cursors: while try_push writes a slot the writer has seen every reader
\* past the slot's previous message, and while try_pop reads one the reader
\* has seen the cursor that publishes it.
RaceFree ==
  /\ w.pc = "write" => \A r \in Readers : write_seq < wview[r] + Cap
  /\ \A r \in Readers : rpc[r] \in {"copy", "copying"} => read_seq[r] < rview[r]

\* pop returns Closed to a worker only after close() and after the worker was
\* handed everything that was pushed: closed_and_empty never ends a worker
\* with messages left, however stale its loads.
DrainedWhenDone ==
  \A r \in Readers : rpc[r] = "done" => closed /\ Len(got[r]) = Len(tape)

\* The ring implements the broadcast tape.
Tape == INSTANCE BroadcastTape WITH
          pos <- read_seq, over <- {r \in Readers : rpc[r] = "done"}

TapeSpec == Tape!Spec

\* Once close() was called every worker leaves pop with Closed (and so the
\* receiver's join() calls return).
WorkersStop == closed ~> \A r \in Readers : rpc[r] = "done"

\* Every message pushed is handed to every worker, whether or not the ring is
\* ever closed: as pushes are bounded, all workers catch up again and again.
EverythingConsumed == []<>(\A r \in Readers : Len(got[r]) = Len(tape))
----------------------------------------------------------------------------
(* The inductive invariant behind InOrder, RaceFree and DrainedWhenDone. *)

\* A view never runs ahead of the cursor it is a view of, a reader's cursor
\* never ahead of what the reader saw published.
Views ==
  \A r \in Readers :
    /\ wview[r] <= read_seq[r]
    /\ read_seq[r] <= rview[r]
    /\ rview[r] <= write_seq

\* Where the writer is in try_push: the minimum is a lower bound of the views
\* loaded so far, and a slot is written only when every view is past it.
WriterInv ==
  /\ \A r \in Readers : write_seq <= read_seq[r] + Cap
  /\ w.pc # "idle" => w.msg \in Msgs /\ ~closed /\ write_seq < MaxPush
  /\ w.pc = "scan" => \A r \in Readers \ w.todo : w.min <= wview[r]
  /\ w.pc = "write" => \A r \in Readers : write_seq < wview[r] + Cap

\* The slots hold the last Cap messages of the tape; the oldest is given up
\* when its slot is about to be written again.
Kept(n) == write_seq < n + Cap \/ (write_seq = n + Cap /\ w.pc # "write")

BufInv ==
  /\ Len(tape) = write_seq
  /\ \A n \in 0 .. write_seq - 1 : Kept(n) => buf[Slot(n)] = tape[n + 1]

\* Where reader r is in pop.
ReaderInv ==
  \A r \in Readers :
    /\ rpc[r] = "copying" => rtmp[r] = tape[read_seq[r] + 1]
    /\ rpc[r] = "final" => closed /\ rview[r] = write_seq
    /\ rpc[r] = "done" => closed /\ read_seq[r] = write_seq

IInv == TypeOK /\ Views /\ WriterInv /\ BufInv /\ ReaderInv /\ InOrder /\ RaceFree
============================================================================
