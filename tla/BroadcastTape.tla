--------------------------- MODULE BroadcastTape ---------------------------
(***************************************************************************)
(* What the lock-free backends promise to the receiver and its workers:    *)
(* one writer appends messages to a tape, every reader moves along the     *)
(* whole tape at its own pace, the writer is never more than Cap messages  *)
(* ahead of any reader, and a reader is told that the tape is over only    *)
(* when it is closed and the reader has read all of it.  With one reader   *)
(* this is the bounded FIFO queue that SpscRing promises; MpmcFanout       *)
(* promises it for every worker.                                           *)
(***************************************************************************)
EXTENDS Integers, Sequences

CONSTANTS
  Readers,  \* the reader ids
  Cap,      \* the number of slots
  Msgs      \* the messages

VARIABLES
  tape,     \* every message pushed so far
  pos,      \* pos[r] messages of the tape were handed to reader r
  closed,   \* the writer closed the tape
  over      \* the readers that were told Closed

vars == <<tape, pos, closed, over>>

Init ==
  /\ tape = << >>
  /\ pos = [r \in Readers |-> 0]
  /\ closed = FALSE
  /\ over = {}

Push(m) ==
  /\ ~closed
  /\ \A r \in Readers : Len(tape) - pos[r] < Cap
  /\ tape' = Append(tape, m)
  /\ UNCHANGED <<pos, closed, over>>

Close ==
  /\ ~closed
  /\ closed' = TRUE
  /\ UNCHANGED <<tape, pos, over>>

Pop(r) ==
  /\ r \notin over
  /\ pos[r] < Len(tape)
  /\ pos' = [pos EXCEPT ![r] = @ + 1]
  /\ UNCHANGED <<tape, closed, over>>

End(r) ==
  /\ closed
  /\ pos[r] = Len(tape)
  /\ over' = over \cup {r}
  /\ UNCHANGED <<tape, pos, closed>>

Next ==
  \/ \E m \in Msgs : Push(m)
  \/ Close
  \/ \E r \in Readers : Pop(r) \/ End(r)

Spec == Init /\ [][Next]_vars
============================================================================
