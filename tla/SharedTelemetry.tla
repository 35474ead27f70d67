--------------------------- MODULE SharedTelemetry ---------------------------
(***************************************************************************)
(* The shared memory of the receiver: the counters of SharedStats          *)
(* (include/stats.hpp), the event ring and the configuration               *)
(* (include/shared_events.hpp), and the threads that write them: the       *)
(* workers (src/worker.cpp) and the receive thread (src/receiver.cpp).     *)
(*                                                                         *)
(* An event is known by its index; its fields are written in two parts, as *)
(* nothing orders the plain stores.  The queue-depth gauge is left out.    *)
(***************************************************************************)
EXTENDS Integers, FiniteSets

CONSTANTS Workers,     \* the worker threads
          Receive,     \* the receive thread
          MaxRecords,  \* the most events one of them records
          Lats,        \* latencies
          RingCap      \* kEventRingCapacity

Writers == Workers \cup {Receive}

ASSUME TelemetryAssumption ==
  /\ Receive \notin Workers /\ IsFiniteSet(Workers)
  /\ MaxRecords \in Nat
  /\ Lats \subseteq Nat \ {0}
  /\ RingCap \in Nat \ {0}

VARIABLES stats,       \* received, processed, latency_total_ns, latency_max_ns
          config,      \* the parts written so far, and ready
          write_index,
          slots,       \* slot -> the indices the two parts of its event belong to
          wr,          \* where each writer is: pc, lat, cur, idx and what is left to do
          truth,       \* the messages popped so far: how many, their latencies' sum and maximum
          lapped       \* two writers have been in one slot at a time
memory == <<stats, config, write_index, slots, wr, truth, lapped>>

Nothing == -1
Slot(i) == i % RingCap
Parts == {"head", "tail"}

\* SharedStatsRegion::create, SharedEventRegion::create: fresh, zeroed regions.
\* records: how many events each of the writers is going to record.
MemoryInit(records) ==
  /\ stats = [received |-> 0, processed |-> 0, total |-> 0, max |-> 0]
  /\ config = [parts |-> {}, ready |-> FALSE]
  /\ write_index = 0
  /\ slots = [s \in 0 .. RingCap - 1 |-> [p \in Parts |-> Nothing]]
  /\ wr = [t \in Writers |-> [pc |-> IF t = Receive THEN "config" ELSE "start", lat |-> 0, cur |-> 0,
                              idx |-> Nothing, left |-> records[t]]]
  /\ truth = [n |-> 0, sum |-> 0, max |-> 0]
  /\ lapped = FALSE

At(t, pc) == wr[t].pc = pc
Goto(t, pc) == wr' = [wr EXCEPT ![t].pc = pc]
----------------------------------------------------------------------------
(* Start-up: shared_config_set, then the threads. *)

ConfigPart ==
  /\ At(Receive, "config")
  /\ \E p \in Parts \ config.parts : config' = [config EXCEPT !.parts = @ \cup {p}]
  /\ UNCHANGED <<stats, write_index, slots, wr, truth, lapped>>

\* ready.store(1, release), after every field; then the threads are started.
ConfigReady ==
  /\ At(Receive, "config")
  /\ config.parts = Parts
  /\ config' = [config EXCEPT !.ready = TRUE]
  /\ wr' = [t \in Writers |-> [wr[t] EXCEPT !.pc = "idle"]]
  /\ UNCHANGED <<stats, write_index, slots, truth, lapped>>
----------------------------------------------------------------------------
(* worker_run, for a message that was popped. *)

Pop(t) ==
  /\ t \in Workers
  /\ At(t, "idle")
  /\ wr[t].left > 0
  /\ \E l \in Lats :
       /\ wr' = [wr EXCEPT ![t].pc = "count", ![t].lat = l, ![t].left = @ - 1]
       /\ truth' = [n |-> truth.n + 1, sum |-> truth.sum + l, max |-> IF l > truth.max THEN l ELSE truth.max]
  /\ UNCHANGED <<stats, config, write_index, slots, lapped>>

\* processed.fetch_add and latency_total_ns.fetch_add: atomic additions to counters
\* of their own, which commute with those of the other workers.
Count(t) ==
  /\ At(t, "count")
  /\ stats' = [stats EXCEPT !.processed = @ + 1, !.total = @ + wr[t].lat]
  /\ Goto(t, "load")
  /\ UNCHANGED <<config, write_index, slots, truth, lapped>>

LoadMax(t) ==
  /\ At(t, "load")
  /\ wr' = [wr EXCEPT ![t].pc = "max", ![t].cur = stats.max]
  /\ UNCHANGED <<stats, config, write_index, slots, truth, lapped>>

\* Faulty variant: the maximum is stored without looking again.
StoreMax(t) ==
  /\ At(t, "max")
  /\ stats' = IF wr[t].lat > wr[t].cur THEN [stats EXCEPT !.max = wr[t].lat] ELSE stats
  /\ Goto(t, "claim")
  /\ UNCHANGED <<config, write_index, slots, truth, lapped>>

\* The compare-exchange loop: nothing to do, exchanged, or cur refreshed by a
\* failed exchange (a weak one may fail for no reason).
CasMax(t) ==
  /\ At(t, "max")
  /\ \/ /\ wr[t].lat <= wr[t].cur
        /\ Goto(t, "claim")
        /\ UNCHANGED stats
     \/ /\ wr[t].lat > wr[t].cur
        /\ stats.max = wr[t].cur
        /\ stats' = [stats EXCEPT !.max = wr[t].lat]
        /\ Goto(t, "claim")
     \/ /\ wr[t].lat > wr[t].cur
        /\ wr' = [wr EXCEPT ![t].cur = stats.max]
        /\ UNCHANGED stats
  /\ UNCHANGED <<config, write_index, slots, truth, lapped>>

\* process_one: received.fetch_add.
Received(t) ==
  /\ t = Receive
  /\ At(t, "idle")
  /\ wr[t].left > 0
  /\ stats' = [stats EXCEPT !.received = @ + 1]
  /\ wr' = [wr EXCEPT ![t].pc = "claim", ![t].left = @ - 1]
  /\ UNCHANGED <<config, write_index, slots, truth, lapped>>
----------------------------------------------------------------------------
(* event_ring_record. *)

\* write_index.fetch_add.
Claim(t) ==
  /\ At(t, "claim")
  /\ wr' = [wr EXCEPT ![t].idx = write_index, ![t].pc = "head"]
  /\ write_index' = write_index + 1
  /\ lapped' = (lapped \/ \E u \in Writers : wr[u].idx # Nothing /\ Slot(wr[u].idx) = Slot(write_index))
  /\ UNCHANGED <<stats, config, slots, truth>>

\* The fields of the slot, in two parts.
WritePart(t, p) ==
  /\ At(t, p)
  /\ slots' = [slots EXCEPT ![Slot(wr[t].idx)][p] = wr[t].idx]
  /\ wr' = [wr EXCEPT ![t].pc = IF p = "head" THEN "tail" ELSE "idle",
                      ![t].idx = IF p = "head" THEN @ ELSE Nothing]
  /\ UNCHANGED <<stats, config, write_index, truth, lapped>>

Write(t) ==
  \/ Pop(t) \/ Count(t) \/ LoadMax(t) \/ CasMax(t)
  \/ Received(t) \/ Claim(t) \/ \E p \in Parts : WritePart(t, p)

MemoryNext == ConfigPart \/ ConfigReady \/ \E t \in Writers : Write(t)
----------------------------------------------------------------------------
(* Properties. *)

\* Whatever the interleaving of the writers, what they leave behind is right.  Once no
\* worker is between its first and its last update the shared counters are those of
\* the messages processed: no increment is lost, and the maximum is the maximum (the
\* compare-exchange loop of worker_run).  Once no writer is inside event_ring_record
\* the last RingCap events are there, whole and in their slots, unless at some time
\* one writer overtook another by a whole lap.
MemorySettled ==
  /\ (\A t \in Workers : wr[t].pc \notin {"count", "load", "max"}) =>
       stats.processed = truth.n /\ stats.total = truth.sum /\ stats.max = truth.max
  /\ ~lapped /\ (\A t \in Writers : wr[t].idx = Nothing) =>
       \A i \in 0 .. write_index - 1 : i >= write_index - RingCap =>
         \A p \in Parts : slots[Slot(i)][p] = i
============================================================================
