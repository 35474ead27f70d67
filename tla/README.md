# PulseForge: a verification development in TLA+

This directory models the concurrent and stateful parts of PulseForge
(`src/pulseforge/`): a low-latency market-data pipeline and the trading loop
built beside it. TLC checks the models on small instances; TLAPS proves the
main invariants for all values of the constants. File names below are relative
to `src/pulseforge/`.

## 1. The system

**A. The tick pipeline.** `publisher` sends numbered `TickMessage`s over UDP and
keeps the last ones in a ring that its TCP snapshot server serves. `receiver`
takes the datagrams, counts invalid, lost and reordered ones, asks the snapshot
server for lost ranges in background threads, and pushes messages into one of
three queue backends; `worker` threads pop them and fold latencies into shared
memory, which `monitor` and `telemetry_bridge` read. The bridge feeds a page in
the browser (`visualizer/`) over a WebSocket.

**B. The trading loop.** `exchange` is one epoll thread: an OUCH/SoupBinTCP
order-entry gateway, a matching engine with an order book per symbol, an
ITCH/MoldUDP64 multicast feed with sequence numbers, and a snapshot service.
`trader` keeps a replica of the books from the feed, resynchronises through the
snapshot service when it misses something, and sends orders that pass its risk
gate.

| part | state | operations | what is hard | correct means |
|---|---|---|---|---|
| `MpmcFanout` (disruptor backend) | `write_seq_`, a cursor per reader, slots, `closed_` | `try_push`, `try_pop`, `closed_and_empty`, `close` | stale loads, torn copies, ending a worker early | every worker gets every message whole, once, in order; Closed only at the end |
| `QueueMutex` (mutex backend) | ring, `count_`, `closed_`, two condition variables | `push`, `try_push`, `pop`, `close` | overtaking, spurious wakeups, one `notify_one` per call | FIFO shared by the workers; no lost wakeup; every call returns |
| `SpscRing` | `head_`, `tail_`, slots, `closed_` | as `MpmcFanout` with one reader | stale indices | as `MpmcFanout` |
| publisher, snapshot server and client | `seq`, ring of the last messages | send or drop, record, serve a range | the ring wraps before a request is served | a reply holds exactly consecutive numbers asked for |
| receiver | `last_seq`, pending recoveries, `g_stop` | receive, detect gaps, recover, push, drain, stop | loss, copies, reordering, a cap on recoveries, a full queue, signals | no loss uncounted; limits kept; shutdown ends |
| worker | statistics | pop and account | exit only when drained | everything queued is processed |
| order book | price levels with FIFO queues, id map, pool | add, reduce, remove, front, snapshot order | priorities over long sequences | price-time priority |
| matching engine | books, order in progress | submit, cancel, self-match policies | self-match in mid-loop, full book, rejection | shares conserved, book never crossed, time priority |
| exchange process | sessions, order tables, output buffers, feed batch, phase of the loop | accept, login, enter, cancel, logout, close, flush, snapshot | sessions that die inside a batch, cancel-on-disconnect, partial writes | tables and books agree; the client's account adds up |
| feed and replica | sequence numbers, batch, tracker, replica | publish, flush, heartbeat, apply, resync, snapshot | loss, copies, reordering, snapshots between flushes, failed snapshots | a synchronised replica is exact; it catches up |
| trader orders, risk gate | order table, exposure, send-time ring, socket buffer | check, send, report, cancel all, wind down | fills in flight, broken sockets, cancel against fill | real position within limits; the gate matches the orders |
| ladder, node pool, id map | linked lists, bitmap, cached best level, free list, open-addressing table | the order book's operations | five structures changed by hand in each operation | together they are the abstract book |
| framing, codecs | receive buffer, layouts | encode, decode, reassemble | frames cut anywhere, a buffer that slides | what is handled is what was sent, whole |
| statistics, event ring | shared counters, slots, configuration | count, record, publish | several writers, readers without a lock | counters exact; an event stays until overwritten |
| telemetry bridge, WebSocket server | last index seen, client list, mutex, two threads | poll, broadcast, accept, stop | falling behind, clients that stall or leave, a signal anywhere | each event shown once or overwritten; no descriptor lost; it stops |
| the page's feed | label, socket, retry timer, simulated feed | connect, open, message, close, retry, tick | close events of sockets already replaced, a bridge that comes and goes | simulated numbers only under DEMO; it comes back to the bridge |

## 2. Modules

| module | models | refines / composes |
|---|---|---|
| `BroadcastTape` | what every queue backend promises: one tape, readers at their own pace, a bound, an end | abstract |
| `MpmcFanout` | `src/mpmc_fanout.cpp` and its adapters in `src/queue_backend.cpp` | implements `BroadcastTape` |
| `SpscRing` | `src/spsc_ring.cpp` and its adapters | implements `BroadcastTape` with one reader |
| `QueueBackend` | `make_queue_backend`: the process has one of the two | composes them |
| `QueueMutex` | `src/queue_mutex.cpp` and its adapters | implements `BroadcastTape` with all workers as one reader |
| `TickPipeline` | `src/publisher.cpp`, `src/snapshot_server.cpp`, `src/snapshot_client.cpp`, `src/receiver.cpp`, `src/worker.cpp` | composes them with the queue's promise |
| `OrderBook` | operators: what `src/order_book.cpp`, `apply_itch` and the snapshot loop do to a book | used by the modules below |
| `BookService` | the book as its callers see it, one operation per step | abstract |
| `FlatIdMap` | `include/flat_id_map.hpp` as operators | used by `LadderBook` |
| `LadderBook` | how `src/order_book.cpp` keeps a book: pool, lists, ladders, bitmap, best level, id map | implements `BookService` |
| `MatchingEngine` | `src/matching_engine.cpp`, one loop iteration per step, and the events it calls back with | uses `OrderBook` |
| `EngineAudit` | a listener of all events: an account per order, and a public replica | composes `MatchingEngine` |
| `Exchange` | `src/exchange.cpp`: sessions, gateway, event loop | composes `MatchingEngine` |
| `FeedSync` | `MarketDataFeed`, `send_snapshot`, and the trader's `SequenceTracker`, `handle_packet`, `snapshot`, `resync` | the book is a parameter |
| `TraderOrders` | order side of `src/trader.cpp`, `include/risk.hpp`, `include/strategy.hpp`, against any exchange | closed system |
| `Wire` | fixed-width fields: `include/wire.hpp`, numeric fields of `include/soupbin.hpp` | operators |
| `Codecs` | `include/ouch.hpp`, `include/itch.hpp`, logins of `include/soupbin.hpp`: a table of layouts for the encoders and one for the decoders | uses `Wire` |
| `FrameStream` | `FrameReader` and the read loops of `exchange` and `trader` over a byte stream | composes it with `Codecs` |
| `SharedTelemetry` | `include/stats.hpp`, `include/shared_events.hpp` and the threads that write them | composed by the next |
| `TelemetryBridge` | `src/telemetry_bridge.cpp`, `src/ws_server.cpp` | composes `SharedTelemetry` with bridge, server and browsers |
| `FeedHub` | `visualizer/js/telemetry/FeedHub.js` and its wiring in `visualizer/js/main.js` | composed by the next |
| `TelemetryChain` | from the shared memory to the page | composes `TelemetryBridge` and `FeedHub`, each in scenes of its own: they share nothing but a socket, and the bridge of the page's scene just comes and goes |
| `MC*` | constants for TLC: books and messages, hash functions, scripts of frames, scenes | instances |
| `*Proofs` | theorems and proofs | extend the module they are named after |

**How state and actions correspond to the code.** Variables keep the names of
the fields they model (`write_seq`, `last_seq`, `pending`, `oe_pending`, ...);
history variables (`tape`, `got`, `seen`, `log`, ...) are marked as such and
appear in no guard except as a bound. An action is a whole handler wherever the
code runs it without interference: a critical section of `QueueMutex`, a
callback of the single-threaded `exchange` and `trader`. It is split only where
another actor can come in between:

* `MpmcFanout` and `SpscRing` split at every atomic load and store. A load returns any value
  between the last one this thread has seen and the newest, so late visibility
  is explored; a copy of a message takes two steps, and an overlap with a
  write yields `Torn`.
* `TickPipeline` splits the receive loop at `recvfrom`, `try_push` and each
  harvested recovery, because publisher, recovery threads, signal and worker run
  beside it.
* `MatchingEngine` makes each iteration of the matching loop a step, so that a
  property can speak about the callbacks in the middle of `submit`; `Exchange`
  starts nothing else until the loop returns (`Idle`).
* `FeedSync` and `TraderOrders` split at packets, messages and socket calls.
* `FrameStream` makes each `recv` and each frame a step; the peer's bytes come in
  pieces, and it may be gone after any of them.
* `SharedTelemetry` splits a worker at each atomic operation and the writing of a
  slot in two parts, because nothing orders the plain stores; `TelemetryBridge`
  splits both threads at their system calls and at the mutex, and a signal may
  interrupt the call either of them is in.
* A handler of `FeedHub` is one step, as JavaScript runs it. A number on the page
  is known by its origin, simulated or from the bridge. A socket that was told to
  close stays until its close event, which is handled if its `onclose` is still set.
* An operation of `LadderBook` is one step: the book has one thread.

Text in "Faulty variant" definitions is never part of a specification: each one
is a plausible slip in the definition that follows it, and shows that the
property it is meant for notices the slip.

## 3. What the runs check

| run | instance | distinct states | shows |
|---|---|---|---|
| `queue_backend` | ring or fan-out with 2 workers, 2 messages, 2 slots, 3 pushes | 38,194 | in order, whole, race free; implements the tape; everything is consumed and workers stop |
| `queue_mutex` | 3 producers, 2 workers, capacity 2, 3 messages and the calls that wait | 78,683 | FIFO, no lost wakeup, every message popped, every call returns |
| `pipeline` | 4 messages, ring of 2, requests of 2, 1 recovery in flight, queue of 1, 2 copies | 201,105 | no silent loss, exact recoveries, limits, the shutdown ends |
| `book` | 3 orders, 4 price levels in 2 bitmap words, ids that collide in slots 15 and 0 of 16 | 13,002 | the concrete book implements the abstract one; its answers and its structures are exact |
| `engine_safety` | 2 prices, 2 nodes, 2 owners, 3 orders of up to 2 | 119,396 | shares conserved, never crossed, fair fills, exact public mirror, progress of the loop |
| `exchange` | 1 session and the synthetic flow, 1 price, 2 order ids | 126,034 | tables and books agree; the client's account adds up; dead sessions go, reports are sent |
| `exchange_private_first` (violation) | 3 orders, packets of 2 | | the public feed may come first |
| `feed` | 1 order, 2 prices, 3 messages, packets of 2 | 90,892 | a synchronised replica is exact, nothing is applied twice, the trader catches up |
| `trader_orders` | 2 orders of up to 2, position limit 2, 1 order per time unit | 200,270 | position limit in reality, gate equals orders, reports fit, rate limit, orders close |
| `frames` | 4 kinds of channel, every message of the protocols; pieces of 1, 7, 45 bytes or all; frames of up to 60, buffer of 130 | 18,345 | the frames handled are those sent, decoded as encoded; nothing cut short is taken; nothing is left in the buffer |
| `frames_trader` (violation) | the same | | the trader may take a full buffer for the end of the connection |
| `telemetry` | 2 workers and the receive thread, ring of 2 events, 2 browsers, 3 scenes; the page with 3 sockets, 2 presses of Connect and 3 kinds of URL | 152,735 | counters and ring exact, each event once or overwritten, configuration whole, no descriptor lost, the bridge stops and shows; the page's label is true and it comes back to the bridge |

**Properties worth knowing.**

* `BackendRaceFree` (lock-free queues): the acquire and release operations order
  every write of a slot against every read of it.
* `NoLostWakeup` (mutex queue): as long as a worker sleeps there are no more
  messages than woken workers, and the same for producers and free slots. This
  is why one `notify_one` per call is enough even if another thread takes the
  lock first.
* `NoSilentLoss` (receiver): it remembers one number only, and a late datagram
  sets that back, yet no number between the first and the largest received is
  neither received nor counted.
* `SharesConserved`, `FillFair`, `MirrorExact` (engine): the events alone
  account for every share, and a replica that applies only the public messages
  has the same book.
* `OwnedOrders`, `ClientAccount` (exchange): every resting order of a session
  is in its table and the other way round, and what the client was told, what
  still waits in the buffer and what rests add up to what was entered.
* `ReplicaExact` (feed): whenever `synced_`, the replica is the exchange's book
  before the next message expected, whatever the network did.
* `BookRefined`, `StructuresExact` (book): lists, free list, bitmap, cached best
  level and id map are each updated by hand in every operation, and after any
  sequence of them are one abstract book. `StructuresExact` contains the rule of
  backward-shift deletion: no slot between an entry's home and its place is
  empty, also across the end of the table.
* `Reassembled` (frames): what was handled, what is in the buffer and what is on
  the way always make up what was sent, message by message. Encoders and decoders
  are separate tables because they are separate code.
* `EachEventOnce`, `DescriptorsExact` (telemetry): indices shown and indices
  skipped are disjoint and together are all up to the last one seen, and only
  overwritten ones are skipped; an open descriptor is always in exactly one hand.
* `SourceHonest`, `ComesLive` (page): numbers are simulated exactly while the label
  says DEMO, a frame arrives only over the newest socket and under LIVE, and there
  is never more than one reason to connect again; as long as the bridge runs and
  the page has its URL it is LIVE again and again, though connections break.
* `PositionLimit` (trader): the *exchange's* view of the position, fills that
  were not reported yet included, is within the limit.

**Bounds.** Rings have two slots and more messages than slots, so that they wrap
and a slow reader is caught up with. Caps (recoveries, queue, packet, session
table, book) are one or two and are reached. Three producers are needed for a
`try_push` to overtake a woken producer while another sleeps. Two owners are
needed for self-match prevention and its absence; three orders for a fill after
a self-match. Larger instances that were checked once without error: the
engine with 4 orders (2.93 million states), the exchange with 3 order ids
(1.26 million), the pipeline with 5 messages (1.78 million), the feed with 2
orders (0.32 million). The queue, feed and gap-detection invariants are proved,
so there the bounds do not matter. Two ids of `book` have
their home in the last slot of the table and the third in the first, so clusters
wrap around its end, and four levels in words of two
bits make the search for the next level leave its word in both directions. The
buffer of `frames` is a little more than two frames, the least the code asks for,
so it slides and fills up. Messages hold numbers that fit TLC's 32 bits.

The type invariants are conjuncts of `Uncrossed`, `OwnedOrders`,
`RecoveryExact`, `GateMatchesOrders`, `Reassembled` and `EachEventOnce`, or are
proved (section 5).

`CHECK_DEADLOCK FALSE` is used where the system really stops: the receiver
blocks in `recvfrom` for ever when nothing is sent, and the trader ends.

## 4. Fairness

* `QueueBackend`: every worker keeps running (weak fairness of its steps), and a
  store becomes visible in the end (strong fairness of the loads that see the
  newest value). Nobody has to push or close.
* `QueueMutex`: a worker and a woken producer get the lock in the end. Nobody
  has to push, close or wake for no reason.
* `TickPipeline`: no thread is stopped for ever, the snapshot server answers or
  the connection fails (the client sets no time-out, so a server that accepts
  and then stays silent would hold up the end of the receiver), the publisher
  goes on. The datagrams and the user owe nothing.
* `Exchange`: the event loop goes on, and a client that stays connected reads
  (its socket takes everything again and again).
* `FeedSync`: the exchange flushes and sends heartbeats from its timer, a
  current heartbeat sent again and again is received at some time, and a
  snapshot tried again and again succeeds at some time.
* `TraderOrders`: the loop reads what is there, the socket drains, and the
  exchange resolves every order (its session ends at the latest).
* `FrameStream`: the peer goes on sending as long as it lives, and the reader,
  which epoll wakes as long as bytes are there, goes on reading.
* `TelemetryBridge`: both threads keep running, and a browser that connected in
  the end sends its request or leaves, and reads or leaves. The code needs this:
  neither the handshake nor a broadcast has a time-out.
* `FeedHub`: a timer that is set fires or is cleared, and the browser opens or
  fails what it is connecting and ends what it is closing. An open connection, the
  user and whoever starts the bridge owe nothing.

## 5. What is proved

TLAPS checks the proofs in the `*Proofs` modules, for every value of the
constants under the named assumptions.

* `MpmcFanoutProofs` (any readers, `Cap` and `MaxPush`): `FanoutTypeOK`,
  `FanoutInOrder`, `FanoutRaceFree`, `FanoutDrained`, `FanoutRefinesTape`. The
  invariant `IInv` adds that what each side believes about the other is old but
  was true (`Views`), that the writer's minimum is a lower bound of the cursors
  already scanned (`WriterInv`), that the slots of the last `Cap` messages hold
  them (`BufInv`), and what a reader in the middle of a copy may rely on
  (`ReaderInv`). The arithmetic is that numbers less than `Cap` apart have
  different slots.
* `QueueBackendProofs`: `BackendIsInOrder`, `BackendIsRaceFree`,
  `BackendIsTape`, for whichever queue was chosen. The ring's invariant
  (`SpscRing!IInv`) has the same parts with one cursor: each view lies between
  what was and what is, the slots from `tail - Cap` on hold their messages until
  one is about to be written again, and a consumer that read `closed_` knows the
  last `tail_`. A step of one queue leaves the other as it was made, so the two
  invariants hold together.
* `QueueMutexProofs` (any finite sets of threads, any `Cap`): `QueueTypeOK`,
  `QueueIsFifo`, `QueueNoLostWakeup`, `QueueRefinesTape`. `Fifo` and
  `NoLostWakeup` are inductive together with the types and with `Drained` (a
  worker was told Closed when nothing was left). The argument for
  `NoLostWakeup`: a push adds one message and wakes one sleeping worker if there
  is one; a worker that returns takes one message and at most itself from the
  woken; a thread goes to sleep only when there is no message or no slot at all.
* `FeedSyncProofs` (any books and messages whose snapshots rebuild them, any
  packet size): `SyncTypeOK`, `SyncReplicaExact`, `SyncSnapshotExact`,
  `SyncNeverInconsistent`, `SyncNeverBack`, from an invariant that says that the
  history of books is a chain of applied messages, that every packet is a piece
  of the log, that a packet in hand is one too, and that a snapshot reply is the
  book at its resume point.
* `TickPipelineProofs` (any number of messages, ring, queue, cap):
  `PipelineNoSilentLoss`, from `LossInv`: `last_seq`, wherever a late datagram
  sets it, is a number that was received.

Assumptions: `CapAssumption`, `MaxPushAssumption`, `QueueAssumption` (capacity
positive, finite disjoint sets of threads), `PipelineAssumption`,
`BookAssumption` and `RoundTripAssumption` (applying a valid message to a book
gives a book; loading a snapshot's list gives the book it was made from). TLC
evaluates them on the instances; for the last two it does so with the real
`OrderBook` operators.

**Only model-checked:** all liveness properties (fairness is outside the
prover), the book's refinement, framing and codecs (they recurse over data), the
telemetry, engine, exchange and trader properties, and `RecoveryExact`.

## 6. Findings

1. `exchange_private_first`: `src/exchange.cpp:28-31` promises private reports
   before the public feed. A batch that is full is sent in the middle of
   matching, before the session's reports are flushed at the end of the loop.
2. `frames_trader`: `src/trader.cpp:331`, `692` and `769` pass
   `reader.write_ptr()` and `reader.write_space()` as arguments of one `recv`.
   Their order is unspecified, and g++ takes the last first, so the space is
   measured before `write_ptr` slides the buffer. When the buffer is exactly full
   and ends inside a frame, `recv` is asked for 0 bytes, returns 0, and the trader
   takes that for the end of the connection. The exchange's `read_session` asks
   in the order that `include/soupbin.hpp:166-168` shows, and
   `SessionEndsForAReason` holds for it.

Seen while modelling, and not checked by a run of its own:

* `src/receiver.cpp:71-73` says that gaps over the cap stay unrecovered *until* a
  slot is free. They are not remembered (495-500), so they stay unrecovered for
  good.
* `src/receiver.cpp:332-334` says that a signal interrupts `recvfrom`. One that
  is handled on another thread, or between the test of `g_stop` and the call,
  does not; the receiver then waits for a further datagram. `LoopEndDrains`
  therefore begins where the receive loop has ended.
* `include/shared_events.hpp:16-18` says that two writers can never collide on
  the same slot. They can when one of them is overtaken by a whole ring between
  taking its index and writing; `MemorySettled` excludes that case by `lapped`.
* The bridge counts events as shown when it has sent them to the clients of that
  moment, also when the last client left between the test and the send.
* `visualizer/js/telemetry/FeedHub.js:7-9` says that simulated numbers never pass
  for real ones. When the page turns to LIVE (62-65) the last simulated ones stay
  on it until a frame replaces them: the statistics until the first frame, the
  configuration until the receiver has set `ready`. `SourceHonest` is about the
  numbers being produced, not about those left over.
* After a URL that the browser refuses (54-60) no retry timer is set: the page
  keeps the simulated feed until Connect is pressed again. `ComesLive` is about a
  page that has the bridge's URL.

## 7. Simplifications that matter

* Except in `FrameStream` a message is a number or a model value.
* `TickPipeline` has one worker and uses the queue's promise, which the queue
  modules are shown to keep. The batch path of the receiver runs the same handler
  several times before a drain.
* `FeedSync` has one symbol and one exchange lifetime; packets are never
  consumed, which covers loss, copies and any order.
* `TraderOrders` leaves out notional, collar and kill-switch tests: they only
  refuse more orders. Its clock does not go back.
* `Exchange` leaves out heartbeat frames and the snapshot sessions' own output.
* `FlatIdMap` takes any function from ids to slots for the multiplicative hash.
* `SharedTelemetry` knows an event by its index, in two parts; its maximum is over
  small latencies, and the queue-depth gauge and the counters that only the
  receive thread writes are left out. One receiver lifetime: the bridge keeps the
  region it mapped, and a restarted receiver makes a new one.
* Values that nobody reads (a free node's order, an empty slot's value) are fixed.

## 8. Not modelled

* System-call wrappers (`include/event_loop.hpp`, `include/multicast.hpp` and the
  like), CPU, huge-page, topology and clock helpers: no state of their own.
* The FIX codec, the memory pool and the benchmarks themselves: the first two are
  used by tests and benchmarks only. The pool's twin inside the order book is in `LadderBook`.
* Latency histogram and sampler: measurement only; no decision reads them.
* The monitor: it only reads counters and prints.
* The page's views, heads-up display and camera: drawing in one thread, which
  nothing reads.
* SHA-1, base64 and JSON in the bridge: pure encodings of unbounded text.
* Argument parsing, socket set-up and reports of all programs.
* The two demonstration programs: faulty on purpose.
* A restart of the exchange: sequence numbers begin again at 1 and nothing is
  persisted; the trader has no notion of a new session of the feed.

Worth proving next: `RecoveryExact`, `SharesConserved` and `Uncrossed` for the
engine, `GateMatchesOrders` and `PositionLimit` for the trader, `MemorySettled`.
