--------------------------- MODULE TelemetryBridge ---------------------------
(***************************************************************************)
(* telemetry_bridge (src/telemetry_bridge.cpp) with its WebSocketServer    *)
(* (src/ws_server.cpp): the main thread polls the shared memory and sends  *)
(* what is new to every client, the accept thread takes new clients in, a  *)
(* signal ends both.  clients_mu_ is held for the whole of a broadcast;    *)
(* every other use of it is one step.                                      *)
(***************************************************************************)
EXTENDS SharedTelemetry, Sequences, Functions

CONSTANT Peers   \* browsers

VARIABLES flaky,     \* peers may stall, misbehave or go away, and a signal may come
          peer,      \* where each browser is
          fd,        \* its descriptor: "none", "open", "closed"
          clients,   \* clients_
          acceptor,  \* the accept thread: pc and the client in hand
          bridge,    \* the main thread: pc, current, pos, and the broadcast's lists
          last_seen, g_stop,
          stop,      \* stop_
          eintr,     \* the thread whose system call the signal interrupts
          seen,      \* the indices read so far
          skipped,   \* the indices given up
          cfgseen    \* the parts of the configuration last shown
serverVars == <<peer, fd, clients, acceptor, stop>>
bridgeVars == <<bridge, last_seen, seen, skipped, cfgseen>>
vars == <<memory, serverVars, bridgeVars, flaky, g_stop, eintr>>

NoPeer == "nobody"
Absent == {"never", "away"}
Gone == {"gone", "left"}   \* "left": went away before it had sent its request

SceneInit(sc) ==
  /\ MemoryInit(sc.records)
  /\ flaky = sc.flaky
  /\ peer = [p \in Peers |-> IF p \in sc.peers THEN "away" ELSE "never"]
  /\ fd = [p \in Peers |-> "none"]
  /\ clients = << >>
  /\ acceptor = [pc |-> "poll", p |-> NoPeer]
  /\ bridge = [pc |-> "check", current |-> 0, pos |-> 0, todo |-> << >>, alive |-> << >>]
  /\ last_seen = 0
  /\ g_stop = FALSE
  /\ stop = FALSE
  /\ eintr = "none"
  /\ seen = << >>
  /\ skipped = {}
  /\ cfgseen = {}

MemoryStep == MemoryNext /\ UNCHANGED <<serverVars, bridgeVars, flaky, g_stop, eintr>>
----------------------------------------------------------------------------
(* The browsers.  A stalled one is one whose socket buffer is full. *)

PeerMoves(p, from, to) ==
  /\ peer[p] \in from
  /\ peer' = [peer EXCEPT ![p] = to]
  /\ UNCHANGED <<memory, bridgeVars, fd, clients, acceptor, stop, flaky, g_stop, eintr>>

Arrives(p) == PeerMoves(p, {"away"}, "silent")
Talks(p) == PeerMoves(p, {"silent"}, "ok")
TalksNonsense(p) == flaky /\ PeerMoves(p, {"silent"}, "wrong")
Stalls(p) == flaky /\ PeerMoves(p, {"ok"}, "stalled")
Reads(p) == PeerMoves(p, {"stalled"}, "fine")
Leaves(p) == flaky /\ (PeerMoves(p, {"silent"}, "left") \/ PeerMoves(p, {"ok", "wrong", "stalled", "fine"}, "gone"))

PeerStep == \E p \in Peers :
  Arrives(p) \/ Talks(p) \/ TalksNonsense(p) \/ Stalls(p) \/ Reads(p) \/ Leaves(p)
----------------------------------------------------------------------------
(* accept_loop. *)

acceptOnly == <<memory, bridgeVars, peer, stop, flaky, g_stop>>

Accept(p) ==
  /\ acceptor.pc = "poll"
  /\ ~stop
  /\ peer[p] \notin Absent
  /\ fd[p] = "none"
  /\ fd' = [fd EXCEPT ![p] = "open"]
  /\ acceptor' = [pc |-> "handshake", p |-> p]
  /\ UNCHANGED <<acceptOnly, clients, eintr>>

\* perform_handshake: recv waits for the request as long as the peer keeps it open.
HandshakeOk ==
  /\ acceptor.pc = "handshake"
  /\ eintr # "accept"
  /\ peer[acceptor.p] \in {"ok", "stalled", "fine", "gone"}
  /\ acceptor' = [acceptor EXCEPT !.pc = "push"]
  /\ UNCHANGED <<acceptOnly, fd, clients, eintr>>

\* Not an upgrade request, the peer is gone, or a signal came: close.
HandshakeFails ==
  /\ acceptor.pc = "handshake"
  /\ peer[acceptor.p] \in Gone \cup {"wrong"} \/ eintr = "accept"
  /\ fd' = [fd EXCEPT ![acceptor.p] = "closed"]
  /\ acceptor' = [pc |-> "poll", p |-> NoPeer]
  /\ eintr' = IF eintr = "accept" THEN "none" ELSE eintr
  /\ UNCHANGED <<acceptOnly, clients>>

\* Faulty variant: clients_ is changed without the mutex.
PushUnlocked ==
  /\ acceptor.pc = "push"
  /\ clients' = Append(clients, acceptor.p)
  /\ acceptor' = [pc |-> "poll", p |-> NoPeer]
  /\ UNCHANGED <<acceptOnly, fd, eintr>>

\* Faulty variant: stop() holds the mutex while it joins.
PushWaitsForStop ==
  /\ acceptor.pc = "push"
  /\ bridge.pc \notin {"send", "join"}
  /\ clients' = Append(clients, acceptor.p)
  /\ acceptor' = [pc |-> "poll", p |-> NoPeer]
  /\ UNCHANGED <<acceptOnly, fd, eintr>>

\* clients_.push_back under clients_mu_.
Push ==
  /\ acceptor.pc = "push"
  /\ bridge.pc # "send"
  /\ clients' = Append(clients, acceptor.p)
  /\ acceptor' = [pc |-> "poll", p |-> NoPeer]
  /\ UNCHANGED <<acceptOnly, fd, eintr>>

AcceptEnds ==
  /\ acceptor.pc = "poll"
  /\ stop
  /\ acceptor' = [acceptor EXCEPT !.pc = "done"]
  /\ UNCHANGED <<acceptOnly, fd, clients, eintr>>

AcceptThread == (\E p \in Peers : Accept(p)) \/ HandshakeOk \/ HandshakeFails \/ Push \/ AcceptEnds
----------------------------------------------------------------------------
(* The main loop, build_snapshot_json and broadcast_text. *)

bridgeOnly == <<memory, peer, flaky, g_stop>>

BridgeAt(pc) == bridge.pc = pc
BridgeGoto(pc) == bridge' = [bridge EXCEPT !.pc = pc]

\* Faulty variant: a single client is not enough.
CheckMoreThanOne ==
  /\ BridgeAt("check")
  /\ BridgeGoto(CASE g_stop -> "stop" [] ~g_stop /\ Len(clients) > 1 -> "config" [] OTHER -> "check")
  /\ UNCHANGED <<bridgeOnly, fd, clients, acceptor, stop, eintr, last_seen, seen, skipped, cfgseen>>

\* g_stop, client_count: nothing is read while nobody listens.
Check ==
  /\ BridgeAt("check")
  /\ BridgeGoto(CASE g_stop -> "stop" [] ~g_stop /\ clients # << >> -> "config" [] OTHER -> "check")
  /\ UNCHANGED <<bridgeOnly, fd, clients, acceptor, stop, eintr, last_seen, seen, skipped, cfgseen>>

\* config.ready.load(acquire), and the fields if it is set.
ReadConfig ==
  /\ BridgeAt("config")
  /\ cfgseen' = IF config.ready THEN config.parts ELSE cfgseen
  /\ BridgeGoto("index")
  /\ UNCHANGED <<bridgeOnly, fd, clients, acceptor, stop, eintr, last_seen, seen, skipped>>

\* write_index.load; more than a whole ring behind: skip ahead.
LoadIndex ==
  /\ BridgeAt("index")
  /\ LET from == IF write_index - last_seen > RingCap THEN write_index - RingCap ELSE last_seen
     IN  /\ bridge' = [bridge EXCEPT !.pc = "slots", !.current = write_index, !.pos = from]
         /\ skipped' = skipped \cup (last_seen .. from - 1)
         /\ last_seen' = from
  /\ UNCHANGED <<bridgeOnly, fd, clients, acceptor, stop, eintr, seen, cfgseen>>

ReadSlot ==
  /\ BridgeAt("slots")
  /\ bridge.pos # bridge.current
  /\ seen' = Append(seen, bridge.pos)
  /\ bridge' = [bridge EXCEPT !.pos = @ + 1]
  /\ UNCHANGED <<bridgeOnly, fd, clients, acceptor, stop, eintr, last_seen, skipped, cfgseen>>

\* Faulty variant: the index is loaded again.
SlotsReadReload ==
  /\ BridgeAt("slots")
  /\ bridge.pos = bridge.current
  /\ last_seen' = write_index
  /\ BridgeGoto("lock")
  /\ UNCHANGED <<bridgeOnly, fd, clients, acceptor, stop, eintr, seen, skipped, cfgseen>>

SlotsRead ==
  /\ BridgeAt("slots")
  /\ bridge.pos = bridge.current
  /\ last_seen' = bridge.current
  /\ BridgeGoto("lock")
  /\ UNCHANGED <<bridgeOnly, fd, clients, acceptor, stop, eintr, seen, skipped, cfgseen>>

Lock ==
  /\ BridgeAt("lock")
  /\ bridge' = [bridge EXCEPT !.pc = "send", !.todo = clients, !.alive = << >>]
  /\ UNCHANGED <<bridgeOnly, fd, clients, acceptor, stop, eintr, last_seen, seen, skipped, cfgseen>>

\* send_full: waits while the peer's buffer is full; a peer that is gone may not be
\* noticed at once.
SendOk ==
  /\ BridgeAt("send")
  /\ bridge.todo # << >>
  /\ eintr # "main"
  /\ peer[Head(bridge.todo)] \in {"ok", "fine", "gone"}
  /\ bridge' = [bridge EXCEPT !.todo = Tail(@), !.alive = Append(@, Head(bridge.todo))]
  /\ UNCHANGED <<bridgeOnly, fd, clients, acceptor, stop, eintr, last_seen, seen, skipped, cfgseen>>

SendFails ==
  /\ BridgeAt("send")
  /\ bridge.todo # << >>
  /\ peer[Head(bridge.todo)] = "gone" \/ eintr = "main"
  /\ fd' = [fd EXCEPT ![Head(bridge.todo)] = "closed"]
  /\ bridge' = [bridge EXCEPT !.todo = Tail(@)]
  /\ eintr' = IF eintr = "main" THEN "none" ELSE eintr
  /\ UNCHANGED <<bridgeOnly, clients, acceptor, stop, last_seen, seen, skipped, cfgseen>>

\* clients_ = alive, unlock; sleep.
EndBroadcast ==
  /\ BridgeAt("send")
  /\ bridge.todo = << >>
  /\ clients' = bridge.alive
  /\ bridge' = [bridge EXCEPT !.pc = "check", !.alive = << >>]
  /\ UNCHANGED <<bridgeOnly, fd, acceptor, stop, eintr, last_seen, seen, skipped, cfgseen>>

\* ~WebSocketServer, stop: tell the accept thread, join it, close what is left.
Stop ==
  /\ BridgeAt("stop")
  /\ stop' = TRUE
  /\ BridgeGoto("join")
  /\ UNCHANGED <<bridgeOnly, fd, clients, acceptor, eintr, last_seen, seen, skipped, cfgseen>>

Join ==
  /\ BridgeAt("join")
  /\ acceptor.pc = "done"
  /\ fd' = [p \in Peers |-> IF p \in Range(clients) THEN "closed" ELSE fd[p]]
  /\ clients' = << >>
  /\ BridgeGoto("done")
  /\ UNCHANGED <<bridgeOnly, acceptor, stop, eintr, last_seen, seen, skipped, cfgseen>>

MainThread ==
  \/ Check \/ ReadConfig \/ LoadIndex \/ ReadSlot \/ SlotsRead \/ Lock
  \/ SendOk \/ SendFails \/ EndBroadcast \/ Stop \/ Join

\* SIGINT or SIGTERM: whichever thread it is delivered to, a recv or send that
\* waits there fails with EINTR.
Signal ==
  /\ flaky
  /\ ~g_stop
  /\ g_stop' = TRUE
  /\ eintr' \in {"none"} \cup (IF acceptor.pc = "handshake" THEN {"accept"} ELSE {})
                        \cup (IF BridgeAt("send") /\ bridge.todo # << >> THEN {"main"} ELSE {})
  /\ UNCHANGED <<memory, serverVars, bridgeVars, flaky>>

Over ==
  /\ BridgeAt("done")
  /\ UNCHANGED vars

BridgeNext == MemoryStep \/ PeerStep \/ AcceptThread \/ MainThread \/ Signal \/ Over

\* Both threads run; a browser that has connected does not stay silent for ever and
\* one that has stalled does not stay so: it goes on, or leaves.  The code has no
\* time-out of its own.
BridgeFairness ==
  /\ WF_vars(AcceptThread)
  /\ WF_vars(MainThread)
  /\ \A p \in Peers : []<>(peer[p] # "silent") /\ []<>(peer[p] # "stalled")
----------------------------------------------------------------------------
(* Properties. *)

\* The bridge never passes the writers, and no client is listed twice.
TypeOK ==
  /\ write_index \in 0 .. MaxRecords * Cardinality(Writers)
  /\ last_seen <= write_index
  /\ bridge.pos \in 0 .. bridge.current
  /\ fd \in [Peers -> {"none", "open", "closed"}]
  /\ IsInjective(clients)
  /\ eintr \in {"none", "accept", "main"}

\* No event is shown twice, none out of order, and none is dropped but those the
\* ring had already overwritten when the bridge came round (telemetry_bridge.cpp,
\* "We fell behind the ring's wraparound").  The configuration is shown whole or not
\* at all (shared_events.hpp: ready is set, with release, after every field).
EachEventOnce ==
  LET upto == IF BridgeAt("slots") THEN bridge.pos ELSE last_seen
  IN  /\ TypeOK
      /\ \A i, j \in DOMAIN seen : i < j => seen[i] < seen[j]
      /\ Range(seen) \cup skipped = 0 .. upto - 1
      /\ Range(seen) \cap skipped = {}
      /\ \A i \in skipped : i + RingCap < write_index
      /\ cfgseen \in {{}, Parts}

\* A descriptor is open exactly as long as somebody will close it: the accept thread
\* has it in hand, it is in clients_, or the broadcast has still to decide; a client
\* accepted during a broadcast is not dropped by clients_ = alive, and nothing is
\* sent to a closed descriptor, which may be another connection's by then.
DescriptorsExact ==
  LET inHand == IF acceptor.pc \in {"handshake", "push"} THEN {acceptor.p} ELSE {}
      listed == IF BridgeAt("send") THEN Range(bridge.todo \o bridge.alive) ELSE Range(clients)
  IN  {p \in Peers : fd[p] = "open"} = inHand \cup listed

\* The bridge comes to its end after a signal, provided no browser keeps it waiting
\* for ever: the join in stop() waits for a handshake, the handshake's push for a
\* broadcast, and the broadcast for its slowest client.
StopReturns == g_stop ~> BridgeAt("done")

\* As long as the bridge runs and somebody listens it catches up with the writers:
\* whatever is recorded is shown or passed over.
EventuallyShown == []<>(last_seen = write_index \/ g_stop \/ clients = << >>)
============================================================================
