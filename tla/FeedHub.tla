------------------------------- MODULE FeedHub -------------------------------
(***************************************************************************)
(* The visualizer's feed (visualizer/js/telemetry/FeedHub.js, wired to the *)
(* page by visualizer/js/main.js): a WebSocket to the telemetry bridge     *)
(* while there is one, a simulated feed otherwise.                         *)
(*                                                                         *)
(* The browser runs one handler at a time.  A number on the page is known  *)
(* by where it came from.  Sockets are external: one that is being closed  *)
(* delivers nothing more but its close event.                              *)
(***************************************************************************)
EXTENDS Naturals

CONSTANTS MaxSockets,  \* the most that are alive at a time
          MaxConnects  \* the times the user presses Connect

Urls == {"bridge", "nowhere", "malformed"}
Sockets == 1 .. MaxSockets
NoSocket == 0

VARIABLES hub,       \* url, source, ws, retry (retryTimer is set), demo (demo.timer is
                     \* set), and where lastStats and lastConfig come from
          sock,      \* each socket: state, url, and whether it has an onclose handler
          up,        \* a bridge is running
          presses    \* how often the user may still press Connect
hubVars == <<hub, sock, up, presses>>

FreeSocket == [state |-> "free", url |-> "nowhere", onclose |-> FALSE]
Connecting(url) == [state |-> "connecting", url |-> url, onclose |-> TRUE]

\* DemoFeed.start: nothing if it runs already, else its configuration at once.
DemoStart(h) == [h EXCEPT !.demo = TRUE, !.config = IF h.demo THEN @ ELSE "demo"]

\* Faulty variant: the handler of the socket that is replaced stays.
QuietKeepsHandler(s) == [sock EXCEPT ![s].state = "closing"]

\* ws.onclose = null; ws.close().
Quiet(s) == [sock EXCEPT ![s].onclose = FALSE, ![s].state = "closing"]

\* connect(url) from the hub h: the old socket goes, and its retry timer; a URL that
\* cannot be parsed throws, which leaves the simulated feed and no retry.
Connect(h, url) ==
  LET old == IF h.ws = NoSocket THEN sock ELSE Quiet(h.ws)
      now == [h EXCEPT !.url = url, !.retry = FALSE]
  IN  \/ /\ url = "malformed"
         /\ hub' = DemoStart([now EXCEPT !.source = "demo"])
         /\ sock' = old
      \/ /\ url # "malformed"
         /\ \E s \in Sockets :
              /\ old[s].state = "free"
              /\ sock' = [old EXCEPT ![s] = Connecting(url)]
              /\ hub' = [now EXCEPT !.ws = s]

\* hud.onConnect.
UserConnects ==
  /\ presses > 0
  /\ presses' = presses - 1
  /\ \E url \in Urls : Connect(hub, url)
  /\ UNCHANGED up

RetryFires ==
  /\ hub.retry
  /\ Connect([hub EXCEPT !.retry = FALSE], hub.url)
  /\ UNCHANGED <<up, presses>>

\* onopen: the simulated feed stops, the label changes.
OnOpen(s) ==
  /\ sock[s].state = "connecting"
  /\ up /\ sock[s].url = "bridge"
  /\ sock' = [sock EXCEPT ![s].state = "open"]
  /\ hub' = [hub EXCEPT !.demo = FALSE, !.source = "live"]
  /\ UNCHANGED <<up, presses>>

\* onmessage: a frame always has statistics, and the configuration once it is ready.
OnMessage(s, ready) ==
  /\ sock[s].state = "open"
  /\ hub' = [hub EXCEPT !.stats = "live", !.config = IF ready THEN "live" ELSE @]
  /\ UNCHANGED <<sock, up, presses>>

\* Faulty variant: no timer is set.
OnCloseGivesUp(h) == DemoStart([h EXCEPT !.source = "demo"])

\* onclose: label, simulated feed, retry timer.
OnClose(h) == [DemoStart([h EXCEPT !.source = "demo"]) EXCEPT !.retry = TRUE]

\* A socket ends: close() was called, the connection is refused, or it breaks.
Ends(s) ==
  /\ sock[s].state # "free"
  /\ sock[s].state = "connecting" => ~(up /\ sock[s].url = "bridge")
  /\ sock' = [sock EXCEPT ![s] = FreeSocket]
  /\ hub' = LET h == IF hub.ws = s THEN [hub EXCEPT !.ws = NoSocket] ELSE hub
            IN  IF sock[s].onclose THEN OnClose(h) ELSE h
  /\ UNCHANGED <<up, presses>>

\* DemoFeed.tick, every 50 ms.
Tick ==
  /\ hub.demo
  /\ hub' = [hub EXCEPT !.stats = "demo"]
  /\ UNCHANGED <<sock, up, presses>>

\* The bridge is started or stopped.
BridgeTurns ==
  /\ up' = ~up
  /\ UNCHANGED <<hub, sock, presses>>

NoPage == [url |-> "nowhere", source |-> "never", ws |-> NoSocket, retry |-> FALSE,
           demo |-> FALSE, stats |-> "none", config |-> "none"]

\* The page has just been opened, with the URL of its address line: the constructor
\* with its connect, and main.js up to the listeners.
HubInit(opened) ==
  /\ up \in (IF opened THEN BOOLEAN ELSE {FALSE})
  /\ presses = IF opened THEN MaxConnects ELSE 0
  /\ \E url \in IF opened THEN Urls ELSE {"never"} :
       LET page == [NoPage EXCEPT !.url = url, !.source = "connecting"]
       IN  /\ hub = CASE url = "never" -> NoPage
                      [] url = "malformed" -> DemoStart([page EXCEPT !.source = "demo"])
                      [] OTHER -> [page EXCEPT !.ws = 1]
           /\ sock = [s \in Sockets |-> IF hub.ws = s THEN Connecting(url) ELSE FreeSocket]

Timers == RetryFires \/ Tick
SocketEvents == \E s \in Sockets : OnOpen(s) \/ Ends(s) \/ \E ready \in BOOLEAN : OnMessage(s, ready)
HubNext == hub.source # "never" /\ (UserConnects \/ Timers \/ SocketEvents \/ BridgeTurns)

\* A timer that is set fires or is cleared, and the browser brings what it has begun
\* to an end: an attempt opens or fails, a socket that is being closed is.  Nothing
\* is asked of an open connection, the user or the bridge.
HubFairness ==
  /\ []<>(~hub.retry)
  /\ []<>(\A s \in Sockets : sock[s].state \in {"free", "open"})
----------------------------------------------------------------------------
(* Properties. *)

\* "It is always labelled DEMO in the HUD - simulated numbers must never pass for
\* real ones": simulated numbers are produced under the label DEMO and only there,
\* with the simulated configuration beside them; frames arrive under LIVE and only
\* from the socket of now; and at most one thing is going to connect again, a
\* pending timer or the close event of a socket.
SourceHonest ==
  /\ hub.demo <=> hub.source = "demo"
  /\ hub.demo => hub.config = "demo"
  /\ \A s \in Sockets : sock[s].state = "open" => s = hub.ws /\ hub.source = "live"
  /\ \A s \in Sockets : sock[s].onclose => s = hub.ws /\ ~hub.retry

\* "The hub keeps retrying the WebSocket in the background, so starting the backend
\* later flips the page to LIVE without a reload": if from some time on the bridge
\* runs and the page has its URL, the page is live again and again, whatever
\* connections break.
ComesLive == <>[](up /\ hub.url = "bridge") => []<>(hub.source = "live")
============================================================================
