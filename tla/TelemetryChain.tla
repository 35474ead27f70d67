--------------------------- MODULE TelemetryChain ----------------------------
(***************************************************************************)
(* From the receiver's shared memory to the page: the bridge with the      *)
(* browsers as its peers, or the page with the bridge as something that    *)
(* comes and goes.  Neither reads the other's state but through a socket,  *)
(* so each is followed in scenes of its own.                               *)
(***************************************************************************)
EXTENDS TelemetryBridge, FeedHub

CONSTANT Scenes   \* who takes part: [records, peers, flaky, page]

ASSUME ScenesAssumption ==
  Scenes \subseteq [records : [Writers -> 0 .. MaxRecords], peers : SUBSET Peers,
                    flaky : BOOLEAN, page : BOOLEAN]

chainVars == <<vars, hubVars>>

Init == \E sc \in Scenes : SceneInit(sc) /\ HubInit(sc.page)

InPageScene == hub.source # "never"

Next ==
  \/ ~InPageScene /\ BridgeNext /\ UNCHANGED hubVars
  \/ InPageScene /\ HubNext /\ UNCHANGED vars

Spec == Init /\ [][Next]_chainVars /\ BridgeFairness /\ HubFairness
============================================================================
