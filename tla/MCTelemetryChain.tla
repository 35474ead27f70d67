-------------------------- MODULE MCTelemetryChain ---------------------------
(***************************************************************************)
(* TelemetryChain with the workers alone, with two writers and a steady    *)
(* browser, with one writer and browsers that stall, misbehave and go, and *)
(* with the page.                                                          *)
(***************************************************************************)
EXTENDS TelemetryChain

CONSTANTS w1, w2, rx, a, b

Records(n1, n2, n3) == [t \in Writers |-> CASE t = w1 -> n1 [] t = w2 -> n2 [] t = rx -> n3]

MCScenes == {[records |-> Records(2, 1, 0), peers |-> {}, flaky |-> FALSE, page |-> FALSE],
             [records |-> Records(1, 0, 2), peers |-> {a}, flaky |-> FALSE, page |-> FALSE],
             [records |-> Records(0, 0, 1), peers |-> {a, b}, flaky |-> TRUE, page |-> FALSE],
             [records |-> Records(0, 0, 0), peers |-> {}, flaky |-> FALSE, page |-> TRUE]}
============================================================================
