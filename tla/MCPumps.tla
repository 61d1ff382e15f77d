-------------------------------- MODULE MCPumps ---------------------------------
(***************************************************************************)
(* Pumps with the kinds of messages that matter to each mode.              *)
(***************************************************************************)
EXTENDS Pumps

Both(up, down) == [d \in {"up", "down"} |-> IF d = "up" THEN up ELSE down]
PerMode(relay, l1, forward) ==
  [m \in {"relay", "l1", "forward"} |->
     CASE m = "relay" -> relay [] m = "l1" -> l1 [] m = "forward" -> forward]

MCKinds == PerMode(Both({"plain"}, {"plain"}),
                   Both({"plain", "blocked", "garbled"}, {"plain"}),
                   Both({"plain", "initialize", "garbled"}, {"plain", "garbled"}))
MCMaxSent == PerMode(Both(2, 2), Both(3, 2), Both(3, 2))
===============================================================================
