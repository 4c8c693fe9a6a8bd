--------------------------- MODULE MCRobotMotion ---------------------------
(* An instance of RobotMotion for TLC: three nodes in a row, of which the  *)
(* middle one is a tool pose and the last one behind an obstacle.          *)
EXTENDS RobotMotion, TLC

MCNodes == {1, 2, 3}
MCConf == [n \in MCNodes |-> [cell |-> n, branch |-> IF n = 3 THEN "up" ELSE "down"]]
MCEdges == (1 :> {2}) @@ (2 :> {1, 3}) @@ (3 :> {})
=============================================================================
