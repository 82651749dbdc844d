--------------------------- MODULE MCObstacleLoop ---------------------------
(* A small instance of ObstacleLoop for TLC.                               *)
EXTENDS ObstacleLoop

MCRoute == <<[x |-> 2, y |-> 0], [x |-> 6, y |-> 0], [x |-> 20, y |-> 0]>>

MCRoutes == {MCRoute}

MCPoses == {[x |-> 0, y |-> 0, yaw |-> "east"]}

MCTool == {[json |-> TRUE, action |-> "slow", lateral |-> {0}, forward |-> {4}]}

Point(px, py) == [x |-> px, y |-> py, seen |-> TRUE]

(* Points beside, behind and above the corridor only; an obstacle on the   *)
(* left that is far, at detour distance, closer, or inside the stop        *)
(* distance; a wide one on the right.                                      *)
MCClouds == {{Point(2, 3), Point(0, 0), [Point(1, 0) EXCEPT !.seen = FALSE]},
             {Point(10, 1)}, {Point(7, 1)}, {Point(5, 1)}, {Point(2, 1)},
             {Point(6, -1), Point(7, 0)}}
=============================================================================
