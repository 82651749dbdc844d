---------------------------- MODULE MCDriveLoop ----------------------------
(* A small instance of DriveLoop for TLC.                                  *)
EXTENDS DriveLoop

(* What the planner sends on the straight road: go, stop, or brake behind  *)
(* the goal.                                                               *)
MCDriveMsgs == [speed : {0, MaxSpeed}, acceleration : {0, -5, -10}, steering : {0}]
=============================================================================
