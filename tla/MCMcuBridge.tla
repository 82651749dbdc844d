---------------------------- MODULE MCMcuBridge ----------------------------
(* Small instances of McuBridge for TLC.                                   *)
EXTENDS McuBridge

(* Full speed, and a stop with full braking: what the planner sends.       *)
MCDriveMsgs == {[speed |-> 1, acceleration |-> 0],
                [speed |-> 0, acceleration |-> -1]}

(* One command is enough where only the age of the stream matters.         *)
MCOneDriveMsg == {[speed |-> 1, acceleration |-> 0]}

MCLatchedReport == {[wheel_speed |-> 0, estop |-> TRUE, heartbeat_ok |-> FALSE]}

MCMcuReports == {[wheel_speed |-> 1, estop |-> FALSE, heartbeat_ok |-> TRUE],
                 [wheel_speed |-> 0, estop |-> TRUE, heartbeat_ok |-> FALSE]}
=============================================================================
