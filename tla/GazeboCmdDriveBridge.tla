------------------------ MODULE GazeboCmdDriveBridge ------------------------
(***************************************************************************)
(* gazebo_cmd_drive_bridge_node.py: the other vehicle behind /cmd_drive,   *)
(* an adapter that repeats the newest command to Gazebo as a Twist.  It    *)
(* subscribes to /cmd_drive only; the model keeps what an operator last    *)
(* published on /estop to compare it with the vehicle's promise.           *)
(***************************************************************************)
EXTENDS Integers

CONSTANTS
    MaxSpeed,           \* max_speed_mps, in levels
    CommandTimeout      \* command_timeout_s, in ticks of 0.02 s

VARIABLES
    estop,              \* the last value published on /estop
    latest_twist,       \* self.latest_twist, its linear speed
    command_age,        \* now - self.last_command_time, None past the timeout
    cmd_vel             \* the last linear speed published to Gazebo

gazeboVars == <<estop, latest_twist, command_age, cmd_vel>>

(* Commands may exceed the limits either way, and may ask for reverse.     *)
RequestedSpeeds == -MaxSpeed - 1 .. MaxSpeed + 1

(* Plausible bug: only the forward limit is applied.                       *)
LimitedForward(v) == IF v > MaxSpeed THEN MaxSpeed ELSE v

(* cmd_drive_to_twist_values.                                              *)
Limited(v) == IF v > MaxSpeed THEN MaxSpeed ELSE IF v < -MaxSpeed THEN -MaxSpeed ELSE v

Stale == command_age > CommandTimeout

Init ==
    /\ estop = FALSE
    /\ latest_twist = 0
    /\ command_age = CommandTimeout + 1
    /\ cmd_vel = 0

OnCmdDrive(speed) ==
    /\ latest_twist' = Limited(speed)
    /\ command_age' = 0
    /\ UNCHANGED <<estop, cmd_vel>>

(* Plausible bugs: the newest twist is repeated for ever; a stale command  *)
(* publishes nothing, so Gazebo keeps the last twist.                      *)
TickRepeats ==
    /\ cmd_vel' = latest_twist
    /\ UNCHANGED <<estop, latest_twist, command_age>>

TickSilent ==
    /\ cmd_vel' = IF Stale THEN cmd_vel ELSE latest_twist
    /\ UNCHANGED <<estop, latest_twist, command_age>>

(* _tick: no command yet and a stale command both publish a zero Twist.    *)
Tick ==
    /\ cmd_vel' = IF Stale THEN 0 ELSE latest_twist
    /\ UNCHANGED <<estop, latest_twist, command_age>>

TimePasses ==
    /\ command_age' = IF Stale THEN CommandTimeout + 1 ELSE command_age + 1
    /\ UNCHANGED <<estop, latest_twist, cmd_vel>>

(* Somebody publishes /estop; this node is not among the readers.          *)
EstopPublished ==
    /\ estop' \in BOOLEAN
    /\ UNCHANGED <<latest_twist, command_age, cmd_vel>>

Next ==
    \/ \E speed \in RequestedSpeeds : OnCmdDrive(speed)
    \/ Tick
    \/ TimePasses
    \/ EstopPublished

Spec == Init /\ [][Next]_gazeboVars

-----------------------------------------------------------------------------
(* Twists keep the limits in both directions, whatever is commanded.       *)
TypeOK ==
    /\ estop \in BOOLEAN
    /\ latest_twist \in -MaxSpeed .. MaxSpeed
    /\ command_age \in 0 .. CommandTimeout + 1
    /\ cmd_vel \in -MaxSpeed .. MaxSpeed

Command == IF Stale THEN {} ELSE {latest_twist}

(* As long as /estop is ignored the adapter keeps the vehicle's promise:   *)
(* what it publishes moves only toward a command that is not stale.        *)
Commanded == INSTANCE Hal WITH
    Speeds <- -MaxSpeed .. MaxSpeed, estop <- FALSE,
    command <- Command, velocity <- cmd_vel

CommandedSpec == Commanded!HalSpec

(* The whole promise, /estop included: an e-stop stops the motion.         *)
Vehicle == INSTANCE Hal WITH
    Speeds <- -MaxSpeed .. MaxSpeed, command <- Command, velocity <- cmd_vel

VehicleSpec == Vehicle!HalSpec

(* Once the command stream has dried up for good, Gazebo is told to stop   *)
(* and nothing else any more.                                              *)
ComesToRest == <>[](command_age > CommandTimeout) => <>[](cmd_vel = 0)
=============================================================================
