-------------------------------- MODULE Hal --------------------------------
(***************************************************************************)
(* What a vehicle behind /cmd_drive promises the rest of the stack,        *)
(* whoever implements it (the kinematic simulator, Gazebo, the car): its   *)
(* speed only ever moves toward the newest command, and only while that    *)
(* command is live and /estop is FALSE; otherwise it moves toward zero.    *)
(***************************************************************************)
EXTENDS Integers

CONSTANT Speeds         \* the speeds of the vehicle, in levels around 0

VARIABLES estop,        \* the last value the vehicle took from /estop
          command,      \* the live command: a set of at most one speed
          velocity      \* the speed of the vehicle

halVars == <<estop, command, velocity>>

(* The speeds a vehicle at speed v may have after a step toward target t.  *)
Toward(v, t) == {u \in Speeds : (v <= u /\ u <= t) \/ (t <= u /\ u <= v)}

Targets == IF estop \/ command = {} THEN {0} ELSE command

HalInit == estop = FALSE /\ command = {} /\ velocity = 0

TakeEstop ==
    /\ estop' \in BOOLEAN
    /\ UNCHANGED <<command, velocity>>

TakeCommand ==
    /\ \E c \in Speeds : command' = {c}
    /\ UNCHANGED <<estop, velocity>>

CommandExpires ==
    /\ command' = {}
    /\ UNCHANGED <<estop, velocity>>

Move ==
    /\ \E t \in Targets : velocity' \in Toward(velocity, t)
    /\ UNCHANGED <<estop, command>>

HalSpec == HalInit /\ [][TakeEstop \/ TakeCommand \/ CommandExpires \/ Move]_halVars
=============================================================================
