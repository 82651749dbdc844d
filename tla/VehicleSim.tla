----------------------------- MODULE VehicleSim -----------------------------
(***************************************************************************)
(* aris_vehicle_sim: the simulated vehicle behind /cmd_drive, with its     *)
(* command timeout and its e-stop.  Speed and steering are levels; one     *)
(* step of KinematicBicycleModel brings each closer to its target, by how  *)
(* much depends on the time since the last tick, which rclpy does not      *)
(* promise: no level, one, or several.                                     *)
(*                                                                         *)
(* Time is counted in sim ticks (0.02 s); command_age is now minus         *)
(* last_command_time, saturated one past the timeout, where None starts.   *)
(***************************************************************************)
EXTENDS Integers

CONSTANTS
    MaxSpeed,           \* fastest speed a command may carry, in levels
    MaxSteer,           \* max_steer_rad, in levels
    CommandTimeout      \* command_timeout_s, in ticks

ASSUME SimAssumption ==
    /\ MaxSpeed \in Nat \ {0} /\ MaxSteer \in Nat
    /\ CommandTimeout \in Nat \ {0}

VARIABLES
    estop,              \* self.estop
    target_velocity,    \* self.target_velocity
    target_steering,    \* self.target_steering
    command_age,        \* now - self.last_command_time
    velocity,           \* self.state.velocity_mps
    steering            \* self.state.steering_rad

simVars == <<estop, target_velocity, target_steering, command_age, velocity, steering>>

(* Teleop may ask for reverse, and either axis may exceed the limits.      *)
DriveMessages == [speed : -1 .. MaxSpeed, steering : -MaxSteer - 1 .. MaxSteer + 1]

AtLeast(low, v) == IF v < low THEN low ELSE v
AtMost(high, v) == IF v > high THEN high ELSE v

(* One step from v toward t: a low pass closes a small part of the gap, so *)
(* the level may stay what it is for any number of ticks.                  *)
Approach(v, t) == IF v < t THEN v .. t ELSE t .. v

Fresh == command_age < CommandTimeout

(* Plausible bugs: the e-stop, the timeout is left out.                    *)
ActiveVelocityNoEstop == IF Fresh THEN target_velocity ELSE 0

ActiveVelocityNoTimeout == IF estop THEN 0 ELSE target_velocity

ActiveVelocity == IF estop \/ ~Fresh THEN 0 ELSE target_velocity

(* Plausible bug: the wheel is centred when the command is stale.          *)
ActiveSteeringCentred == IF estop \/ ~Fresh THEN 0 ELSE target_steering

ActiveSteering == IF estop THEN 0
                  ELSE IF ~Fresh THEN steering ELSE target_steering

Init ==
    /\ estop = FALSE
    /\ target_velocity = 0
    /\ target_steering = 0
    /\ command_age = CommandTimeout + 1
    /\ velocity = 0
    /\ steering = 0

OnEstop(value) ==
    /\ estop' = value
    /\ UNCHANGED <<target_velocity, target_steering, command_age, velocity, steering>>

(* Plausible bug: reverse is not clamped.                                  *)
OnCmdDriveReverse(msg) ==
    /\ target_velocity' = msg.speed
    /\ target_steering' = AtLeast(-MaxSteer, AtMost(MaxSteer, msg.steering))
    /\ command_age' = 0
    /\ UNCHANGED <<estop, velocity, steering>>

OnCmdDrive(msg) ==
    /\ target_velocity' = AtLeast(0, msg.speed)
    /\ target_steering' = AtLeast(-MaxSteer, AtMost(MaxSteer, msg.steering))
    /\ command_age' = 0
    /\ UNCHANGED <<estop, velocity, steering>>

(* _tick: the active command drives one step of the bicycle model.         *)
Tick ==
    /\ velocity' \in Approach(velocity, ActiveVelocity)
    /\ steering' \in Approach(steering, ActiveSteering)
    /\ UNCHANGED <<estop, target_velocity, target_steering, command_age>>

TimePasses ==
    /\ command_age' = AtMost(CommandTimeout + 1, command_age + 1)
    /\ UNCHANGED <<estop, target_velocity, target_steering, velocity, steering>>

Next ==
    \/ \E value \in BOOLEAN : OnEstop(value)
    \/ \E msg \in DriveMessages : OnCmdDrive(msg)
    \/ Tick
    \/ TimePasses

Spec == Init /\ [][Next]_simVars

(* A low pass gets to a target that stays on one side of it in the end: a  *)
(* speed is not above its target for ever, nor below.  It is what weak     *)
(* fairness of the ticks that slow the vehicle, and of those that speed it *)
(* up, comes to; under changing targets it promises nothing.               *)
Settles ==
    /\ []<>(velocity <= ActiveVelocity)
    /\ []<>(velocity >= ActiveVelocity)

(* The timer keeps firing and time goes on; nothing makes anyone send.     *)
FairSpec == Spec /\ WF_simVars(Tick) /\ WF_simVars(TimePasses) /\ Settles

-----------------------------------------------------------------------------
(* Levels keep their ranges: commands are clamped before they are stored.  *)
TypeOK ==
    /\ estop \in BOOLEAN
    /\ target_velocity \in 0 .. MaxSpeed
    /\ target_steering \in -MaxSteer .. MaxSteer
    /\ command_age \in 0 .. CommandTimeout + 1
    /\ velocity \in 0 .. MaxSpeed
    /\ steering \in -MaxSteer .. MaxSteer

(* The simulator is a vehicle in the sense of Hal: its speed moves only    *)
(* toward a command younger than the timeout, and toward zero while the    *)
(* e-stop is on, whatever the order of ticks, commands and e-stops.        *)
Vehicle == INSTANCE Hal WITH
    Speeds <- -MaxSpeed .. MaxSpeed,
    command <- IF Fresh THEN {target_velocity} ELSE {}

VehicleSpec == Vehicle!HalSpec

(* Without a command the vehicle coasts straight on: the wheel moves only  *)
(* for a live command or an e-stop.                                        *)
HoldsTheWheel == [][steering' # steering => estop \/ command_age < CommandTimeout]_simVars

(* A vehicle nobody commands any more, or whose e-stop stays on, comes to  *)
(* rest and stays at rest.                                                 *)
ComesToRest == <>[](estop \/ command_age > CommandTimeout) => <>[](velocity = 0)
=============================================================================
