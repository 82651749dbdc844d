----------------------------- MODULE DriveLoop -----------------------------
(***************************************************************************)
(* bringup.launch.py with use_sim and mode auto: the local planner, the    *)
(* simulated vehicle and the MCU bridge in dry-run, coupled by odometry,   *)
(* /cmd_drive and /estop, with an operator on /estop.  The bridge is       *)
(* McuBridge, the vehicle VehicleSim, the planner's answer PurePursuit.    *)
(*                                                                         *)
(* The vehicle drives straight east to the one point of the route, so a    *)
(* position stands for a pose, in half metres.  A tick moves the vehicle   *)
(* by speed * dt, a few centimetres at most, so it crosses into the next   *)
(* half metre or does not; level 0 is a speed too small to move it.  There *)
(* is no steering and no advisory; the /vehicle/state messages, which no   *)
(* node of the loop reads, are left out.                                   *)
(***************************************************************************)
EXTENDS McuBridge

CONSTANTS
    GoalX,              \* where the route ends, in half metres
    RoadEnd,            \* bound: positions from here on are not told apart
    MaxSpeed,           \* the levels of speed of the vehicle
    CommandTimeout,     \* the simulator's command_timeout_s, in periods
    KeepUp,             \* the nodes that empty their queues every period
    OperatorActs,       \* whether somebody publishes on /estop by hand
    PlannerFails,       \* whether the planner may crash
    PlannerRestarts     \* whether it is started again

ASSUME LoopAssumption ==
    /\ EstopReaders = {"planner", "vehicle"}
    /\ CmdReaders = {"bridge", "vehicle"}
    /\ Transport = "dry-run"
    /\ [speed : {0, MaxSpeed}, acceleration : {0, -5, -10}, steering : {0}] \subseteq DriveMsgs
    /\ GoalX \in Nat \ {0} /\ RoadEnd \in Nat
    /\ MaxSpeed \in Nat \ {0} /\ CommandTimeout \in Nat \ {0}
    /\ KeepUp \subseteq {"bridge", "planner", "vehicle"}
    /\ OperatorActs \in BOOLEAN
    /\ PlannerFails \in BOOLEAN /\ PlannerRestarts \in BOOLEAN

VARIABLES
    odom,               \* /odometry/filtered on its way to the planner
    position,           \* state.x of the vehicle
    velocity,           \* state.velocity_mps of the vehicle
    target_velocity,    \* self.target_velocity of the vehicle
    command_age,        \* now - self.last_command_time of the vehicle
    vehicle_due,        \* the simulator's timer has expired
    operator            \* what the operator last did: "pressed" or "released"
                        \* the e-stop, or nothing yet, "absent"

bridgeVars == <<node, control_due, last_command, watchVars, last_mcu_state,
                linkVars, vehicle_state>>
simVars == <<position, velocity, target_velocity, command_age, vehicle_due>>
loopVars == <<vars, odom, simVars, operator>>

Sim == INSTANCE VehicleSim WITH
    MaxSteer <- 0, estop <- estop_seen["vehicle"], target_steering <- 0, steering <- 0

Pursuit == INSTANCE PurePursuit WITH
    Lookahead <- 4, GoalTolerance <- 3, SlowSpeed <- 4,
    DefaultLateral <- 2, MinForward <- 1, MergeForward <- 8

(* The planner's answer to odometry, its speed in levels of the vehicle.   *)
Answer(x) ==
    LET c == Pursuit!DriveCommand([x |-> x, y |-> 0, yaw |-> "east"],
                                  <<[x |-> GoalX, y |-> 0]>>,
                                  estop_seen["planner"], {})
    IN  [speed        |-> (c.speed * MaxSpeed) \div 180,
         acceleration |-> c.acceleration,
         steering     |-> c.steering]

LoopInit ==
    /\ Init
    /\ odom = << >>
    /\ position = 0
    /\ velocity = 0
    /\ target_velocity = 0
    /\ command_age = CommandTimeout + 1
    /\ vehicle_due = FALSE
    /\ operator = "absent"

Bridge ==
    /\ OnCmdDrive \/ ControlTick \/ ControlWritten
    /\ UNCHANGED <<odom, simVars, operator>>

(* _on_estop of the planner (while it runs) and of the vehicle.            *)
ReadsEstop(r) ==
    /\ r = "planner" => cmd_source = "alive"
    /\ OnEstop(r)
    /\ UNCHANGED <<odom, simVars, operator>>

(* VehicleSimNode._on_cmd_drive. *)
SimCmdDrive ==
    /\ cmd_drive["vehicle"] # << >>
    /\ cmd_drive' = Take(cmd_drive, "vehicle")
    /\ UNCHANGED <<cmd_source, estop_topic, estop_seen, bridgeVars>>
    /\ Sim!OnCmdDrive(Head(cmd_drive["vehicle"]))
    /\ UNCHANGED <<odom, position, vehicle_due, operator>>

(* VehicleSimNode._tick: one step of the model, then odometry.  Whether it *)
(* reaches the next half metre depends on where in this one it stands.     *)
SimTick ==
    /\ vehicle_due
    /\ vehicle_due' = FALSE
    /\ UNCHANGED <<vars, operator>>
    /\ Sim!Tick
    /\ position' \in position .. IF velocity' > 0 /\ position < RoadEnd
                                 THEN position + 1 ELSE position
    /\ odom' = IF cmd_source = "alive" THEN KeepLast(odom, position') ELSE odom

(* Plausible bug: a planner that has to stop publishes nothing at all.     *)
PlannerOdomSilent ==
    /\ cmd_source = "alive"
    /\ odom # << >>
    /\ cmd_drive' = IF estop_seen["planner"] THEN cmd_drive
                    ELSE Publish(cmd_drive, Answer(Head(odom)))
    /\ odom' = Tail(odom)
    /\ UNCHANGED <<cmd_source, estop_topic, estop_seen, bridgeVars, simVars, operator>>

(* LocalPlannerNode._on_odom. *)
PlannerOdom ==
    /\ cmd_source = "alive"
    /\ odom # << >>
    /\ cmd_drive' = Publish(cmd_drive, Answer(Head(odom)))
    /\ odom' = Tail(odom)
    /\ UNCHANGED <<cmd_source, estop_topic, estop_seen, bridgeVars, simVars, operator>>

(* The planner's process ends.                                             *)
PlannerCrash ==
    /\ PlannerFails /\ cmd_source = "alive"
    /\ cmd_source' = "gone"
    /\ odom' = << >>
    /\ estop_topic' = Forget(estop_topic, "planner")
    /\ UNCHANGED <<cmd_drive, estop_seen, bridgeVars, simVars, operator>>

(* Plausible bug: the new planner tells everybody that it has no e-stop.   *)
PlannerRestartAnnounces ==
    /\ PlannerRestarts /\ cmd_source = "gone"
    /\ cmd_source' = "alive"
    /\ estop_topic' = Publish(Forget(estop_topic, "planner"), FALSE)
    /\ estop_seen' = [estop_seen EXCEPT !["planner"] = FALSE]
    /\ UNCHANGED <<cmd_drive, odom, bridgeVars, simVars, operator>>

(* A new one starts without an e-stop, and volatile topics do not tell it  *)
(* what was said before.                                                   *)
PlannerRestart ==
    /\ PlannerRestarts /\ cmd_source = "gone"
    /\ cmd_source' = "alive"
    /\ estop_topic' = Forget(estop_topic, "planner")
    /\ estop_seen' = [estop_seen EXCEPT !["planner"] = FALSE]
    /\ UNCHANGED <<cmd_drive, odom, bridgeVars, simVars, operator>>

(* An operator presses or releases the e-stop (ros2 topic pub /estop).     *)
OperatorEstop ==
    /\ OperatorActs
    /\ operator' \in {"pressed", "released"} \ {operator}
    /\ estop_topic' = Publish(estop_topic, operator' = "pressed")
    /\ UNCHANGED <<cmd_drive, cmd_source, estop_seen, odom, bridgeVars, simVars>>

Waiting(n) ==
    CASE n = "bridge"  -> cmd_drive["bridge"] # << >>
      [] n = "vehicle" -> cmd_drive["vehicle"] # << >> \/ estop_topic["vehicle"] # << >>
      [] n = "planner" -> /\ cmd_source = "alive"
                          /\ odom # << >> \/ estop_topic["planner"] # << >>

(* One period of the 50 Hz timers, the bridge's and the simulator's.  Time *)
(* waits for the nodes of KeepUp to have emptied their queues.             *)
LoopTick ==
    /\ ~vehicle_due
    /\ \A n \in KeepUp : ~Waiting(n)
    /\ Tick
    /\ vehicle_due' = TRUE
    /\ command_age' = IF command_age > CommandTimeout THEN command_age ELSE command_age + 1
    /\ UNCHANGED <<odom, position, velocity, target_velocity, operator>>

LoopNext ==
    \/ Bridge
    \/ \E r \in EstopReaders : ReadsEstop(r)
    \/ SimCmdDrive \/ SimTick
    \/ PlannerOdom \/ PlannerCrash \/ PlannerRestart
    \/ OperatorEstop
    \/ LoopTick

LoopSpec == LoopInit /\ [][LoopNext]_loopVars

(* Executors go on serving timers and queues and time passes; nothing      *)
(* makes an operator act, or the planner crash or come back.  A vehicle    *)
(* that ticks again and again with a speed that moves it gets farther.     *)
LoopFair ==
    /\ LoopSpec
    /\ WF_loopVars(Bridge)
    /\ \A r \in EstopReaders : WF_loopVars(ReadsEstop(r))
    /\ WF_loopVars(SimCmdDrive) /\ WF_loopVars(SimTick)
    /\ WF_loopVars(PlannerOdom)
    /\ WF_loopVars(LoopTick)
    /\ Sim!Settles
    /\ SF_loopVars(SimTick /\ position' > position)
-----------------------------------------------------------------------------
(* Properties.                                                             *)

LoopTypeOK ==
    /\ TypeOK
    /\ odom \in Seq(0 .. RoadEnd) /\ Len(odom) <= Depth
    /\ position \in 0 .. RoadEnd
    /\ velocity \in 0 .. MaxSpeed /\ target_velocity \in 0 .. MaxSpeed
    /\ command_age \in 0 .. CommandTimeout + 1
    /\ vehicle_due \in BOOLEAN /\ operator \in {"absent", "pressed", "released"}

(* The startup alarm undoes itself: the planner answers odometry with stop *)
(* commands, these are a heartbeat for the bridge, the bridge clears the   *)
(* e-stop, and the vehicle drives to its goal and stays there, unless the  *)
(* planner goes away or crashes again and again, or the operator keeps the *)
(* e-stop pressed.  That the bridge clears its own alarm is what its code  *)
(* does; OperatorClears (McuBridge) is what the documents ask for.          *)
Arrives ==
    <>[](cmd_source = "alive" /\ operator # "pressed")
        => <>[](velocity = 0 /\ position >= GoalX - 1)

(* The bridge's watchdog beats the vehicle's own, longer timeout: with     *)
(* nodes that keep up, the vehicle does not gain speed once the stream of  *)
(* commands has been silent for longer than the heartbeat timeout and the  *)
(* period in which the watchdog notices.  An operator's release, which     *)
(* undoes the alarm at the vehicle, is another matter.                     *)
WatchdogStopsFirst ==
    [][velocity' > velocity /\ operator = "absent"
        => heartbeat_age <= HeartbeatTimeout + 1]_loopVars

(* A planner that crashed in an alarm comes back without an e-stop and     *)
(* commands full speed, and its first command has yet to end the alarm:    *)
(* until the bridge has said so, the vehicle that has taken the alarm does *)
(* not gain speed, however many commands overtake the all-clear.           *)
AlarmOutlivesPlanner ==
    [][velocity' > velocity /\ operator = "absent"
        => last_estop_published # {TRUE} \/ estop_topic["vehicle"] # << >>]_loopVars

(* When the planner is gone for good, and the operator leaves the e-stop   *)
(* as it is, the vehicle comes to rest and stays there, with its own       *)
(* e-stop on unless the operator has released it.                          *)
RestsWithoutPlanner ==
    \A last \in {"absent", "pressed", "released"} :
        <>[](cmd_source = "gone" /\ operator = last)
            => <>[](velocity = 0 /\ (last # "released" => estop_seen["vehicle"]))

(* An e-stop the operator has pressed and not released stays on at the     *)
(* vehicle that has taken it.                                              *)
EstopLatched ==
    [][operator = "pressed" /\ operator' = "pressed" /\ estop_seen["vehicle"]
        => estop_seen'["vehicle"]]_loopVars
=============================================================================
