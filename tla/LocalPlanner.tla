---------------------------- MODULE LocalPlanner ----------------------------
(***************************************************************************)
(* local_planner_node.py: every odometry message is answered with one      *)
(* /cmd_drive message computed from what the other callbacks have stored:  *)
(* the path, the e-stop flag and the last obstacle advisory.               *)
(***************************************************************************)
EXTENDS PurePursuit

CONSTANTS
    InitialPath,        \* the route of route_file, or the placeholder path
    GlobalPaths,        \* the PoseArrays that /global_path may carry
    OdomPoses,          \* the poses odometry may report
    Payloads,           \* the JSON texts the advisory topic may carry
    AdvisoryTimeout     \* dynamic_obstacle_timeout_s, in ticks

(* An advisory as JSON text: a number is null or one value.                *)
IsPayload(p) ==
    /\ p.lateral \subseteq Int /\ \A v, w \in p.lateral : v = w
    /\ p.forward \subseteq Int /\ \A v, w \in p.forward : v = w
    /\ p.json \in BOOLEAN

ASSUME PlannerAssumption ==
    /\ InitialPath \in Seq(Points) /\ InitialPath # << >>
    /\ GlobalPaths \subseteq Seq(Points)
    /\ OdomPoses \subseteq Poses
    /\ \A p \in Payloads : IsPayload(p)
    /\ AdvisoryTimeout \in Nat

VARIABLES
    path,               \* self.path
    estop,              \* self.estop
    dynamic_obstacle,   \* self.dynamic_obstacle, a set of at most one
    obstacle_age,       \* now - self.dynamic_obstacle_time_s
    odom,               \* the pose of the last odometry message
    cmd                 \* the last message published on /cmd_drive

plannerVars == <<path, estop, dynamic_obstacle, obstacle_age, odom, cmd>>

(* Plausible bug: an action nobody knows is passed on.                     *)
ParseAnyAction(p) ==
    IF p.json
    THEN {[action |-> p.action, lateral |-> v, forward |-> w] :
             v \in p.lateral, w \in p.forward}
    ELSE {}

(* parse_dynamic_obstacle_advisory: text that is no JSON object, an action *)
(* it does not know (ValueError) and a number that is null (TypeError) all *)
(* leave no advisory.  A key that is absent counts as its default.         *)
Parse(p) ==
    IF p.json /\ p.action \in Actions
    THEN {[action |-> p.action, lateral |-> v, forward |-> w] :
             v \in p.lateral, w \in p.forward}
    ELSE {}

(* Plausible bug: the age is compared once, when the advisory arrives.     *)
CurrentAdvisoryForever == dynamic_obstacle

(* _current_dynamic_obstacle_advisory. *)
CurrentAdvisory == IF obstacle_age > AdvisoryTimeout THEN {} ELSE dynamic_obstacle

NoCommand == [steering |-> 0, speed |-> 0, acceleration |-> 0, stamp |-> TRUE]

Init ==
    /\ path = InitialPath
    /\ estop = FALSE
    /\ dynamic_obstacle = {}
    /\ obstacle_age = AdvisoryTimeout + 1
    /\ odom \in OdomPoses
    /\ cmd = NoCommand

OnEstop(value) ==
    /\ estop' = value
    /\ UNCHANGED <<path, dynamic_obstacle, obstacle_age, odom, cmd>>

(* _on_global_path: a path of fewer than two poses is ignored.             *)
OnGlobalPath(poses) ==
    /\ path' = IF Len(poses) < 2 THEN path ELSE poses
    /\ UNCHANGED <<estop, dynamic_obstacle, obstacle_age, odom, cmd>>

(* _on_dynamic_obstacle: a malformed advisory changes nothing, not even    *)
(* the time of the one before.                                             *)
OnDynamicObstacle(p) ==
    /\ IF Parse(p) = {}
       THEN UNCHANGED <<dynamic_obstacle, obstacle_age>>
       ELSE dynamic_obstacle' = Parse(p) /\ obstacle_age' = 0
    /\ UNCHANGED <<path, estop, odom, cmd>>

(* The stamp of a message tells it from the one before.                    *)
Stamped(c) == [steering |-> c.steering, speed |-> c.speed,
               acceleration |-> c.acceleration, stamp |-> ~cmd.stamp]

OnOdom(pose) ==
    /\ odom' = pose
    /\ cmd' = Stamped(DriveCommand(pose, path, estop, CurrentAdvisory))
    /\ UNCHANGED <<path, estop, dynamic_obstacle, obstacle_age>>

TimePasses ==
    /\ obstacle_age' = IF obstacle_age > AdvisoryTimeout THEN obstacle_age
                                                         ELSE obstacle_age + 1
    /\ UNCHANGED <<path, estop, dynamic_obstacle, odom, cmd>>

Next ==
    \/ \E value \in BOOLEAN : OnEstop(value)
    \/ \E poses \in GlobalPaths : OnGlobalPath(poses)
    \/ \E p \in Payloads : OnDynamicObstacle(p)
    \/ \E pose \in OdomPoses : OnOdom(pose)
    \/ TimePasses

Spec == Init /\ [][Next]_plannerVars
-----------------------------------------------------------------------------
(* Properties.                                                             *)

(* Types; in particular the path is never empty, on which _near_goal and   *)
(* the pure pursuit rely when they take its last point.                    *)
TypeOK ==
    /\ path \in Seq(Points) /\ path # << >>
    /\ estop \in BOOLEAN
    /\ dynamic_obstacle \subseteq Advisories
    /\ obstacle_age \in 0 .. AdvisoryTimeout + 1
    /\ odom \in Poses
    /\ cmd.speed \in Nat /\ cmd.acceleration \in -10 .. 0
    /\ cmd.steering \in Int /\ cmd.stamp \in BOOLEAN

Published == cmd'.stamp # cmd.stamp

(* The command alone, as if no advisory had ever come.                     *)
Unadvised(pose) == DriveCommand(pose, path, estop, {})

(* From the moment the e-stop is stored until it is released nothing but   *)
(* full braking is published, whatever path or advisory arrives meanwhile. *)
EstopBrakes ==
    [][estop /\ Published => estop' /\ cmd'.speed = 0 /\ cmd'.acceleration = -10]_plannerVars

(* While an advisory other than clear is live the vehicle is kept slow: no *)
(* command is faster than slow_speed, and each one brakes.                 *)
AdvisoryBounds ==
    [][Published /\ obstacle_age <= AdvisoryTimeout
       => \A a \in dynamic_obstacle : a.action # "clear" =>
              cmd'.speed <= SlowSpeed * 10 /\ cmd'.acceleration < 0]_plannerVars

(* slow and stop only ever take speed away and add brake; the steering     *)
(* stays what the path asks for.                                           *)
SlowerOnly ==
    [][Published => \A a \in dynamic_obstacle : a.action \in {"slow", "stop"} =>
          /\ cmd'.speed <= Unadvised(odom').speed
          /\ cmd'.acceleration <= Unadvised(odom').acceleration
          /\ cmd'.steering = Unadvised(odom').steering]_plannerVars

(* The full brake, which the planner sets for the e-stop and at the goal,  *)
(* is released by no advisory, a detour included.                          *)
FullBrakeStays ==
    [][Published /\ Unadvised(odom').acceleration = -10
       => cmd'.speed = 0 /\ cmd'.acceleration = -10]_plannerVars

(* clear is the same as no advisory.                                       *)
ClearDoesNothing ==
    [][Published => \A a \in dynamic_obstacle : a.action = "clear" =>
          cmd' = Stamped(Unadvised(odom'))]_plannerVars

(* An advisory that nobody has repeated within its timeout has no effect.  *)
StaleIsForgotten ==
    [][Published /\ obstacle_age > AdvisoryTimeout
       => cmd' = Stamped(Unadvised(odom'))]_plannerVars

(* A live detour whose bypass point is at least the lookahead away turns   *)
(* the wheel to the advised side, unless the vehicle has to stand still.   *)
DetourSteers ==
    [][Published /\ obstacle_age <= AdvisoryTimeout /\ ~estop
       /\ ~NearGoal(odom', path)
       => \A a \in dynamic_obstacle :
             a.action = "detour" /\ a.lateral # 0 /\ a.forward >= Lookahead
             => cmd'.steering = a.lateral]_plannerVars

(* What an advisory can do, which comes from perception over a topic that  *)
(* anybody may write to: slow and stop only take speed away, clear does    *)
(* nothing, nothing lasts beyond the timeout, and nothing releases a full  *)
(* brake.  A detour may steer, and may release the half brake of a planner *)
(* whose path lies behind it; AdvisoryBounds then keeps the vehicle slow.  *)
AdvisoryHasLimits ==
    SlowerOnly /\ FullBrakeStays /\ ClearDoesNothing /\ StaleIsForgotten
=============================================================================
