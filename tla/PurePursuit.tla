---------------------------- MODULE PurePursuit ----------------------------
(***************************************************************************)
(* The pure part of the local planner: pure_pursuit.py, the obstacle       *)
(* advisories of dynamic_obstacle_advisory.py and the /cmd_drive mapping   *)
(* of cmd_drive.py.                                                        *)
(*                                                                         *)
(* The plane is a grid of half metres and a pose looks along one of the    *)
(* four axes, so rotations are exact.  Distances are compared squared.     *)
(* Speeds are tenths of a metre per second, brakes tenths of full brake,   *)
(* and the published speed, their product, is in hundredths.  Steering is  *)
(* represented by the lateral offset it aims at: atan(wheelbase * offset / *)
(* lookahead^2 * 2) grows with the offset and is zero only for zero.       *)
(***************************************************************************)
EXTENDS Integers, Sequences, FiniteSetsExt

CONSTANTS
    Lookahead,          \* lookahead_m, in grid steps
    GoalTolerance,      \* the least squared distance that is not near the goal
    SlowSpeed,          \* dynamic_obstacle_slow_speed_mps, in tenths
    DefaultLateral,     \* dynamic_obstacle_detour_lateral_m, in grid steps
    MinForward,         \* the least distance of a detour point, 0.5 m
    MergeForward        \* merge_forward_m, in grid steps

ASSUME PursuitAssumption ==
    /\ Lookahead \in Nat /\ GoalTolerance \in Nat
    /\ SlowSpeed \in Int /\ DefaultLateral \in Int
    /\ MinForward \in Nat \ {0} /\ MergeForward \in Int

Points == [x : Int, y : Int]
Poses  == [x : Int, y : Int, yaw : {"east", "north", "west", "south"}]

Cos(yaw) == CASE yaw = "east" -> 1 [] yaw = "west" -> -1 [] OTHER -> 0
Sin(yaw) == CASE yaw = "north" -> 1 [] yaw = "south" -> -1 [] OTHER -> 0

(* The point q in the frame of the vehicle: ahead of it, and to its left.  *)
LocalX(pose, q) == Cos(pose.yaw) * (q.x - pose.x) + Sin(pose.yaw) * (q.y - pose.y)
LocalY(pose, q) == Cos(pose.yaw) * (q.y - pose.y) - Sin(pose.yaw) * (q.x - pose.x)

SqDist(p, q) == (q.x - p.x) * (q.x - p.x) + (q.y - p.y) * (q.y - p.y)

(* _local_to_map. *)
LocalToMap(pose, forward, lateral) ==
    [x |-> pose.x + Cos(pose.yaw) * forward - Sin(pose.yaw) * lateral,
     y |-> pose.y + Sin(pose.yaw) * forward + Cos(pose.yaw) * lateral]

Ahead(pose, route) == {i \in DOMAIN route : LocalX(pose, route[i]) > 0}
Far(pose, route) ==
    {i \in Ahead(pose, route) : SqDist(pose, route[i]) >= Lookahead * Lookahead}

(* _lookahead_point: the first far point ahead, or else the last point     *)
(* ahead, or else the last point of all.                                   *)
LookaheadPoint(pose, route) ==
    IF Far(pose, route) # {} THEN route[Min(Far(pose, route))]
    ELSE IF Ahead(pose, route) # {} THEN route[Max(Ahead(pose, route))]
    ELSE route[Len(route)]

(* max_speed_mps, slowed down in the turn; never below 0.3 m/s.            *)
TurnSpeed(offset) ==
    CASE offset = 0 -> 18
      [] offset \in {-1, 1} -> 11
      [] offset \in {-2, 2} -> 5
      [] OTHER -> 3

FullStop == [steering |-> 0, velocity |-> 0, brake |-> 10]

(* Plausible bug: the vehicle coasts, without the brake.                   *)
CommandCoasts(pose, route, estop) ==
    IF estop \/ route = << >> THEN [FullStop EXCEPT !.brake = 0]
    ELSE LET target == LookaheadPoint(pose, route)
             offset == LocalY(pose, target)
         IN  IF LocalX(pose, target) <= 0
             THEN [steering |-> 0, velocity |-> 0, brake |-> 5]
             ELSE [steering |-> offset, velocity |-> TurnSpeed(offset), brake |-> 0]

(* PurePursuit.command. *)
Command(pose, route, estop) ==
    IF estop \/ route = << >> THEN FullStop
    ELSE LET target == LookaheadPoint(pose, route)
             offset == LocalY(pose, target)
         IN  IF LocalX(pose, target) <= 0
             THEN [steering |-> 0, velocity |-> 0, brake |-> 5]
             ELSE [steering |-> offset, velocity |-> TurnSpeed(offset), brake |-> 0]

(***************************************************************************)
(* An advisory is a set of at most one record: None is the empty set.      *)
(***************************************************************************)
Actions == {"clear", "slow", "stop", "detour"}
Advisories == [action : Actions, lateral : Int, forward : Int]

Advises(advisory, action) == \E a \in advisory : a.action = action

(* Plausible bug: the bypass point comes after the merge point.            *)
WithDetourMergedFirst(pose, route, advisory) ==
    IF route = << >> \/ ~Advises(advisory, "detour") THEN route
    ELSE LET a == CHOOSE a \in advisory : TRUE
             lateral == IF a.lateral = 0 THEN DefaultLateral ELSE a.lateral
             detour == LocalToMap(pose, Max({a.forward, MinForward}), lateral)
             beyond == {i \in DOMAIN route : LocalX(pose, route[i]) >= MergeForward}
             merge == route[IF beyond = {} THEN Len(route) ELSE Min(beyond)]
         IN  <<merge, detour>> \o route

(* path_with_dynamic_detour: a bypass point beside the obstacle, then the  *)
(* first point of the route well ahead, then the route as it was.          *)
WithDetour(pose, route, advisory) ==
    IF route = << >> \/ ~Advises(advisory, "detour") THEN route
    ELSE LET a == CHOOSE a \in advisory : TRUE
             lateral == IF a.lateral = 0 THEN DefaultLateral ELSE a.lateral
             detour == LocalToMap(pose, Max({a.forward, MinForward}), lateral)
             beyond == {i \in DOMAIN route : LocalX(pose, route[i]) >= MergeForward}
             merge == route[IF beyond = {} THEN Len(route) ELSE Min(beyond)]
         IN  <<detour, merge>> \o route

(* Plausible bug: the brake of the advisory replaces the planner's own.     *)
SlowedOverrides(command, brake) ==
    [command EXCEPT !.velocity = Min({@, Max({0, SlowSpeed})}), !.brake = brake]

(* Plausible bug: the speed is capped, but the brake forgotten.            *)
SlowedCoasts(command, brake) ==
    [command EXCEPT !.velocity = Min({@, Max({0, SlowSpeed})})]

Slowed(command, brake) ==
    [steering |-> command.steering,
     velocity |-> Min({command.velocity, Max({0, SlowSpeed})}),
     brake    |-> Max({command.brake, brake})]

(* apply_dynamic_obstacle_advisory: only ever slower, never less brake.    *)
ApplyAdvisory(command, advisory) ==
    IF Advises(advisory, "stop")
    THEN [steering |-> command.steering, velocity |-> 0, brake |-> 10]
    ELSE IF Advises(advisory, "detour") THEN Slowed(command, 1)
    ELSE IF Advises(advisory, "slow") THEN Slowed(command, 2)
    ELSE command

(* local_plan_to_ackermann: the brake is folded into the speed and also    *)
(* sent as a deceleration.                                                 *)
ToAckermann(command) ==
    LET brake == Max({0, Min({10, command.brake})}) IN
    [steering     |-> command.steering,
     speed        |-> Max({0, command.velocity}) * (10 - brake),
     acceleration |-> -brake]

(* Plausible bug: the goal counts only when it is hit exactly.              *)
NearGoalExactly(pose, route) == SqDist(pose, route[Len(route)]) = 0

(* _near_goal: the last point of the route is closer than the tolerance.   *)
NearGoal(pose, route) == SqDist(pose, route[Len(route)]) < GoalTolerance

(* What LocalPlannerNode._on_odom publishes for the pose.                  *)
DriveCommand(pose, route, estop, advisory) ==
    ToAckermann(ApplyAdvisory(
        Command(pose, WithDetour(pose, route, advisory), estop \/ NearGoal(pose, route)),
        advisory))
=============================================================================
