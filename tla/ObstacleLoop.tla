---------------------------- MODULE ObstacleLoop ----------------------------
(***************************************************************************)
(* The obstacle detector and the local planner, coupled by the topic       *)
(* /aris/perception/dynamic_obstacle.  Clouds come in any order with any   *)
(* stamp that has passed; odometry, paths and e-stops reach the planner as *)
(* in LocalPlanner; tools may publish advisories of their own.             *)
(***************************************************************************)
EXTENDS LocalPlanner, ObstacleDetector, RosTopics

CONSTANTS
    Clouds,             \* the sets of points a cloud may hold
    MaxClock,           \* bound: the clock stops here
    MaxTracks           \* bound: clouds stop when so many tracks were opened

ASSUME CloudAssumption ==
    \A points \in Clouds : /\ points \subseteq [x : Int, y : Int, seen : BOOLEAN]
                           /\ IsFiniteSet(points)

VARIABLES
    advisories,         \* the advisory topic on its way to the planner
    scene,              \* history: the corridor points of the last cloud, and
    scene_age           \* its age; {} when a tool has published since

loopVars == <<plannerVars, clock, detectorVars, advisories, scene, scene_age>>

(* DynamicObstacleDecision.as_dict and json.dumps: None becomes null, and  *)
(* the keys are there in every message.                                    *)
AsPayload(d) ==
    [json |-> TRUE, action |-> d.action, lateral |-> d.lateral, forward |-> d.forward]

LoopInit ==
    /\ Init
    /\ DetectorInit
    /\ advisories = [r \in {"planner"} |-> << >>]
    /\ scene = {}
    /\ scene_age = AdvisoryTimeout + 1

(* A cloud arrives, late by any number of ticks or without a stamp.        *)
CloudArrives ==
    /\ next_track_id <= MaxTracks
    /\ \E points \in Clouds, stamp \in 0 .. clock :
          /\ OnCloud([stamp |-> stamp, points |-> points])
          /\ scene' = Candidates(points)
    /\ scene_age' = 0
    /\ advisories' = Publish(advisories, AsPayload(CHOOSE d \in decision' : TRUE))
    /\ UNCHANGED <<plannerVars, clock>>

(* Another publisher of the topic: the smoke tests, a replay tool.         *)
ToolAdvises ==
    /\ \E p \in Payloads : advisories' = Publish(advisories, p)
    /\ scene' = {}
    /\ UNCHANGED <<plannerVars, clock, detectorVars, scene_age>>

PlannerAdvised ==
    /\ advisories["planner"] # << >>
    /\ OnDynamicObstacle(Head(advisories["planner"]))
    /\ advisories' = Take(advisories, "planner")
    /\ UNCHANGED <<clock, detectorVars, scene, scene_age>>

PlannerDrives ==
    /\ \/ \E value \in BOOLEAN : OnEstop(value)
       \/ \E poses \in GlobalPaths : OnGlobalPath(poses)
       \/ \E pose \in OdomPoses : OnOdom(pose)
    /\ UNCHANGED <<clock, detectorVars, advisories, scene, scene_age>>

LoopTick ==
    /\ TimePasses
    /\ clock' = IF clock < MaxClock THEN clock + 1 ELSE clock
    /\ scene_age' = IF scene_age > AdvisoryTimeout THEN scene_age ELSE scene_age + 1
    /\ UNCHANGED <<detectorVars, advisories, scene>>

LoopNext ==
    \/ CloudArrives \/ ToolAdvises \/ PlannerAdvised \/ PlannerDrives \/ LoopTick

LoopSpec == LoopInit /\ [][LoopNext]_loopVars
-----------------------------------------------------------------------------
(* The newest advisory is the detector's, it is not out of date, and the   *)
(* planner has taken it off the topic.                                     *)
Delivered == scene # {} /\ advisories["planner"] = << >> /\ scene_age <= AdvisoryTimeout

Decided(action) == \E d \in decision : d.action = action

(* Types of both nodes and of the topic between them.                      *)
LoopTypeOK == TypeOK /\ DetectorTypeOK /\ Len(advisories["planner"]) <= Depth

(* A detour the planner has taken steers it away from the side on which    *)
(* the obstacle was seen: the detector's y and the planner's steering have *)
(* the same sign, and no conversion on the way loses it.                   *)
SteersAway ==
    [][Published /\ Delivered /\ Decided("detour") /\ ~estop /\ ~NearGoal(odom', path)
       /\ obstacle_age <= AdvisoryTimeout
       => IF Ys(scene) >= 0 THEN cmd'.steering < 0 ELSE cmd'.steering > 0]_loopVars

(* A stop the detector has sent and the planner has taken brakes the       *)
(* vehicle: what is published until it is out of date is a full stop.      *)
StopObeyed ==
    [][Published /\ Delivered /\ Decided("stop")
       => cmd'.speed = 0 /\ cmd'.acceleration = -10]_loopVars
=============================================================================
