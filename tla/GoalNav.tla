------------------------------ MODULE GoalNav ------------------------------
(***************************************************************************)
(* From the operator's goal to the path the local planner follows:         *)
(* operator_api_node.py, global_planner_node.py and _on_global_path of the *)
(* local planner (module LocalPlanner).  The global planner plans anew     *)
(* every half second from the node nearest to the last odometry.           *)
(*                                                                         *)
(* The other callbacks of the local planner read the path and do not       *)
(* change it; the module LocalPlanner has them.                            *)
(***************************************************************************)
EXTENDS LocalPlanner, RouteGraph, RosTopics

CONSTANTS
    Maps,               \* the maps the planner may be started with, by name
    StartGoals,         \* (goal_x_m, goal_y_m), the goal before the first request
    Requests,           \* what arrives on /aris/operator/goal_request
    RvizGoals,          \* what other tools publish on /goal_pose
    MaxGoals            \* bound on the requests and goals of a run

(* A route graph: edges join nodes, which add_route_edge insists on, and   *)
(* cost something; a traversability is between zero and one (_clamp01).    *)
IsMap(hd) ==
    /\ hd.ids \in Seq(Range(Lexical)) /\ hd.ids # << >>
    /\ hd.at \in [Range(hd.ids) -> Points]
    /\ IsFiniteSet(hd.edges)
    /\ \A e \in hd.edges : /\ e.from \in Range(hd.ids) /\ e.to \in Range(hd.ids)
                           /\ e.cost \in Nat \ {0}
    /\ \A c \in DOMAIN hd.risk : hd.risk[c] \in 0 .. 100

ASSUME NavAssumption ==
    /\ \A m \in DOMAIN Maps : IsMap(Maps[m])
    /\ Lexical \in Seq(Range(Lexical))
    /\ SemanticWeight \in Nat /\ Spacing \in Nat \ {0}

VARIABLES
    map,                \* the name of self.hd_map, loaded once
    goal_node,          \* self.goal_node
    pose,               \* self.pose: None is the empty set
    goal_pose,          \* the messages on /goal_pose not yet taken
    global_path,        \* the messages on /global_path not yet taken
    plan,               \* the last plan, a set of at most one
    wanted,             \* the last goal in the map frame anyone published
    asked               \* the number of requests and goals so far

navVars == <<map, goal_node, pose, goal_pose, global_path, plan, wanted, asked>>

HdMap == Maps[map]

(* A plan with the points that are published for it. *)
WithPoints(hd, q) ==
    [nodes |-> q.nodes, cost |-> q.cost,
     dense |-> DensifyPath([i \in DOMAIN q.nodes |-> hd.at[q.nodes[i]]])]

(* plan_route_graph on every map from the node nearest to every pose to    *)
(* every goal, computed once.                                              *)
PlanTable ==
    UNION {{<<m, p, v, {WithPoints(Maps[m], q) :
                          q \in PlanRouteGraph(Maps[m], Nearest(Maps[m], p), v)}>> :
              p \in OdomPoses, v \in Range(Maps[m].ids)} : m \in DOMAIN Maps}

PlansTo(goal) ==
    UNION {t[4] : t \in {r \in PlanTable : r[1] = map /\ r[2] \in pose /\ r[3] = goal}}

(* __init__: the goal of the parameters, but with a route file its end.    *)
NavInit ==
    /\ map \in DOMAIN Maps
    /\ \E g \in StartGoals :
           goal_node = IF map = "route" THEN HdMap.ids[Len(HdMap.ids)] ELSE NearestToGoal(HdMap, g)
    /\ pose = {} /\ goal_pose = << >> /\ global_path = << >>
    /\ plan = {} /\ wanted = goal_node /\ asked = 0

(* parse_goal_request and goal_from_mapping: only an object with numeric x *)
(* and y in the map frame, which is also the default, is a goal.           *)
Accepted(r) == r.json /\ r.numeric /\ r.frame = "map"

(* Anything published on /goal_pose; its queue of ten holds MaxGoals.      *)
PublishGoal(g) ==
    /\ goal_pose' = Append(goal_pose, g)
    /\ wanted' = IF g.frame \in {"map", ""} THEN NearestToGoal(HdMap, g) ELSE wanted

(* OperatorApiNode._on_goal; the event it publishes is left out.           *)
OnGoalRequest(r) ==
    /\ asked < MaxGoals
    /\ asked' = asked + 1
    /\ IF Accepted(r) THEN PublishGoal(r) ELSE UNCHANGED <<goal_pose, wanted>>
    /\ UNCHANGED <<map, goal_node, pose, global_path, plan>>

(* RViz publishes /goal_pose by itself, in whatever frame it displays.     *)
RvizGoal(g) ==
    /\ asked < MaxGoals
    /\ asked' = asked + 1
    /\ PublishGoal(g)
    /\ UNCHANGED <<map, goal_node, pose, global_path, plan>>

(* Plausible bug: the frame of the goal is not looked at.                  *)
OnGoalPoseAnyFrame ==
    /\ goal_pose # << >>
    /\ goal_pose' = Tail(goal_pose)
    /\ goal_node' = NearestToGoal(HdMap, goal_pose[1])
    /\ UNCHANGED <<map, pose, global_path, plan, wanted, asked>>

(* _on_goal_pose. *)
OnGoalPose ==
    /\ goal_pose # << >>
    /\ goal_pose' = Tail(goal_pose)
    /\ goal_node' = IF goal_pose[1].frame \in {"map", ""}
                    THEN NearestToGoal(HdMap, goal_pose[1]) ELSE goal_node
    /\ UNCHANGED <<map, pose, global_path, plan, wanted, asked>>

(* _on_odom. *)
OnNavOdom(p) ==
    /\ pose' = {p}
    /\ UNCHANGED <<map, goal_node, goal_pose, global_path, plan, wanted, asked>>

(* _publish_plan: without odometry or without a way nothing is published,  *)
(* and the local planner keeps the path it has.                            *)
PublishPlan ==
    /\ \E q \in PlansTo(goal_node) :
           /\ plan' = {q}
           /\ global_path' = KeepLast(global_path, q.dense)
    /\ UNCHANGED <<map, goal_node, pose, goal_pose, wanted, asked>>

(* The local planner takes a path. *)
TakePath ==
    /\ global_path # << >>
    /\ OnGlobalPath(global_path[1])
    /\ global_path' = Tail(global_path)
    /\ UNCHANGED <<map, goal_node, pose, goal_pose, plan, wanted, asked>>

NavNext ==
    \/ \E r \in Requests : OnGoalRequest(r) /\ UNCHANGED plannerVars
    \/ \E g \in RvizGoals : RvizGoal(g) /\ UNCHANGED plannerVars
    \/ OnGoalPose /\ UNCHANGED plannerVars
    \/ \E p \in OdomPoses : OnNavOdom(p) /\ UNCHANGED plannerVars
    \/ PublishPlan /\ UNCHANGED plannerVars
    \/ TakePath

(* Reliable topics deliver, odometry keeps coming and the timer keeps      *)
(* firing; nobody is obliged to ask for anything.                          *)
NavFairness ==
    /\ WF_<<navVars, plannerVars>>(OnGoalPose /\ UNCHANGED plannerVars)
    /\ WF_<<navVars, plannerVars>>(\E p \in OdomPoses : OnNavOdom(p) /\ UNCHANGED plannerVars)
    /\ WF_<<navVars, plannerVars>>(PublishPlan /\ UNCHANGED plannerVars)
    /\ WF_<<navVars, plannerVars>>(TakePath)
-----------------------------------------------------------------------------
(* Properties.                                                             *)

(* The cells an edge leads through: it enters a cell at a multiple of      *)
(* 1/dx or 1/dy of its way, so twice as many samples as their product has  *)
(* miss none.                                                              *)
Widest(d) == Max({1, Size(d)})
CellsUnder(a, b) ==
    Sampled(a, b) \cup SampleSegment(a, b, 2 * Widest(b.x - a.x) * Widest(b.y - a.y))

(* The worst of them.                                                      *)
WorstCell(hd, a, b) ==
    Max({0} \cup {hd.risk[c] : c \in DOMAIN hd.risk \cap CellsUnder(a, b)})

(* What the least cost depends on, and no code checks when a map is loaded *)
(* (cost=float(item["cost"])): an edge costs its length or more, and none  *)
(* of its cells is riskier than all of its nine samples.                   *)
PricedByLength(hd) ==
    \A e \in hd.edges : e.blocked \/ Span(hd.at[e.from], hd.at[e.to]) <= e.cost * e.cost

SampledWell(hd) ==
    \A e \in hd.edges : e.blocked \/
        \A c \in DOMAIN hd.risk \cap CellsUnder(hd.at[e.from], hd.at[e.to]) :
           \E d \in DOMAIN hd.risk \cap Sampled(hd.at[e.from], hd.at[e.to]) :
              hd.risk[c] <= hd.risk[d]

TrueSteps(hd) ==
    {<<e.from, e.to,
       e.cost + (SemanticWeight * WorstCell(hd, hd.at[e.from], hd.at[e.to])) \div 100>> :
       e \in {f \in hd.edges : ~f.blocked}}

(* A published plan is a walk of the graph from start to goal over edges   *)
(* that are not blocked, and no other such walk is cheaper, the worst cell *)
(* under each edge included: the search stops when it first pops the goal, *)
(* keeps stale entries in its heap, and looks at nine points of an edge.   *)
PlanIsCheapest ==
    plan' # plan => \A q \in plan' :
        Optimal([nodes |-> Range(HdMap.ids), steps |-> TrueSteps(HdMap),
                 start |-> q.nodes[1], goal |-> q.nodes[Len(q.nodes)]], {q})

EndOf(p) == [x |-> p[Len(p)].x, y |-> p[Len(p)].y]

(* No further than the spacing along either axis: the points of a path are *)
(* rounded to the grid here, one by one.                                   *)
Near(a, b) == Size(b.x - a.x) <= Spacing /\ Size(b.y - a.y) <= Spacing

(* The path the local planner follows has no gaps: from one point to the   *)
(* next it is no further than the spacing, and it begins and ends at nodes *)
(* of the map.                                                             *)
PathHasNoGaps ==
    plan # {} /\ path # InitialPath =>
        /\ \A i \in 1 .. Len(path) - 1 : Near(path[i], path[i + 1])
        /\ \E u \in Range(HdMap.ids) : HdMap.at[u] = path[1]
        /\ \E u \in Range(HdMap.ids) : HdMap.at[u] = EndOf(path)

(* No path leads along an edge that is marked as blocked, not even if      *)
(* there is no other way to the goal.                                      *)
NeverThroughBlocked ==
    \A e \in {f \in HdMap.edges : f.blocked} :
       \A q \in plan : \A i \in 1 .. Len(q.nodes) - 1 :
          <<q.nodes[i], q.nodes[i + 1]>> # <<e.from, e.to>>
          \/ \E f \in HdMap.edges : f.from = e.from /\ f.to = e.to /\ ~f.blocked

(* What the local planner follows is a path it can follow to its end.      *)
PathIsSound == TypeOK /\ PathHasNoGaps /\ NeverThroughBlocked

(* The goal somebody gave last is followed: the path of the local planner  *)
(* leads to the node nearest to it, again and again, unless the vehicle is *)
(* already nearest to that node (the path would be one point, which the    *)
(* local planner ignores) or no way leads there.  Goals stop coming after  *)
(* MaxGoals.                                                               *)
GoalIsFollowed ==
    []<>(\/ EndOf(path) = HdMap.at[wanted]
         \/ pose # {} /\ \A q \in PlansTo(wanted) : Len(q.nodes) = 1)
=============================================================================
