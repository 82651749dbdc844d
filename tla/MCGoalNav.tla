----------------------------- MODULE MCGoalNav -----------------------------
(***************************************************************************)
(* Instances of the planners for TLC, checked side by side: the variable   *)
(* part says which of them a behaviour is about.  "local" is the local     *)
(* planner under every message it can get, "nav" the way from a goal to    *)
(* its path, "grid" the grid planner of astar.py on all small grids.       *)
(***************************************************************************)
EXTENDS GoalNav

VARIABLES
    part,               \* "local", "nav" or "grid"
    grid,               \* the grid of a GridPlanner
    grid_plan           \* what its plan() returned, with the question

gridVars == <<grid, grid_plan>>

At(px, py) == [x |-> px, y |-> py]
Pose(px, py, direction) == [x |-> px, y |-> py, yaw |-> direction]

(* Straight east, and the same with a turn to the north at its end.        *)
MCStraight == <<At(2, 0), At(6, 0), At(12, 0)>>
MCTurn == <<At(2, 0), At(6, 0), At(6, 6)>>

(* Two paths that are taken and two that are too short.                    *)
MCGlobalPaths == {MCStraight, MCTurn, <<At(9, 9)>>, << >>}

(* At the start, half way beside the path, at either goal, turned around.  *)
MCOdomPoses == {Pose(0, 0, "east"), Pose(5, 1, "east"), Pose(6, 2, "north"),
                Pose(12, 0, "east"), Pose(6, 6, "north"), Pose(9, 0, "west")}

Advice(act, lat, fwd) == [json |-> TRUE, action |-> act, lateral |-> lat, forward |-> fwd]

(* Every action, both sides, a bypass point too near to be pursued, a      *)
(* detour without numbers, a null number, an unknown action, no JSON.      *)
MCPayloads ==
    {Advice(act, {0}, {4}) : act \in {"clear", "slow", "stop", "detour", "reverse"}}
    \cup {Advice("detour", {2}, {4}), Advice("detour", {-2}, {8}),
          Advice("detour", {2}, {0}), Advice("stop", {}, {}),
          [Advice("stop", {0}, {4}) EXCEPT !.json = FALSE]}

-----------------------------------------------------------------------------
(* Maps.                                                                   *)

MCLexical == <<"approach", "blocked", "detour_a", "detour_b", "detour_c", "goal", "start">>

(* A snapshot of the semantic map: the route is driven one way only, mild  *)
(* risks lie in the middle of edges, one edge is blocked beside a free     *)
(* parallel one that costs more, and two lead across the grid, one of them *)
(* over a mild risk.                                                       *)
SnapshotMap ==
    [ids |-> MCLexical, at |-> DemoAt,
     edges |-> DemoChain \cup {[Edge("detour_b", "goal", 65) EXCEPT !.blocked = TRUE],
                               Edge("approach", "goal", 130), Edge("goal", "blocked", 60),
                               Edge("approach", "detour_b", 64), Edge("detour_b", "goal", 64)},
     risk |-> (<<9, 0>> :> 50) @@ (<<2, 0>> :> 20) @@ (<<15, 2>> :> 30) @@ (<<9, 1>> :> 40)]

(* Where the only way to the goal is blocked. *)
BarredMap ==
    [ids |-> MCLexical, at |-> DemoAt,
     edges |-> {IF e.to = "goal" THEN [e EXCEPT !.blocked = TRUE] ELSE e :
                  e \in BuildBidirectionalEdges(DemoChain)},
     risk |-> << >>]

(* A route file of three waypoints, the last leg across the grid. *)
RouteMap ==
    RouteFileGraph(<<At(0, 0), At(6, 0), At(9, 6)>>, <<"approach", "blocked", "goal">>)

(* The graph of test_planning.py: two slanting edges around debris. *)
AroundAt == [u \in {"start", "blocked", "goal", "detour_a", "detour_b"} |->
               CASE u = "start" -> At(0, 0) [] u = "blocked" -> At(2, 0)
                 [] u = "goal" -> At(4, 0) [] u = "detour_a" -> At(2, 2)
                 [] u = "detour_b" -> At(4, 2)]
AroundMap ==
    [ids |-> <<"start", "blocked", "goal", "detour_a", "detour_b">>, at |-> AroundAt,
     edges |-> BuildBidirectionalEdges(
                 {Edge("start", "blocked", 20), Edge("blocked", "goal", 20),
                  Edge("start", "detour_a", 30), Edge("detour_a", "detour_b", 20),
                  Edge("detour_b", "goal", 30)}),
     risk |-> (<<2, 0>> :> 97)]

MCMaps == [demo |-> DemoMap, snapshot |-> SnapshotMap, barred |-> BarredMap,
           route |-> RouteMap, around |-> AroundMap]

(* These maps price their edges by length and hide no risk from the nine   *)
(* samples.                                                                *)
ASSUME HonestMaps ==
    \A m \in DOMAIN Maps : PricedByLength(Maps[m]) /\ SampledWell(Maps[m])

Goal(px, py, frm) == [x |-> px, y |-> py, nan |-> FALSE, frame |-> frm,
                      json |-> TRUE, numeric |-> TRUE]

MCStartGoals == {Goal(18, 0, "map")}

(* Goals in all directions, NaN, another frame, text that is no goal.      *)
MCRequests == {Goal(0, 0, "map"), Goal(12, 3, "map"), Goal(12, 1, "odom"),
               [Goal(0, 0, "map") EXCEPT !.nan = TRUE],
               [Goal(12, 3, "map") EXCEPT !.numeric = FALSE]}

MCRvizGoals == {Goal(7, 0, ""), Goal(0, 0, "base_link")}

-----------------------------------------------------------------------------
(* Grids of three by three with every set of blocked cells but the start,  *)
(* and up to two costly cells.                                             *)
GridCells == (0 .. 2) \X (0 .. 2)
MCBlocked == SUBSET {<<0, 1>>, <<1, 0>>, <<1, 1>>, <<2, 1>>}
MCCostly == {{}, {<<1, 1>>}, {<<0, 1>>, <<1, 2>>}, {<<1, 0>>, <<0, 2>>}}
GridWith(b, k) == [width |-> 3, height |-> 3, blocked |-> b, costs |-> [c \in k |-> 25]]
MCGrids == {GridWith(b, k) : b \in MCBlocked, k \in MCCostly}

PlanOnGrid ==
    \E start \in {<<0, 0>>, <<1, 0>>}, goal \in GridCells \cup {<<3, 0>>} :
       grid_plan' = {[start |-> start, goal |-> goal, plans |-> PlanGrid(grid, start, goal)]}

(* A plan of the grid planner is a path of neighbouring usable cells and   *)
(* no other one is cheaper; it refuses exactly what has no path, and cells *)
(* that are blocked or outside.                                            *)
GridPlanIsCheapest ==
    \A q \in grid_plan :
       /\ \A r \in q.plans : Range(r.nodes) \cap grid.blocked = {}
       /\ IF Usable(grid, q.start) /\ Usable(grid, q.goal)
          THEN Optimal(GridProblem(grid, q.start, q.goal), q.plans)
          ELSE q.plans = {}

-----------------------------------------------------------------------------
NoGrid == [width |-> 0, height |-> 0, blocked |-> {}, costs |-> << >>]

MCInit ==
    /\ part \in {"local", "nav", "grid"}
    /\ Init /\ (part # "local" => odom = Pose(0, 0, "east"))
    /\ NavInit /\ (part # "nav" => map = "demo")
    /\ grid_plan = {}
    /\ IF part = "grid" THEN grid \in MCGrids ELSE grid = NoGrid

MCNav == part = "nav" /\ NavNext /\ UNCHANGED <<part, gridVars>>

MCNext ==
    \/ part = "local" /\ Next /\ UNCHANGED <<part, gridVars, navVars>>
    \/ MCNav
    \/ part = "grid" /\ PlanOnGrid /\ UNCHANGED <<part, grid, navVars, plannerVars>>

mcVars == <<part, gridVars, navVars, plannerVars>>

(* Both searches are exact, the one on the route graph and the one on the  *)
(* grid: what they return is optimal, and they refuse only what has no     *)
(* solution.                                                               *)
SearchIsCheapest == [][GridPlanIsCheapest' /\ PlanIsCheapest]_mcVars

(* GoalIsFollowed where the planners run together.                         *)
NavGoalIsFollowed == part = "nav" => GoalIsFollowed

InNav(A) == part = "nav" /\ A /\ UNCHANGED <<part, gridVars>>

MCSpec ==
    /\ MCInit /\ [][MCNext]_mcVars
    /\ WF_mcVars(InNav(OnGoalPose /\ UNCHANGED plannerVars))
    /\ WF_mcVars(InNav(\E p \in OdomPoses : OnNavOdom(p) /\ UNCHANGED plannerVars))
    /\ WF_mcVars(InNav(PublishPlan /\ UNCHANGED plannerVars))
    /\ WF_mcVars(InNav(TakePath))
=============================================================================
