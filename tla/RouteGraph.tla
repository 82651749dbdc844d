----------------------------- MODULE RouteGraph -----------------------------
(***************************************************************************)
(* route_graph.py and the graphs of global_planner_node.py, and the grid   *)
(* planner of astar.py, as problems for BestFirst.                         *)
(*                                                                         *)
(* Points lie on the grid of half metres, costs are in twentieths of a     *)
(* metre: one grid step is 10.  The root of a guess is rounded down and    *)
(* that of a length up: what costs its length or more still does.          *)
(*                                                                         *)
(* A map is a record: ids, the nodes in the order of the dictionary; at,   *)
(* their points; edges, a set of [from, to, cost, blocked]; and risk, the  *)
(* traversability of the cells that have a state, in hundredths.           *)
(***************************************************************************)
EXTENDS BestFirst

CONSTANTS
    Lexical,            \* the node ids in the order of strings, a sequence
    SemanticWeight,     \* semantic_weight, in twentieths per unit of risk
    Spacing             \* path_spacing_m, in grid steps

Samples == 8            \* samples of semantic_edge_cost

Size(n) == IF n < 0 THEN -n ELSE n

Span(a, b) ==
    LET dx == b.x - a.x
        dy == b.y - a.y
    IN  100 * (dx * dx + dy * dy)

(* math.hypot, rounded down... *)
Distance(a, b) ==
    CHOOSE k \in 0 .. 10 * (Size(b.x - a.x) + Size(b.y - a.y)) :
        k * k <= Span(a, b) /\ Span(a, b) < (k + 1) * (k + 1)

(* ...and rounded up. *)
LengthOf(a, b) ==
    IF Distance(a, b) * Distance(a, b) = Span(a, b) THEN Distance(a, b) ELSE Distance(a, b) + 1

(* nearest_route_node: the first of the nearest nodes. *)
Nearest(hd, p) ==
    LET far(i) == Span(hd.at[hd.ids[i]], p)
    IN  hd.ids[Min({i \in DOMAIN hd.ids : \A j \in DOMAIN hd.ids : far(i) <= far(j)})]

(* The same for the point of a goal.  NaN, which json.loads accepts, is not*)
(* less than anything, and min keeps the first node.                       *)
NearestToGoal(hd, g) == IF g.nan THEN hd.ids[1] ELSE Nearest(hd, g)

(* _sample_segment and cell_for_point: cells are one grid step wide.       *)
SampleSegment(a, b, count) ==
    {<<(count * a.x + (b.x - a.x) * i) \div count,
       (count * a.y + (b.y - a.y) * i) \div count>> : i \in 0 .. count}

Sampled(a, b) == SampleSegment(a, b, Samples)

(* Plausible bug: the semantics of the two ends only.                      *)
PenaltyAtEnds(hd, a, b) ==
    Max({0} \cup {(SemanticWeight * hd.risk[c]) \div 100 :
                  c \in {<<a.x, a.y>>, <<b.x, b.y>>} \cap DOMAIN hd.risk})

(* The worst cell on the way. *)
Penalty(hd, a, b) ==
    Max({0} \cup {(SemanticWeight * hd.risk[c]) \div 100 :
                  c \in Sampled(a, b) \cap DOMAIN hd.risk})

SemanticEdgeCost(hd, e) == e.cost + Penalty(hd, hd.at[e.from], hd.at[e.to])

Infinity == 100000

(* Plausible bug: a blocked edge is only given an endless cost.            *)
TraversableAll(hd, u) ==
    {[e EXCEPT !.cost = IF e.blocked THEN Infinity ELSE @] :
        e \in {f \in hd.edges : f.from = u}}

(* traversable_edges. *)
TraversableEdges(hd, u) == {e \in hd.edges : e.from = u /\ ~e.blocked}

LexicalRank(id) == CHOOSE i \in DOMAIN Lexical : Lexical[i] = id

RouteProblem(hd, start, goal) ==
    LET nodes == Range(hd.ids)
    IN  [nodes |-> nodes,
         steps |-> {<<e.from, e.to, SemanticEdgeCost(hd, e)>> :
                      e \in UNION {TraversableEdges(hd, u) : u \in nodes}},
         guess |-> [u \in nodes |-> Distance(hd.at[u], hd.at[goal])],
         rank  |-> [u \in nodes |-> LexicalRank(u)],
         start |-> start, goal |-> goal]

(* plan_route_graph. *)
PlanRouteGraph(hd, start, goal) == BestFirst(RouteProblem(hd, start, goal))

(* build_bidirectional_edges. *)
Reversed(e) == [e EXCEPT !.from = e.to, !.to = e.from]
BuildBidirectionalEdges(edges) == edges \cup {Reversed(e) : e \in edges}

Edge(from, to, cost) == [from |-> from, to |-> to, cost |-> cost, blocked |-> FALSE]

(* Plausible bug: a part of the spacing is left over.                      *)
FloorDiv(a, b) == a \div b

(* math.ceil. *)
CeilDiv(a, b) == (a + b - 1) \div b

(* One segment of densify_path: steps of at most the spacing, the last one *)
(* on the end of the segment.                                              *)
Segment(a, b) ==
    LET n == Max({1, CeilDiv(LengthOf(a, b), 10 * Spacing)})
    IN  [i \in 1 .. n |-> [x |-> a.x + ((b.x - a.x) * i) \div n,
                           y |-> a.y + ((b.y - a.y) * i) \div n]]

(* densify_path. *)
DensifyPath(points) ==
    LET dense[i \in 0 .. Len(points)] ==
            CASE i = 0 -> << >>
              [] i = 1 -> <<points[1]>>
              [] OTHER -> dense[i - 1] \o Segment(points[i - 1], points[i])
    IN  dense[Len(points)]

(* _route_file_graph: a chain of waypoints that can be driven both ways.   *)
RouteFileGraph(route, ids) ==
    [ids |-> ids,
     at |-> [u \in Range(ids) |-> route[CHOOSE i \in DOMAIN ids : ids[i] = u]],
     edges |-> BuildBidirectionalEdges(
                 {Edge(ids[i], ids[i + 1], Max({1, LengthOf(route[i], route[i + 1])})) :
                    i \in 1 .. Len(ids) - 1}),
     risk |-> << >>]
(* _demo_semantic_route_graph: a straight road with debris on it and a way *)
(* around, 1.2 m aside in the code and one metre here.                     *)
Pt(px, py) == [x |-> px, y |-> py]
DemoIds == <<"start", "approach", "blocked", "goal", "detour_a", "detour_b", "detour_c">>
DemoAt == [u \in Range(DemoIds) |->
             CASE u = "start" -> Pt(0, 0) [] u = "approach" -> Pt(6, 0)
               [] u = "blocked" -> Pt(12, 0) [] u = "goal" -> Pt(18, 0)
               [] u = "detour_a" -> Pt(6, 2) [] u = "detour_b" -> Pt(12, 2)
               [] u = "detour_c" -> Pt(18, 2)]
DemoChain == {Edge("start", "approach", 60), Edge("approach", "blocked", 60),
              Edge("blocked", "goal", 60), Edge("approach", "detour_a", 20),
              Edge("detour_a", "detour_b", 60), Edge("detour_b", "detour_c", 60),
              Edge("detour_c", "goal", 20)}

(* Debris seen with confidence 0.95 makes a traversability of 0.975.       *)
DemoMap == [ids |-> DemoIds, at |-> DemoAt,
            edges |-> BuildBidirectionalEdges(DemoChain), risk |-> (<<12, 0>> :> 97)]

-----------------------------------------------------------------------------
(* astar.py: nodes are the cells of a grid, the cost of a step is that of  *)
(* the cell it enters.                                                     *)
InBounds(g, c) == c[1] \in 0 .. g.width - 1 /\ c[2] \in 0 .. g.height - 1
Passable(g, c) == c \notin g.blocked
Usable(g, c) == InBounds(g, c) /\ Passable(g, c)

(* Plausible bug: a blocked cell is only kept out as a goal.               *)
NeighborsInBounds(g, c) ==
    {d \in {<<c[1] + 1, c[2]>>, <<c[1] - 1, c[2]>>, <<c[1], c[2] + 1>>, <<c[1], c[2] - 1>>} :
        InBounds(g, d)}

Neighbors(g, c) ==
    {d \in {<<c[1] + 1, c[2]>>, <<c[1] - 1, c[2]>>, <<c[1], c[2] + 1>>, <<c[1], c[2] - 1>>} :
        Usable(g, d)}

(* CellCost.total: a distance of one, and what makes the cell unattractive.*)
CellCost(g, c) == IF c \in DOMAIN g.costs THEN g.costs[c] ELSE 10

Cells(g) == (0 .. g.width - 1) \X (0 .. g.height - 1)
AsPoint(c) == [x |-> c[1], y |-> c[2]]

GridProblem(g, start, goal) ==
    [nodes |-> Cells(g),
     steps |-> UNION {{<<c, d, CellCost(g, d)>> : d \in Neighbors(g, c)} :
                        c \in Cells(g)},
     guess |-> [c \in Cells(g) |-> Distance(AsPoint(c), AsPoint(goal))],
     rank  |-> [c \in Cells(g) |-> c[1] * g.height + c[2]],
     start |-> start, goal |-> goal]

(* GridPlanner.plan. *)
PlanGrid(g, start, goal) ==
    IF ~Usable(g, start) \/ ~Usable(g, goal) THEN {}
    ELSE BestFirst(GridProblem(g, start, goal))
=============================================================================
