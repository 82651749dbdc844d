----------------------------- MODULE BestFirst -----------------------------
(***************************************************************************)
(* The best-first search that route_graph.py and astar.py both contain.    *)
(*                                                                         *)
(* A problem is a record: steps, the set of the <<u, v, c>> such that one   *)
(* step leads from u to v at cost c; guess[u], the estimate added to the   *)
(* cost (the straight distance to the goal); rank[u], the order in which   *)
(* heapq takes entries of equal priority (the second part of the tuple);   *)
(* and the nodes, the start and the goal.                                  *)
(***************************************************************************)
EXTENDS Integers, Sequences, FiniteSets, FiniteSetsExt, Functions, TLC

Before(p, a, b) ==
    a[1] < b[1] \/ (a[1] = b[1] /\ p.rank[a[2]] <= p.rank[b[2]])

(* heapq.heappop. *)
Popped(p, frontier) == CHOOSE a \in frontier : \A b \in frontier : Before(p, a, b)

(* Plausible bug: a node is never looked at again once it has a cost.      *)
CheaperOnce(p, cost, u) ==
    {e \in p.steps : e[1] = u /\ e[2] \notin DOMAIN cost}

(* The steps from u that reach a node first, or at less than before.       *)
Cheaper(p, cost, u) ==
    {e \in p.steps : /\ e[1] = u
                     /\ e[2] \notin DOMAIN cost \/ cost[u] + e[3] < cost[e[2]]}

(* One node u is expanded: its neighbours get their cost and predecessor   *)
(* and go into the frontier, in addition to what is there for them already.*)
Relaxed(p, s, u) ==
    LET better == Cheaper(p, s.cost, u)
        found  == {e[2] : e \in better}
        via    == [v \in found |-> s.cost[u] + Min({e[3] : e \in {f \in better : f[2] = v}})]
    IN  [cost     |-> [v \in DOMAIN s.cost \cup found |->
                          IF v \in found THEN via[v] ELSE s.cost[v]],
         came     |-> [v \in DOMAIN s.came \cup found |->
                          IF v \in found THEN u ELSE s.came[v]],
         frontier |-> s.frontier \cup {<<via[v] + p.guess[v], v>> : v \in found},
         found    |-> FALSE]

(* The search ends when the goal is popped or nothing is left.             *)
Finished(s) == s.frontier = {} \/ s.found

(* One turn of the while loop.                                             *)
Turn(p, s) ==
    IF Finished(s) THEN s
    ELSE LET least == Popped(p, s.frontier)
             rest  == [s EXCEPT !.frontier = @ \ {least}]
         IN  IF least[2] = p.goal THEN [rest EXCEPT !.found = TRUE]
             ELSE Relaxed(p, rest, least[2])

(* Bound on the turns: one for the start and one for every step, since the *)
(* straight distance never sends the search to a node twice.               *)
MaxTurns(p) == 1 + Cardinality(p.steps)

Started(p) == [cost |-> [v \in {p.start} |-> 0], came |-> [v \in {p.start} |-> p.start],
               frontier |-> {<<0, p.start>>}, found |-> FALSE]

(* The states of the search after so many turns, each a set of one.        *)
Turns(p) ==
    LET loop[k \in 0 .. MaxTurns(p)] ==
            IF k = 0 THEN {Started(p)} ELSE {Turn(p, s) : s \in loop[k - 1]}
    IN  loop

Search(p) == Turns(p)[MaxTurns(p)]

(* The predecessors of every node that was reached, back to the start.     *)
Back(p, came) ==
    LET back[u \in DOMAIN came] ==
            IF u = p.start THEN <<u>> ELSE Append(back[came[u]], u)
    IN  back

(* The plan, or none where the code raises ValueError.                     *)
BestFirst(p) ==
    {[nodes |-> Back(p, s.came)[p.goal], cost |-> s.cost[p.goal]] :
        s \in {t \in Search(p) : p.goal \in DOMAIN t.came}}
-----------------------------------------------------------------------------
(* Reference: the least costs of the nodes that can be reached, by rounds  *)
(* of relaxation over all steps (Bellman and Ford), as a set of pairs.     *)
Further(p, known) ==
    known \cup UNION {{<<e[2], a[2] + e[3]>> : e \in {f \in p.steps : f[1] = a[1]}} : a \in known}

Least(all) == {a \in all : \A b \in all : a[1] = b[1] => a[2] <= b[2]}

Rounds(p) ==
    LET round[k \in 0 .. Cardinality(p.nodes)] ==
            IF k = 0 THEN {{<<p.start, 0>>}}
            ELSE {Least(all) : all \in {Further(p, known) : known \in round[k - 1]}}
    IN  round

LeastCosts(p) == UNION Rounds(p)[Cardinality(p.nodes)]

Reachable(p) == {a[1] : a \in LeastCosts(p)}

(* The cost of one step, and of walking the nodes one after the other.     *)
StepCost(p, u, v) == Min({e[3] : e \in {f \in p.steps : f[1] = u /\ f[2] = v}})
WalkCosts(p, nodes) ==
    LET cost[i \in 0 .. Len(nodes) - 1] ==
            IF i = 0 THEN 0 ELSE cost[i - 1] + StepCost(p, nodes[i], nodes[i + 1])
    IN  cost
WalkCost(p, nodes) == WalkCosts(p, nodes)[Len(nodes) - 1]

(* What the plans of problem p have to be: none exactly if the goal cannot *)
(* be reached, and else a walk from start to goal of the least cost.       *)
Optimal(p, plans) ==
    /\ plans = {} => p.goal \notin Reachable(p)
    /\ \A q \in plans :
          /\ q.nodes[1] = p.start /\ q.nodes[Len(q.nodes)] = p.goal
          /\ \A i \in 1 .. Len(q.nodes) - 1 :
                \E e \in p.steps : e[1] = q.nodes[i] /\ e[2] = q.nodes[i + 1]
          /\ <<p.goal, q.cost>> \in LeastCosts(p)
          /\ WalkCost(p, q.nodes) = q.cost
=============================================================================
