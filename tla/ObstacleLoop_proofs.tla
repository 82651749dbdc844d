------------------------ MODULE ObstacleLoop_proofs ------------------------
(***************************************************************************)
(* The detector and the planner together, for every cloud, stamp, route,   *)
(* pose and queue depth: the types of both, the identities of the tracker, *)
(* and the side to which a detour steers.                                  *)
(*                                                                         *)
(* The centre of an obstacle is a sum over a set of points, which the      *)
(* folds of the community modules define by recursion over the subsets of  *)
(* the set; that such a sum exists and is a number is shown by induction   *)
(* on the number of points (NatInd of Planning_proofs).                    *)
(***************************************************************************)
EXTENDS ObstacleLoop, Planning_proofs, FiniteSetTheorems, SequenceTheorems

-----------------------------------------------------------------------------
(* The sum of a field over a finite set of records, taken one member at a  *)
(* time as the folds of the community modules take it.                     *)

Pick(s) == CHOOSE p \in s : TRUE

SumStep(s, c, g) == IF s = {} THEN 0 ELSE Pick(s)[c] + g[s \ {Pick(s)}]

Sum(S, c) == CHOOSE g : g = [s \in SUBSET S |-> SumStep(s, c, g)]

LEMMA CoordinateSums ==
    ASSUME NEW S
    PROVE  Xs(S) = Sum(S, "x")[S] /\ Ys(S) = Sum(S, "y")[S]
<1>1. Xs(S) = Sum(S, "x")[S]
    BY DEF Xs, MapThenSumSet, MapThenFoldSet, Sum, SumStep, Pick
<1>2. Ys(S) = Sum(S, "y")[S]
    BY DEF Ys, MapThenSumSet, MapThenFoldSet, Sum, SumStep, Pick
<1> QED
    BY <1>1, <1>2

Summable(S, c) == IsFiniteSet(S) /\ \A p \in S : p[c] \in Int

IsSum(g, D, c) == \A s \in D : g[s] = SumStep(s, c, g)

UpTo(S, n) == {s \in SUBSET S : Cardinality(s) <= n}

HasSum(S, c, n) == \E g \in [UpTo(S, n) -> Int] : IsSum(g, UpTo(S, n), c)

LEMMA SmallerSubset ==
    ASSUME NEW S, IsFiniteSet(S), NEW n \in Nat, NEW s \in UpTo(S, n + 1), s # {}
    PROVE  Pick(s) \in S /\ s \ {Pick(s)} \in UpTo(S, n)
<1>1. Pick(s) \in s
    BY DEF Pick
<1>2. IsFiniteSet(s) /\ Cardinality(s) \in Nat /\ Cardinality(s) <= n + 1
    BY FS_Subset, FS_CardinalityType DEF UpTo
<1>3. Cardinality(s \ {Pick(s)}) = Cardinality(s) - 1
    BY <1>1, <1>2, FS_RemoveElement
<1> QED
    BY <1>1, <1>2, <1>3 DEF UpTo

LEMMA EmptySubset ==
    ASSUME NEW S, IsFiniteSet(S)
    PROVE  UpTo(S, 0) = {{}}
<1>1. ASSUME NEW s \in UpTo(S, 0) PROVE s = {}
  <2>1. IsFiniteSet(s) /\ Cardinality(s) \in Nat /\ Cardinality(s) <= 0
      BY FS_Subset, FS_CardinalityType DEF UpTo
  <2> QED
      BY <2>1, FS_EmptySet
<1>2. {} \in UpTo(S, 0)
    BY FS_EmptySet DEF UpTo
<1> QED
    BY <1>1, <1>2

(* There is such a sum, for the subsets of n members at most.              *)
LEMMA SumExists ==
    ASSUME NEW S, NEW c, Summable(S, c), NEW n \in Nat
    PROVE  HasSum(S, c, n)
<1> DEFINE T == {k \in Nat : HasSum(S, c, k)}
<1>1. HasSum(S, c, 0)
  <2> DEFINE g == [s \in UpTo(S, 0) |-> 0]
  <2>1. g \in [UpTo(S, 0) -> Int]
      OBVIOUS
  <2>2. IsSum(g, UpTo(S, 0), c)
      BY EmptySubset DEF SumStep, IsSum, Summable
  <2> QED
      BY <2>1, <2>2 DEF HasSum
<1>2. ASSUME NEW k \in Nat, HasSum(S, c, k) PROVE HasSum(S, c, k + 1)
  <2>1. PICK g \in [UpTo(S, k) -> Int] : IsSum(g, UpTo(S, k), c)
      BY <1>2 DEF HasSum
  <2> DEFINE h == [s \in UpTo(S, k + 1) |-> SumStep(s, c, g)]
  <2>2. ASSUME NEW s \in UpTo(S, k + 1) PROVE SumStep(s, c, g) \in Int
    <3>1. CASE s = {}
        BY <3>1 DEF SumStep
    <3>2. CASE s # {}
      <4>1. Pick(s)[c] \in Int /\ g[s \ {Pick(s)}] \in Int
          BY <3>2, SmallerSubset DEF Summable
      <4> QED
          BY <3>2, <4>1 DEF SumStep
    <3> QED
        BY <3>1, <3>2
  <2>3. h \in [UpTo(S, k + 1) -> Int]
      BY <2>2
  <2>4. UpTo(S, k) \subseteq UpTo(S, k + 1)
    <3> SUFFICES ASSUME NEW s \in UpTo(S, k) PROVE s \in UpTo(S, k + 1)
        OBVIOUS
    <3>1. Cardinality(s) \in Nat /\ Cardinality(s) <= k /\ s \in SUBSET S
        BY FS_Subset, FS_CardinalityType DEF UpTo, Summable
    <3> QED
        BY <3>1 DEF UpTo
  <2>5. \A s \in UpTo(S, k) : h[s] = g[s]
      BY <2>1, <2>4 DEF IsSum
  <2>6. ASSUME NEW s \in UpTo(S, k + 1) PROVE h[s] = SumStep(s, c, h)
    <3>1. CASE s = {}
        BY <3>1 DEF SumStep
    <3>2. CASE s # {}
      <4>1. h[s \ {Pick(s)}] = g[s \ {Pick(s)}]
          BY <2>5, <3>2, SmallerSubset DEF Summable
      <4> QED
          BY <3>2, <4>1 DEF SumStep
    <3> QED
        BY <3>1, <3>2
  <2>7. IsSum(h, UpTo(S, k + 1), c)
      BY <2>6 DEF IsSum
  <2> QED
      BY <2>3, <2>7 DEF HasSum
<1>3. T \subseteq Nat /\ 0 \in T /\ \A k \in T : k + 1 \in T
    BY <1>1, <1>2
<1> HIDE DEF T
<1>4. T = Nat
    BY <1>3, NatInd
<1> QED
    BY <1>4 DEF T

LEMMA SumIsInt ==
    ASSUME NEW S, NEW c, Summable(S, c)
    PROVE  Sum(S, c)[S] \in Int
<1> DEFINE G == Sum(S, c)
           T == {k \in Nat : \A s \in UpTo(S, k) : G[s] \in Int}
<1>1. PICK n \in Nat : UpTo(S, n) = SUBSET S
    BY FS_CardinalityType, FS_Subset DEF UpTo, Summable
<1>2. PICK g \in [SUBSET S -> Int] : IsSum(g, SUBSET S, c)
  <2>1. HasSum(S, c, n)
      BY SumExists
  <2> QED
      BY <1>1, <2>1 DEF HasSum
<1>3. g = [s \in SUBSET S |-> SumStep(s, c, g)]
    BY <1>2 DEF IsSum
<1>4. G = [s \in SUBSET S |-> SumStep(s, c, G)]
    BY <1>3 DEF Sum
<1> HIDE DEF G
<1>5. 0 \in T
    BY <1>4, EmptySubset DEF SumStep, Summable
<1>6. ASSUME NEW k \in T PROVE k + 1 \in T
  <2> SUFFICES ASSUME NEW s \in UpTo(S, k + 1) PROVE G[s] \in Int
      OBVIOUS
  <2>1. s \in SUBSET S
      BY DEF UpTo
  <2>2. G[s] = SumStep(s, c, G)
      BY <1>4, <2>1
  <2>3. CASE s = {}
      BY <2>2, <2>3 DEF SumStep
  <2>4. CASE s # {}
    <3>1. Pick(s)[c] \in Int /\ G[s \ {Pick(s)}] \in Int
        BY <2>4, SmallerSubset DEF Summable
    <3> QED
        BY <2>2, <2>4, <3>1 DEF SumStep
  <2> QED
      BY <2>3, <2>4
<1>7. T = Nat
    BY <1>5, <1>6, NatInd
<1>8. G[S] \in Int
    BY <1>1, <1>7
<1> QED
    BY <1>8 DEF G

-----------------------------------------------------------------------------
(* What the detector computes from a cloud.                                *)

IsPoints(points) ==
    points \subseteq [x : Int, y : Int, seen : BOOLEAN] /\ IsFiniteSet(points)

LEMMA CandidatesArePoints ==
    ASSUME NEW cloud \in Clouds
    PROVE  /\ IsPoints(Candidates(cloud))
           /\ \A p \in Candidates(cloud) : p.x \in Nat
<1>1. cloud \subseteq [x : Int, y : Int, seen : BOOLEAN] /\ IsFiniteSet(cloud)
    BY CloudAssumption
<1>2. IsFiniteSet(Candidates(cloud))
    BY <1>1, FS_Subset DEF Candidates
<1>3. MinX \in Nat
    BY DetectorAssumption
<1> QED
    BY <1>1, <1>2, <1>3 DEF Candidates, IsPoints

LEMMA EnoughPoints ==
    ASSUME NEW points, IsPoints(points), \A p \in points : p.x \in Nat,
           ~(Cardinality(points) < MinPoints)
    PROVE  points # {} /\ Cardinality(points) \in Nat \ {0} /\ Closest(points) \in Nat
<1>1. Cardinality(points) \in Nat \ {0}
    BY FS_CardinalityType, DetectorAssumption DEF IsPoints
<1>2. points # {}
    BY <1>1, FS_EmptySet
<1>3. {p.x : p \in points} \subseteq Nat /\ {p.x : p \in points} # {}
    BY <1>2
<1>4. Closest(points) \in {p.x : p \in points}
    BY <1>3, MinIsLeast DEF Closest
<1> QED
    BY <1>1, <1>2, <1>3, <1>4

LEMMA CentreIsPoint ==
    ASSUME NEW points, IsPoints(points), Cardinality(points) \in Nat \ {0}
    PROVE  Centre(points).x \in Int /\ Centre(points).y \in Int
<1>1. Summable(points, "x") /\ Summable(points, "y")
    BY DEF Summable, IsPoints
<1>2. Xs(points) \in Int /\ Ys(points) \in Int
    BY <1>1, SumIsInt, CoordinateSums
<1> QED
    BY <1>2 DEF Centre

(* The decisions there are: the two numbers are there for a detour only.   *)
Decisions ==
    {Plain(action) : action \in {"clear", "stop"}}
        \cup [action : {"detour"}, lateral : {{v} : v \in Int}, forward : {{v} : v \in Int}]

LEMMA DetourIsDecision ==
    ASSUME NEW points, IsPoints(points), Closest(points) \in Nat
    PROVE  /\ Detour(points) \in Decisions
           /\ \E v \in Int : /\ Detour(points).forward = {v}
                             /\ v >= DetourForward
           /\ DetourSide(points) \in {DetourLateral, -DetourLateral}
<1>1. SlowDistance \in Nat /\ DetourForward \in Nat /\ DetourLateral \in Nat
    BY DetectorAssumption
<1>2. Min({Closest(points), SlowDistance}) \in Int
    BY <1>1, MinPair
<1> DEFINE v == Max({DetourForward, Min({Closest(points), SlowDistance})})
<1>3. v \in Int /\ v >= DetourForward
    BY <1>1, <1>2, MaxPair
<1>4. DetourSide(points) \in {DetourLateral, -DetourLateral}
    BY DEF DetourSide
<1>5. DetourSide(points) \in Int
    BY <1>1, <1>4
<1>6. Detour(points) = [action |-> "detour", lateral |-> {DetourSide(points)}, forward |-> {v}]
    BY DEF Detour
<1> HIDE DEF v
<1> QED
    BY <1>3, <1>4, <1>5, <1>6 DEF Decisions

LEMMA EvaluateIsDecision ==
    ASSUME NEW points, IsPoints(points), \A p \in points : p.x \in Nat, NEW dt,
           NEW d, d = Evaluate(points, dt)
    PROVE  d \in Decisions /\ (d.action = "detour" => d = Detour(points) /\ Closest(points) \in Nat)
<1>1. CASE Cardinality(points) < MinPoints
    BY <1>1 DEF Evaluate, Decisions, Plain
<1>2. CASE ~(Cardinality(points) < MinPoints)
  <2>1. Closest(points) \in Nat
      BY <1>2, EnoughPoints
  <2>2. Detour(points) \in Decisions
      BY <2>1, DetourIsDecision
  <2>3. d \in {Plain("stop"), Plain("clear"), Detour(points)}
      BY <1>2 DEF Evaluate
  <2> QED
      BY <2>1, <2>2, <2>3 DEF Decisions, Plain
<1> QED
    BY <1>1, <1>2

Messages == Payloads \cup {AsPayload(d) : d \in Decisions}

LEMMA MessagesAreWellFormed ==
    ASSUME NEW m \in Messages PROVE IsPayload(m)
<1>1. CASE m \in Payloads
    BY <1>1, PlannerAssumption
<1>2. ASSUME NEW d \in Decisions, m = AsPayload(d) PROVE IsPayload(m)
    BY <1>2 DEF Decisions, Plain, AsPayload, IsPayload
<1> QED
    BY <1>1, <1>2 DEF Messages

-----------------------------------------------------------------------------
(* A queue of the middleware.                                              *)

LEMMA KeepLastFacts ==
    ASSUME NEW S, NEW q \in Seq(S), Len(q) <= Depth, NEW m \in S
    PROVE  /\ KeepLast(q, m) \in Seq(S)
           /\ Len(KeepLast(q, m)) <= Depth
           /\ KeepLast(q, m) # << >>
           /\ KeepLast(q, m)[Len(KeepLast(q, m))] = m
<1>1. Depth \in Nat \ {0}
    BY DepthAssumption
<1>2. CASE Len(q) < Depth
    BY <1>1, <1>2 DEF KeepLast
<1>3. CASE ~(Len(q) < Depth)
  <2>1. q # << >> /\ Len(q) = Depth
      BY <1>1, <1>3
  <2>2. Tail(q) \in Seq(S) /\ Len(Tail(q)) = Len(q) - 1
      BY <2>1
  <2>3. KeepLast(q, m) = Append(Tail(q), m)
      BY <1>3 DEF KeepLast
  <2> QED
      BY <1>1, <2>1, <2>2, <2>3
<1> QED
    BY <1>2, <1>3

LEMMA TailFacts ==
    ASSUME NEW S, NEW q \in Seq(S), q # << >>, Len(q) <= Depth
    PROVE  /\ Head(q) \in S
           /\ Tail(q) \in Seq(S)
           /\ Len(Tail(q)) <= Depth
           /\ Tail(q) # << >> => Tail(q)[Len(Tail(q))] = q[Len(q)]
           /\ Tail(q) = << >> => Head(q) = q[Len(q)]
<1>1. Depth \in Nat \ {0}
    BY DepthAssumption
<1>2. Len(q) \in Nat \ {0} /\ Head(q) = q[1] /\ Head(q) \in S
    BY HeadTailProperties, EmptySeq
<1>3. Tail(q) \in Seq(S) /\ Len(Tail(q)) = Len(q) - 1
    BY HeadTailProperties, EmptySeq
<1>4. \A i \in 1 .. Len(Tail(q)) : Tail(q)[i] = q[i + 1]
    BY HeadTailProperties, EmptySeq
<1>5. Tail(q) = << >> => Len(q) = 1
    BY <1>2, <1>3
<1>6. Tail(q) # << >> => Len(Tail(q)) \in 1 .. Len(Tail(q))
    BY <1>3
<1>7. Tail(q) # << >> => Tail(q)[Len(Tail(q))] = q[Len(q)]
    BY <1>2, <1>3, <1>4, <1>6
<1> QED
    BY <1>1, <1>2, <1>3, <1>5, <1>7

-----------------------------------------------------------------------------
(* From the cloud to the wheel.                                            *)

Inbox == advisories["planner"]

InboxInv ==
    /\ advisories = [r \in {"planner"} |-> Inbox]
    /\ Inbox \in Seq(Messages) /\ Len(Inbox) <= Depth

(* Where the decision about the scene is: it is the newest message on its  *)
(* way, or a detour that the planner has stored.                           *)
SceneInv ==
    scene # {} =>
        \E d \in Decisions :
            /\ decision = {d}
            /\ d.action = "detour" =>
                  d = Detour(scene) /\ IsPoints(scene) /\ Closest(scene) \in Nat
            /\ Inbox # << >> => Inbox[Len(Inbox)] = AsPayload(d)
            /\ Inbox = << >> /\ d.action = "detour" =>
                  dynamic_obstacle = Parse(AsPayload(d))

CoupledInv == PlannerInv /\ InboxInv /\ SceneInv

LEMMA ParsedDetour ==
    ASSUME NEW d \in Decisions, d.action = "detour"
    PROVE  \E v, w \in Int :
              /\ d.lateral = {v} /\ d.forward = {w}
              /\ Parse(AsPayload(d)) = {[action |-> "detour", lateral |-> v, forward |-> w]}
<1>1. PICK v, w \in Int : d.lateral = {v} /\ d.forward = {w}
    BY DEF Decisions, Plain
<1>2. AsPayload(d) = [json |-> TRUE, action |-> "detour", lateral |-> {v}, forward |-> {w}]
    BY <1>1 DEF AsPayload
<1>3. Parse(AsPayload(d)) = {[action |-> "detour", lateral |-> v, forward |-> w]}
    BY <1>2 DEF Parse, Actions
<1> QED
    BY <1>1, <1>3

LEMMA CoupledInit == LoopInit => CoupledInv
<1> SUFFICES ASSUME LoopInit PROVE CoupledInv
    OBVIOUS
<1>1. PlannerInv
    BY PlannerInit DEF LoopInit
<1>2. advisories = [r \in {"planner"} |-> << >>] /\ scene = {}
    BY Zenon DEF LoopInit
<1>3. InboxInv
    BY <1>2, DepthAssumption DEF InboxInv, Inbox
<1>4. SceneInv
    BY <1>2 DEF SceneInv
<1> QED
    BY <1>1, <1>3, <1>4 DEF CoupledInv

(* The messages in the planner's queue, and the oldest of them.            *)
LEMMA InboxStep ==
    ASSUME InboxInv
    PROVE  /\ \A m \in Messages : advisories' = Publish(advisories, m) =>
                  InboxInv' /\ Inbox' # << >> /\ Inbox'[Len(Inbox')] = m
           /\ Inbox # << >> /\ advisories' = Take(advisories, "planner") =>
                  InboxInv' /\ Head(Inbox) \in Messages
                  /\ (Inbox' # << >> => Inbox'[Len(Inbox')] = Inbox[Len(Inbox)])
                  /\ (Inbox' = << >> => Head(Inbox) = Inbox[Len(Inbox)])
<1>1. /\ advisories = [r \in {"planner"} |-> Inbox]
      /\ Inbox \in Seq(Messages) /\ Len(Inbox) <= Depth
    BY DEF InboxInv
<1>2. ASSUME NEW m \in Messages, advisories' = Publish(advisories, m)
      PROVE  InboxInv' /\ Inbox' # << >> /\ Inbox'[Len(Inbox')] = m
  <2>1. advisories' = [r \in {"planner"} |-> KeepLast(Inbox, m)]
      BY <1>1, <1>2 DEF Publish
  <2>2. Inbox' = KeepLast(Inbox, m)
      BY <2>1 DEF Inbox
  <2>3. /\ KeepLast(Inbox, m) \in Seq(Messages)
        /\ Len(KeepLast(Inbox, m)) <= Depth
        /\ KeepLast(Inbox, m) # << >>
        /\ KeepLast(Inbox, m)[Len(KeepLast(Inbox, m))] = m
      BY <1>1, KeepLastFacts
  <2>4. advisories' = [r \in {"planner"} |-> Inbox']
      BY <2>1, <2>2
  <2>5. Messages' = Messages
      BY DEF Messages, Decisions, AsPayload, Plain
  <2>6. InboxInv'
      BY <2>2, <2>3, <2>4, <2>5 DEF InboxInv
  <2> QED
      BY <2>2, <2>3, <2>6
<1>3. ASSUME Inbox # << >>, advisories' = Take(advisories, "planner")
      PROVE  /\ InboxInv' /\ Head(Inbox) \in Messages
             /\ Inbox' # << >> => Inbox'[Len(Inbox')] = Inbox[Len(Inbox)]
             /\ Inbox' = << >> => Head(Inbox) = Inbox[Len(Inbox)]
  <2>1. advisories' = [r \in {"planner"} |-> Tail(Inbox)]
      BY <1>1, <1>3 DEF Take
  <2>2. Inbox' = Tail(Inbox)
      BY <2>1 DEF Inbox
  <2>3. /\ Head(Inbox) \in Messages
        /\ Tail(Inbox) \in Seq(Messages)
        /\ Len(Tail(Inbox)) <= Depth
        /\ Tail(Inbox) # << >> => Tail(Inbox)[Len(Tail(Inbox))] = Inbox[Len(Inbox)]
        /\ Tail(Inbox) = << >> => Head(Inbox) = Inbox[Len(Inbox)]
      BY <1>1, <1>3, TailFacts
  <2>4. advisories' = [r \in {"planner"} |-> Inbox']
      BY <2>1, <2>2
  <2>5. Messages' = Messages
      BY DEF Messages, Decisions, AsPayload, Plain
  <2>6. InboxInv'
      BY <2>2, <2>3, <2>4, <2>5 DEF InboxInv
  <2> QED
      BY <2>2, <2>3, <2>6
<1> QED
    BY <1>2, <1>3

(* What the planner sees of a step of the loop.                            *)
LEMMA PlannerStepOfLoop ==
    ASSUME InboxInv, [LoopNext]_loopVars
    PROVE  \/ [Next]_plannerVars
           \/ \E p : IsPayload(p) /\ OnDynamicObstacle(p)
<1>1. CASE PlannerAdvised
  <2>1. Inbox # << >> /\ OnDynamicObstacle(Head(Inbox))
      BY <1>1 DEF PlannerAdvised, Inbox
  <2>2. Head(Inbox) \in Messages
      BY <2>1, TailFacts DEF InboxInv
  <2> QED
      BY <2>1, <2>2, MessagesAreWellFormed
<1>2. CASE PlannerDrives
    BY <1>2 DEF PlannerDrives, Next
<1>3. CASE LoopTick
    BY <1>3 DEF LoopTick, Next
<1>4. CASE UNCHANGED plannerVars
    BY <1>4
<1>5. CASE CloudArrives \/ ToolAdvises \/ UNCHANGED loopVars
    BY <1>4, <1>5 DEF CloudArrives, ToolAdvises, loopVars, plannerVars
<1> QED
    BY <1>1, <1>2, <1>3, <1>5 DEF LoopNext

LEMMA CoupledStep ==
    ASSUME CoupledInv, [LoopNext]_loopVars PROVE CoupledInv'
<1> USE DEF CoupledInv
<1>1. PlannerInv'
    BY PlannerStepOfLoop, PlannerStep
<1>2. CASE CloudArrives
  <2>1. PICK cloud \in Clouds, stamp \in 0 .. clock :
              /\ OnCloud([stamp |-> stamp, points |-> cloud])
              /\ scene' = Candidates(cloud)
      BY <1>2, Zenon DEF CloudArrives
  <2>2. PICK dt : decision' = {Evaluate(Candidates(cloud), dt)}
      BY <2>1 DEF OnCloud
  <2> DEFINE d == Evaluate(Candidates(cloud), dt)
  <2>3. /\ d \in Decisions
        /\ d.action = "detour" => d = Detour(Candidates(cloud))
                                  /\ Closest(Candidates(cloud)) \in Nat
      BY CandidatesArePoints, EvaluateIsDecision
  <2>4. IsPoints(Candidates(cloud))
      BY CandidatesArePoints
  <2> HIDE DEF d
  <2>5. decision' = {d}
      BY <2>2 DEF d
  <2>6. (CHOOSE e \in decision' : TRUE) = d
      BY <2>5
  <2>7. advisories' = Publish(advisories, AsPayload(d))
      BY <1>2, <2>6, Zenon DEF CloudArrives
  <2>8. AsPayload(d) \in Messages
      BY <2>3 DEF Messages
  <2>9. InboxInv' /\ Inbox' # << >> /\ Inbox'[Len(Inbox')] = AsPayload(d)
      BY <2>7, <2>8, InboxStep
  <2>10. d.action = "detour" => d = Detour(scene') /\ IsPoints(scene')
                                /\ Closest(scene') \in Nat
      BY <2>1, <2>3, <2>4
  <2>11. SceneInv'
      BY <2>3, <2>5, <2>9, <2>10 DEF SceneInv
  <2> QED
      BY <1>1, <2>9, <2>11
<1>3. CASE ToolAdvises
  <2>1. PICK p \in Payloads : advisories' = Publish(advisories, p)
      BY <1>3 DEF ToolAdvises
  <2>2. InboxInv'
      BY <2>1, InboxStep DEF Messages
  <2>3. SceneInv'
      BY <1>3 DEF ToolAdvises, SceneInv
  <2> QED
      BY <1>1, <2>2, <2>3
<1>4. CASE PlannerAdvised
  <2>1. /\ Inbox # << >> /\ OnDynamicObstacle(Head(Inbox))
        /\ advisories' = Take(advisories, "planner")
        /\ UNCHANGED <<decision, scene>>
      BY <1>4 DEF PlannerAdvised, Inbox, detectorVars
  <2>2. /\ InboxInv'
        /\ Inbox' # << >> => Inbox'[Len(Inbox')] = Inbox[Len(Inbox)]
        /\ Inbox' = << >> => Head(Inbox) = Inbox[Len(Inbox)]
      BY <2>1, InboxStep
  <2>3. SceneInv'
    <3> SUFFICES ASSUME scene # {} PROVE SceneInv'
        BY <2>1 DEF SceneInv
    <3>1. PICK d \in Decisions :
              /\ decision = {d}
              /\ d.action = "detour" =>
                    d = Detour(scene) /\ IsPoints(scene) /\ Closest(scene) \in Nat
              /\ Inbox # << >> => Inbox[Len(Inbox)] = AsPayload(d)
        BY DEF SceneInv
    <3>2. ASSUME Inbox' = << >>, d.action = "detour"
          PROVE  dynamic_obstacle' = Parse(AsPayload(d))
      <4>1. Head(Inbox) = AsPayload(d)
          BY <2>1, <2>2, <3>1, <3>2
      <4>2. Parse(AsPayload(d)) # {}
          BY <3>2, ParsedDetour
      <4> QED
          BY <2>1, <4>1, <4>2 DEF OnDynamicObstacle
    <3> QED
        BY <2>1, <2>2, <3>1, <3>2 DEF SceneInv
  <2> QED
      BY <1>1, <2>2, <2>3
<1>5. CASE PlannerDrives \/ LoopTick \/ UNCHANGED loopVars
  <2>1. UNCHANGED <<decision, scene, advisories, dynamic_obstacle>>
      BY <1>5 DEF PlannerDrives, LoopTick, loopVars, plannerVars, detectorVars, OnEstop,
                  OnGlobalPath, OnOdom, TimePasses
  <2>2. InboxInv'
      BY <2>1 DEF InboxInv, Inbox
  <2>3. SceneInv'
      BY <2>1 DEF SceneInv, Inbox
  <2> QED
      BY <1>1, <2>2, <2>3
<1> QED
    BY <1>2, <1>3, <1>4, <1>5 DEF LoopNext

LEMMA CoupledInvariant == LoopSpec => []CoupledInv
    BY CoupledInit, CoupledStep, PTL DEF LoopSpec

(* The detector's y and the planner's steering have opposite signs, for    *)
(* every cloud, route, pose and timeout, as long as a detour is worth the  *)
(* name: its bypass point lies beside the vehicle and no nearer than the   *)
(* lookahead.  The code's defaults are 1.0 m, 2.0 m and 2.0 m.             *)
DetourReaches == DetourLateral > 0 /\ DetourForward >= Lookahead

THEOREM DetoursSteerAway == ASSUME DetourReaches PROVE LoopSpec => SteersAway
<1>1. CoupledInv /\ [LoopNext]_loopVars
      => (Published /\ Delivered /\ Decided("detour") /\ ~estop /\ ~NearGoal(odom', path)
          /\ obstacle_age <= AdvisoryTimeout
          => IF Ys(scene) >= 0 THEN cmd'.steering < 0 ELSE cmd'.steering > 0)
  <2> SUFFICES ASSUME CoupledInv, [LoopNext]_loopVars, Published, Delivered,
                      Decided("detour"), ~estop, ~NearGoal(odom', path),
                      obstacle_age <= AdvisoryTimeout
               PROVE  IF Ys(scene) >= 0 THEN cmd'.steering < 0 ELSE cmd'.steering > 0
      OBVIOUS
  <2>1. scene # {} /\ Inbox = << >>
      BY DEF Delivered, Inbox
  <2>2. PICK d \in Decisions :
              /\ decision = {d}
              /\ d.action = "detour" =>
                    d = Detour(scene) /\ IsPoints(scene) /\ Closest(scene) \in Nat
              /\ Inbox = << >> /\ d.action = "detour" =>
                    dynamic_obstacle = Parse(AsPayload(d))
      BY <2>1 DEF CoupledInv, SceneInv
  <2>3. d.action = "detour"
      BY <2>2 DEF Decided
  <2>4. PICK v, w \in Int :
              /\ d.lateral = {v} /\ d.forward = {w}
              /\ Parse(AsPayload(d)) = {[action |-> "detour", lateral |-> v, forward |-> w]}
      BY <2>3, ParsedDetour
  <2> DEFINE a == [action |-> "detour", lateral |-> v, forward |-> w]
  <2>5. dynamic_obstacle = {a}
      BY <2>1, <2>2, <2>3, <2>4
  <2>6. v = DetourSide(scene) /\ w >= DetourForward
            /\ v \in {DetourLateral, -DetourLateral}
    <3>1. d.lateral = {DetourSide(scene)}
        BY <2>2, <2>3 DEF Detour
    <3>2. /\ \E u \in Int : Detour(scene).forward = {u} /\ u >= DetourForward
          /\ DetourSide(scene) \in {DetourLateral, -DetourLateral}
        BY <2>2, <2>3, DetourIsDecision
    <3> QED
        BY <2>2, <2>3, <2>4, <3>1, <3>2
  <2>7. v # 0 /\ w >= Lookahead
      BY <2>6, DetectorAssumption, PursuitAssumption DEF DetourReaches
  <2>8. [Next]_plannerVars
    <3>1. CASE PlannerDrives
        BY <3>1 DEF PlannerDrives, Next
    <3>2. CASE ~PlannerDrives
        BY <3>2 DEF LoopNext, loopVars, Published, plannerVars, CloudArrives, ToolAdvises,
                    PlannerAdvised, LoopTick, OnDynamicObstacle, TimePasses
    <3> QED
        BY <3>1, <3>2
  <2>9. cmd'.steering = v
    <3>1. a \in dynamic_obstacle /\ a.action = "detour" /\ a.lateral = v /\ a.forward = w
        BY <2>5
    <3> HIDE DEF a
    <3>2. cmd'.steering = a.lateral
        BY <2>7, <2>8, <3>1, DetourStep DEF CoupledInv
    <3> QED
        BY <3>1, <3>2
  <2> QED
      BY <2>6, <2>9, DetectorAssumption DEF DetourSide, DetourReaches
<1> QED
    BY <1>1, CoupledInvariant, PTL DEF LoopSpec, SteersAway

-----------------------------------------------------------------------------
(* The tracker.                                                            *)

TrackTypes == [id : 1 .. next_track_id - 1, x : Int, y : Int,
               first_seen : 1 .. clock, last_seen : 1 .. clock]

(* A track is known by its id.                                             *)
IdsIdentify == \A t, u \in tracks : t.id = u.id => t = u

DetectorInv ==
    /\ clock \in Nat \ {0} /\ next_track_id \in Nat \ {0}
    /\ tracks \subseteq TrackTypes
    /\ IdsIdentify
    /\ Cardinality(previous_closest) <= 1 /\ previous_closest \subseteq Nat
    /\ Cardinality(previous_stamp) <= 1 /\ previous_stamp \subseteq 1 .. clock
    /\ Cardinality(decision) <= 1

LEMMA SingletonFacts ==
    /\ Cardinality({}) <= 1
    /\ \A x : Cardinality({x}) <= 1
    BY FS_EmptySet, FS_Singleton

(* Two tracks are never equally near and equally old.                      *)
LEMMA OneMatch ==
    ASSUME DetectorInv, NEW live, live \subseteq tracks,
           NEW centre, centre.x \in Int, centre.y \in Int,
           NEW t \in Matching(live, centre), NEW u \in Matching(live, centre)
    PROVE  t = u
<1>1. t \in tracks /\ u \in tracks
    BY DEF Matching
<1>2. t.x \in Int /\ t.y \in Int /\ u.x \in Int /\ u.y \in Int /\ t.id \in Int /\ u.id \in Int
    BY <1>1 DEF DetectorInv, TrackTypes
<1>3. SqGap(t, centre) \in Int /\ SqGap(u, centre) \in Int
    BY <1>2 DEF SqGap
<1>4. /\ \/ SqGap(t, centre) < SqGap(u, centre)
         \/ SqGap(t, centre) = SqGap(u, centre) /\ t.id <= u.id
      /\ \/ SqGap(u, centre) < SqGap(t, centre)
         \/ SqGap(u, centre) = SqGap(t, centre) /\ u.id <= t.id
    BY DEF Matching
<1>5. t.id = u.id
    BY <1>2, <1>3, <1>4
<1> QED
    BY <1>1, <1>5 DEF DetectorInv, IdsIdentify

(* What DynamicObstacleTracker.update does to the tracks: a track stays as *)
(* it was, or is seen again, or is new and has the next id.                *)
LEMMA UpdateFacts ==
    ASSUME DetectorInv, NEW points, IsPoints(points), \A p \in points : p.x \in Nat,
           NEW stamp \in 1 .. clock, Update(points, stamp), clock' = clock
    PROVE  /\ next_track_id' \in Nat \ {0} /\ next_track_id' >= next_track_id
           /\ tracks' \subseteq TrackTypes'
           /\ IdsIdentify'
           /\ \A t \in tracks' :
                 \/ \E u \in tracks : u.id = t.id /\ u.first_seen = t.first_seen
                 \/ t.id >= next_track_id /\ t.id < next_track_id'
<1> DEFINE live == LiveTracks(stamp)
           centre == Centre(points)
           match == Matching(live, centre)
<1>1. live \subseteq tracks
    BY DEF LiveTracks
<1>2. /\ clock \in Nat \ {0} /\ next_track_id \in Nat \ {0}
      /\ tracks \subseteq TrackTypes /\ IdsIdentify
    BY DEF DetectorInv
<1>3. CASE tracks' = live /\ next_track_id' = next_track_id
  <2>1. TrackTypes' = TrackTypes
      BY <1>3 DEF TrackTypes
  <2>2. IdsIdentify'
      BY <1>1, <1>2, <1>3 DEF IdsIdentify
  <2> QED
      BY <1>1, <1>2, <1>3, <2>1, <2>2
<1>4. CASE ~(Cardinality(points) < MinPoints) /\ match = {}
  <2> DEFINE new == Track(next_track_id, centre, stamp, stamp)
  <2>1. tracks' = live \cup {new} /\ next_track_id' = next_track_id + 1
      BY <1>4 DEF Update
  <2>2. centre.x \in Int /\ centre.y \in Int
      BY <1>4, EnoughPoints, CentreIsPoint
  <2> HIDE DEF centre, live
  <2>3. new \in TrackTypes'
      BY <1>2, <2>1, <2>2 DEF Track, TrackTypes
  <2>4. TrackTypes \subseteq TrackTypes'
      BY <1>2, <2>1 DEF TrackTypes
  <2>5. new.id = next_track_id /\ \A t \in live : t.id # next_track_id
      BY <1>1, <1>2 DEF Track, TrackTypes
  <2> HIDE DEF new
  <2>6. IdsIdentify'
      BY <1>1, <1>2, <2>1, <2>5 DEF IdsIdentify
  <2>7. tracks' \subseteq TrackTypes'
      BY <1>1, <1>2, <2>1, <2>3, <2>4
  <2> QED
      BY <1>1, <1>2, <2>1, <2>5, <2>6, <2>7
<1>5. CASE ~(Cardinality(points) < MinPoints) /\ match # {}
  <2>1. /\ tracks' = (live \ match) \cup {Track(t.id, centre, t.first_seen, stamp) : t \in match}
        /\ next_track_id' = next_track_id
      BY <1>5 DEF Update
  <2>2. centre.x \in Int /\ centre.y \in Int
      BY <1>5, EnoughPoints, CentreIsPoint
  <2>3. PICK m : match = {m} /\ m \in live
      BY <1>1, <1>5, <2>2, OneMatch DEF Matching
  <2> DEFINE again == Track(m.id, centre, m.first_seen, stamp)
  <2>4. tracks' = (live \ {m}) \cup {again}
      BY <2>1, <2>3
  <2> HIDE DEF centre, live, match
  <2>5. TrackTypes' = TrackTypes
      BY <2>1 DEF TrackTypes
  <2>6. again \in TrackTypes
      BY <1>1, <1>2, <2>2, <2>3 DEF Track, TrackTypes
  <2>7. again.id = m.id /\ again.first_seen = m.first_seen
      BY DEF Track
  <2>8. \A t \in live \ {m} : t.id # m.id
      BY <1>1, <1>2, <2>3 DEF IdsIdentify
  <2> HIDE DEF again
  <2>9. IdsIdentify'
      BY <1>1, <1>2, <2>4, <2>7, <2>8 DEF IdsIdentify
  <2> QED
      BY <1>1, <1>2, <2>1, <2>3, <2>4, <2>5, <2>6, <2>7, <2>9
<1> QED
    BY <1>3, <1>4, <1>5 DEF Update

LEMMA DetectorStarts == LoopInit => DetectorInv
<1> SUFFICES ASSUME LoopInit PROVE DetectorInv
    OBVIOUS
<1>1. /\ clock = 1 /\ next_track_id = 1 /\ tracks = {}
      /\ previous_closest = {} /\ previous_stamp = {} /\ decision = {}
    BY Zenon DEF LoopInit, DetectorInit
<1> QED
    BY <1>1, SingletonFacts DEF DetectorInv, IdsIdentify, TrackTypes

LEMMA CloudStep ==
    ASSUME DetectorInv, NEW points \in Clouds, NEW stamp \in 0 .. clock, clock' = clock,
           OnCloud([stamp |-> stamp, points |-> points])
    PROVE  /\ DetectorInv'
           /\ \A t \in tracks' :
                 \/ \E u \in tracks : u.id = t.id /\ u.first_seen = t.first_seen
                 \/ t.id >= next_track_id /\ t.id < next_track_id'
<1> DEFINE seen == Candidates(points)
           time == IF stamp > 0 THEN stamp ELSE clock
<1>1. IsPoints(seen) /\ \A p \in seen : p.x \in Nat
    BY CandidatesArePoints
<1>2. clock \in Nat \ {0} /\ time \in 1 .. clock
    BY DEF DetectorInv
<1>3. Update(seen, time)
    BY DEF OnCloud
<1>4. PICK d : decision' = {d}
    BY DEF OnCloud
<1>5. IF Cardinality(seen) < MinPoints
      THEN UNCHANGED <<previous_closest, previous_stamp>>
      ELSE previous_closest' = {Closest(seen)} /\ previous_stamp' = {time}
    BY DEF OnCloud
<1> HIDE DEF seen, time
<1>6. /\ next_track_id' \in Nat \ {0} /\ next_track_id' >= next_track_id
      /\ tracks' \subseteq TrackTypes'
      /\ IdsIdentify'
      /\ \A t \in tracks' :
            \/ \E u \in tracks : u.id = t.id /\ u.first_seen = t.first_seen
            \/ t.id >= next_track_id /\ t.id < next_track_id'
    BY <1>1, <1>2, <1>3, UpdateFacts
<1>7. /\ Cardinality(previous_closest') <= 1 /\ previous_closest' \subseteq Nat
      /\ Cardinality(previous_stamp') <= 1 /\ previous_stamp' \subseteq 1 .. clock'
  <2>1. CASE Cardinality(seen) < MinPoints
      BY <1>5, <2>1 DEF DetectorInv
  <2>2. CASE ~(Cardinality(seen) < MinPoints)
    <3>1. Closest(seen) \in Nat
        BY <1>1, <2>2, EnoughPoints
    <3> QED
        BY <1>2, <1>5, <2>2, <3>1, SingletonFacts
  <2> QED
      BY <2>1, <2>2
<1>8. Cardinality(decision') <= 1
    BY <1>4, SingletonFacts
<1> QED
    BY <1>2, <1>6, <1>7, <1>8 DEF DetectorInv

LEMMA DetectorStep ==
    ASSUME DetectorInv, [LoopNext]_loopVars
    PROVE  /\ DetectorInv'
           /\ \/ UNCHANGED detectorVars
              \/ \A t \in tracks' :
                    \/ \E u \in tracks : u.id = t.id /\ u.first_seen = t.first_seen
                    \/ t.id >= next_track_id /\ t.id < next_track_id'
<1>1. CASE CloudArrives
  <2>1. PICK points \in Clouds, stamp \in 0 .. clock :
              OnCloud([stamp |-> stamp, points |-> points])
      BY <1>1, Zenon DEF CloudArrives
  <2>2. clock' = clock
      BY <1>1, Zenon DEF CloudArrives
  <2> QED
      BY <2>1, <2>2, CloudStep
<1>2. CASE LoopTick
  <2>1. UNCHANGED detectorVars /\ clock' \in {clock, clock + 1}
      BY <1>2 DEF LoopTick
  <2>2. /\ tracks' = tracks /\ next_track_id' = next_track_id
        /\ previous_closest' = previous_closest /\ previous_stamp' = previous_stamp
        /\ decision' = decision
      BY <2>1 DEF detectorVars
  <2>3. clock' \in Nat \ {0} /\ clock' >= clock
      BY <2>1 DEF DetectorInv
  <2>4. TrackTypes \subseteq TrackTypes'
      BY <2>2, <2>3 DEF TrackTypes, DetectorInv
  <2>5. previous_stamp \subseteq 1 .. clock'
      BY <2>3 DEF DetectorInv
  <2>6. IdsIdentify'
      BY <2>2 DEF DetectorInv, IdsIdentify
  <2>7. DetectorInv'
      BY <2>2, <2>3, <2>4, <2>5, <2>6 DEF DetectorInv
  <2> QED
      BY <2>1, <2>7
<1>3. CASE ToolAdvises \/ PlannerAdvised \/ PlannerDrives \/ UNCHANGED loopVars
  <2>1. UNCHANGED <<clock, detectorVars>>
      BY <1>3 DEF ToolAdvises, PlannerAdvised, PlannerDrives, loopVars
  <2>2. DetectorInv'
      BY <2>1 DEF detectorVars, DetectorInv, IdsIdentify, TrackTypes
  <2> QED
      BY <2>1, <2>2
<1> QED
    BY <1>1, <1>2, <1>3 DEF LoopNext

(* The id of a track that was dropped is never given out again, and no two *)
(* tracks ever share one: every cloud, stamp and order of arrival.         *)
LEMMA DetectorInvariant == LoopSpec => []DetectorInv
    BY DetectorStarts, DetectorStep, PTL DEF LoopSpec

THEOREM NoIdIsReused == LoopSpec => []IdsIdentify /\ IdsNeverReused
<1>1. DetectorInv => IdsIdentify
    BY DEF DetectorInv
<1>2. DetectorInv /\ [LoopNext]_loopVars
      => [\A t \in tracks' :
             \/ \E u \in tracks : u.id = t.id /\ u.first_seen = t.first_seen
             \/ t.id >= next_track_id /\ t.id < next_track_id']_detectorVars
    BY DetectorStep
<1> QED
    BY <1>1, <1>2, DetectorInvariant, PTL DEF LoopSpec, IdsNeverReused

-----------------------------------------------------------------------------
(* Types.                                                                  *)

(* Both nodes and the queue between them keep their types: in particular   *)
(* the planner's path is never empty, and no number of a decision is lost. *)
THEOREM LoopKeepsTypes == LoopSpec => []LoopTypeOK
<1>1. LoopInit => CmdTypes
    BY CmdTypesInit DEF LoopInit
<1>2. CoupledInv /\ CmdTypes /\ [LoopNext]_loopVars => CmdTypes'
    BY PlannerStepOfLoop, CmdTypesStep DEF CoupledInv
<1>3. CoupledInv /\ CmdTypes /\ DetectorInv => LoopTypeOK
  <2> SUFFICES ASSUME CoupledInv, CmdTypes, DetectorInv PROVE LoopTypeOK
      OBVIOUS
  <2>1. TypeOK
      BY DEF TypeOK, CoupledInv, PlannerInv, CmdTypes
  <2>2. DetectorTypeOK
      BY DEF DetectorTypeOK, DetectorInv, TrackTypes
  <2>3. Len(advisories["planner"]) <= Depth
      BY DEF CoupledInv, InboxInv, Inbox
  <2> QED
      BY <2>1, <2>2, <2>3 DEF LoopTypeOK
<1> QED
    BY <1>1, <1>2, <1>3, CoupledInvariant, DetectorInvariant, PTL DEF LoopSpec
=============================================================================
