-------------------------- MODULE Planning_proofs --------------------------
(***************************************************************************)
(* Two parts of planning: the commands of the local planner, and the       *)
(* search of the global one.                                               *)
(*                                                                         *)
(* What the local planner publishes under an e-stop and under an obstacle  *)
(* advisory, for every path, pose, advisory, timeout and speed.  First     *)
(* comes what does not depend on the geometry: only the speed and the      *)
(* brake of a plan pass through apply_dynamic_obstacle_advisory and        *)
(* local_plan_to_ackermann.  Then comes the geometry of a detour: the      *)
(* bypass point is the first point of the path, and it is the one the      *)
(* pure pursuit aims at.                                                   *)
(*                                                                         *)
(* The search of route_graph.py and astar.py is exact, for every problem   *)
(* with finitely many steps of positive cost and an estimate that no step  *)
(* overtakes.                                                              *)
(*                                                                         *)
(* Rooted: what the search remembers is a tree of steps from the start,    *)
(* with costs that fall towards it; so a plan is a walk, whatever the      *)
(* estimate says.                                                          *)
(*                                                                         *)
(* Exact: every stale entry of the heap is above the current one of its    *)
(* node, every node below the last entry popped is settled (none of its    *)
(* steps would still lower a cost), and no node is expanded twice.  Work,  *)
(* the steps from nodes not yet expanded, falls with every turn, so that   *)
(* the search ends within MaxTurns; when it has ended, no walk to the goal *)
(* is cheaper (Beyond), and neither is any round of the reference.         *)
(***************************************************************************)
EXTENDS LocalPlanner, BestFirst, TLAPS, WellFoundedInduction, FiniteSetTheorems

(* A plan: what PurePursuit.command returns, before or after an advisory.  *)
Brakes == {0, 1, 2, 5, 10}
IsPlan(p) == /\ p = [steering |-> p.steering, velocity |-> p.velocity, brake |-> p.brake]
             /\ p.velocity \in Nat
             /\ p.brake \in Brakes

(* The slow speed, which apply_dynamic_obstacle_advisory takes for zero    *)
(* when it is negative.                                                    *)
Cap == Max({0, SlowSpeed})

Restrains(advisory) == \E a \in advisory : a.action \in {"slow", "stop", "detour"}

LEMMA MaxPair ==
    ASSUME NEW a \in Int, NEW b \in Int
    PROVE  Max({a, b}) = IF a >= b THEN a ELSE b
    BY DEF Max

LEMMA MinPair ==
    ASSUME NEW a \in Int, NEW b \in Int
    PROVE  Min({a, b}) = IF a <= b THEN a ELSE b
    BY DEF Min

LEMMA CapFacts == Cap \in Nat /\ (SlowSpeed \in Nat => Cap = SlowSpeed)
    BY PursuitAssumption, MaxPair DEF Cap

(* The pure pursuit plans a speed and a brake, whatever the path and pose, *)
(* and full braking when it is told to stop.                               *)
LEMMA CommandIsPlan ==
    ASSUME NEW pose, NEW route, NEW stop \in BOOLEAN,
           NEW p, p = Command(pose, route, stop)
    PROVE  /\ IsPlan(p)
           /\ stop => p.velocity = 0 /\ p.brake = 10
<1>1. CASE stop \/ route = << >>
  <2>1. p = [steering |-> 0, velocity |-> 0, brake |-> 10]
      BY <1>1 DEF Command, FullStop
  <2> QED
      BY <2>1 DEF IsPlan, Brakes
<1>2. CASE ~(stop \/ route = << >>)
  <2> DEFINE target == LookaheadPoint(pose, route)
             offset == LocalY(pose, target)
  <2>1. CASE LocalX(pose, target) <= 0
    <3>1. p = [steering |-> 0, velocity |-> 0, brake |-> 5]
        BY <1>2, <2>1 DEF Command
    <3> QED
        BY <1>2, <3>1 DEF IsPlan, Brakes
  <2>2. CASE ~(LocalX(pose, target) <= 0)
    <3>1. p = [steering |-> offset, velocity |-> TurnSpeed(offset), brake |-> 0]
        BY <1>2, <2>2 DEF Command
    <3>2. TurnSpeed(offset) \in Nat
        BY DEF TurnSpeed
    <3> QED
        BY <1>2, <3>1, <3>2 DEF IsPlan, Brakes
  <2> QED
      BY <2>1, <2>2
<1> QED
    BY <1>1, <1>2

(* slow and detour: no faster than the slow speed, and braking.            *)
LEMMA SlowedIsPlan ==
    ASSUME NEW p, IsPlan(p), NEW brake \in {1, 2},
           NEW q, q = Slowed(p, brake)
    PROVE  /\ IsPlan(q)
           /\ q.velocity <= p.velocity /\ q.velocity <= Cap
           /\ p.brake <= q.brake /\ q.brake # 0
<1>1. /\ q = [steering |-> p.steering, velocity |-> q.velocity, brake |-> q.brake]
      /\ q.steering = p.steering
      /\ q.velocity = Min({p.velocity, Cap})
      /\ q.brake = Max({p.brake, brake})
    BY DEF Slowed, Cap
<1>2. Cap \in Nat
    BY CapFacts
<1>3. q.velocity = IF p.velocity <= Cap THEN p.velocity ELSE Cap
    BY <1>1, <1>2, MinPair DEF IsPlan
<1>4. q.brake = IF p.brake >= brake THEN p.brake ELSE brake
    BY <1>1, MaxPair DEF IsPlan, Brakes
<1>5. q.velocity \in Nat /\ q.velocity <= p.velocity /\ q.velocity <= Cap
    BY <1>2, <1>3 DEF IsPlan
<1>6. q.brake \in Brakes /\ p.brake <= q.brake /\ q.brake # 0
    BY <1>4 DEF IsPlan, Brakes
<1> QED
    BY <1>1, <1>5, <1>6 DEF IsPlan

(* An advisory only takes speed away and adds brake; while one other than  *)
(* clear applies, the plan is slow and brakes.                             *)
LEMMA AdvisedIsPlan ==
    ASSUME NEW p, IsPlan(p), NEW advisory,
           NEW q, q = ApplyAdvisory(p, advisory)
    PROVE  /\ IsPlan(q)
           /\ q.velocity <= p.velocity /\ p.brake <= q.brake
           /\ Restrains(advisory) => q.velocity <= Cap /\ q.brake # 0
<1>1. CASE ~Restrains(advisory)
  <2>1. q = p
      BY <1>1 DEF ApplyAdvisory, Advises, Restrains
  <2> QED
      BY <1>1, <2>1 DEF IsPlan, Brakes
<1>2. CASE Advises(advisory, "stop")
  <2>1. q = [steering |-> p.steering, velocity |-> 0, brake |-> 10]
      BY <1>2 DEF ApplyAdvisory
  <2> QED
      BY <2>1, CapFacts DEF IsPlan, Brakes
<1>3. CASE Advises(advisory, "detour") /\ ~Advises(advisory, "stop")
  <2>1. q = Slowed(p, 1)
      BY <1>3 DEF ApplyAdvisory
  <2> QED
      BY <2>1, SlowedIsPlan
<1>4. CASE Advises(advisory, "slow") /\ ~Advises(advisory, "stop")
           /\ ~Advises(advisory, "detour")
  <2>1. q = Slowed(p, 2)
      BY <1>4 DEF ApplyAdvisory
  <2> QED
      BY <2>1, SlowedIsPlan
<1>5. Restrains(advisory) => \/ Advises(advisory, "stop")
                             \/ Advises(advisory, "detour")
                             \/ Advises(advisory, "slow")
    BY DEF Restrains, Advises
<1> QED
    BY <1>1, <1>2, <1>3, <1>4, <1>5

(* The brake of a plan is folded into the speed that is published.         *)
LEMMA AckermannOfPlan ==
    ASSUME NEW p, IsPlan(p)
    PROVE  /\ ToAckermann(p).speed = p.velocity * (10 - p.brake)
           /\ ToAckermann(p).acceleration = -p.brake
<1>1. Max({0, p.velocity}) = p.velocity
    BY MaxPair DEF IsPlan
<1> p.brake \in 0 .. 10
    BY DEF IsPlan, Brakes
<1>2. Min({10, p.brake}) = p.brake
    BY MinPair
<1>3. Max({0, p.brake}) = p.brake
    BY MaxPair
<1> QED
    BY <1>1, <1>2, <1>3 DEF ToAckermann

(* What is published, whatever the path: full braking under a stop, slow   *)
(* braking under an advisory other than clear.                             *)
LEMMA DriveCommandLevels ==
    ASSUME NEW pose, NEW route, NEW stop \in BOOLEAN, NEW advisory,
           NEW c, c = DriveCommand(pose, route, stop, advisory)
    PROVE  /\ stop => c.speed = 0 /\ c.acceleration = -10
           /\ Restrains(advisory) => c.speed <= Cap * 10 /\ c.acceleration < 0
<1> DEFINE brakes == stop \/ NearGoal(pose, route)
           p == Command(pose, WithDetour(pose, route, advisory), brakes)
           q == ApplyAdvisory(p, advisory)
<1>1. brakes \in BOOLEAN
    BY DEF NearGoal
<1>2. IsPlan(p) /\ (brakes => p.velocity = 0 /\ p.brake = 10)
    BY <1>1, CommandIsPlan
<1>3. /\ IsPlan(q)
      /\ q.velocity <= p.velocity /\ p.brake <= q.brake
      /\ Restrains(advisory) => q.velocity <= Cap /\ q.brake # 0
    BY <1>2, AdvisedIsPlan
<1>4. c = ToAckermann(q)
    BY DEF DriveCommand
<1> HIDE DEF p, q, brakes
<1>5. c.speed = q.velocity * (10 - q.brake) /\ c.acceleration = -q.brake
    BY <1>3, <1>4, AckermannOfPlan
<1>6. ASSUME stop PROVE c.speed = 0 /\ c.acceleration = -10
  <2>1. p.velocity = 0 /\ p.brake = 10
      BY <1>2, <1>6 DEF brakes
  <2>2. q.velocity = 0 /\ q.brake = 10
      BY <1>3, <2>1 DEF IsPlan, Brakes
  <2> QED
      BY <1>5, <2>2
<1>7. ASSUME Restrains(advisory)
      PROVE  c.speed <= Cap * 10 /\ c.acceleration < 0
  <2>1. q.velocity \in Nat /\ q.velocity <= Cap /\ q.brake \in {1, 2, 5, 10}
      BY <1>3, <1>7 DEF IsPlan, Brakes
  <2>2. q.velocity * (10 - q.brake) <= Cap * 10
      BY <2>1, CapFacts
  <2> QED
      BY <1>5, <2>1, <2>2
<1> QED
    BY <1>6, <1>7

-----------------------------------------------------------------------------
(* The stored advisory is one that parse_dynamic_obstacle_advisory let     *)
(* through: the invariant the theorem about advisories needs.              *)
AdvisoryInv ==
    /\ \A a \in dynamic_obstacle : a.action \in Actions
    /\ obstacle_age \in Int
    /\ estop \in BOOLEAN

LEMMA AdvisoryInvariant == Spec => []AdvisoryInv
<1>1. Init => AdvisoryInv
  <2> SUFFICES ASSUME Init PROVE AdvisoryInv
      OBVIOUS
  <2>1. obstacle_age = AdvisoryTimeout + 1
      BY Zenon DEF Init
  <2>2. obstacle_age \in Int
      BY <2>1, PlannerAssumption
  <2> QED
      BY <2>2 DEF Init, AdvisoryInv
<1>2. AdvisoryInv /\ [Next]_plannerVars => AdvisoryInv'
  <2> SUFFICES ASSUME AdvisoryInv, [Next]_plannerVars
               PROVE  AdvisoryInv'
      OBVIOUS
  <2>1. ASSUME NEW value \in BOOLEAN, OnEstop(value)
        PROVE  AdvisoryInv'
      BY <2>1 DEF OnEstop, AdvisoryInv
  <2>2. ASSUME NEW p \in Payloads, OnDynamicObstacle(p)
        PROVE  AdvisoryInv'
    <3>1. \A a \in Parse(p) : a.action \in Actions
        BY DEF Parse
    <3> QED
        BY <2>2, <3>1 DEF OnDynamicObstacle, AdvisoryInv
  <2>3. CASE TimePasses
    <3>1. obstacle_age' \in Int
        BY <2>3 DEF TimePasses, AdvisoryInv
    <3> QED
        BY <2>3, <3>1 DEF TimePasses, AdvisoryInv
  <2>4. CASE UNCHANGED <<dynamic_obstacle, obstacle_age, estop>>
      BY <2>4 DEF AdvisoryInv
  <2> QED
      BY <2>1, <2>2, <2>3, <2>4 DEF Next, OnGlobalPath, OnOdom, plannerVars
<1> QED
    BY <1>1, <1>2, PTL DEF Spec

(* Only an odometry message publishes, and it leaves the rest alone.       *)
LEMMA OnlyOdomPublishes ==
    ASSUME [Next]_plannerVars, Published
    PROVE  \E pose \in OdomPoses : OnOdom(pose)
    BY DEF Next, Published, OnEstop, OnGlobalPath, OnDynamicObstacle, TimePasses,
           plannerVars

LEMMA PublishedCommand ==
    ASSUME NEW pose, OnOdom(pose), NEW c,
           c = DriveCommand(pose, path, estop, CurrentAdvisory)
    PROVE  cmd'.speed = c.speed /\ cmd'.acceleration = c.acceleration
    BY DEF OnOdom, Stamped

(* Under an e-stop LocalPlannerNode._on_odom publishes full braking only.  *)
THEOREM EstopAlwaysBrakes == Spec => EstopBrakes
<1>1. ASSUME [Next]_plannerVars, estop, Published
      PROVE  estop' /\ cmd'.speed = 0 /\ cmd'.acceleration = -10
  <2>1. PICK pose \in OdomPoses : OnOdom(pose)
      BY <1>1, OnlyOdomPublishes
  <2> DEFINE c == DriveCommand(pose, path, estop, CurrentAdvisory)
  <2>2. c.speed = 0 /\ c.acceleration = -10
    <3>1. estop = TRUE
        BY <1>1
    <3> QED
        BY <3>1, DriveCommandLevels
  <2>3. cmd'.speed = c.speed /\ cmd'.acceleration = c.acceleration
      BY <2>1, PublishedCommand
  <2> QED
      BY <1>1, <2>1, <2>2, <2>3 DEF OnOdom
<1> QED
    BY <1>1, PTL DEF Spec, EstopBrakes

(* While an advisory other than clear is live, every command is slow and   *)
(* brakes, unless slow_speed_mps is configured negative.                   *)
THEOREM AdvisoriesSlowDown ==
    ASSUME SlowSpeed \in Nat PROVE Spec => AdvisoryBounds
<1>1. AdvisoryInv /\ [Next]_plannerVars
      => (Published /\ obstacle_age <= AdvisoryTimeout
          => \A a \in dynamic_obstacle : a.action # "clear" =>
                 cmd'.speed <= SlowSpeed * 10 /\ cmd'.acceleration < 0)
  <2> SUFFICES ASSUME AdvisoryInv, [Next]_plannerVars, Published,
                      obstacle_age <= AdvisoryTimeout,
                      NEW a \in dynamic_obstacle, a.action # "clear"
               PROVE  cmd'.speed <= SlowSpeed * 10 /\ cmd'.acceleration < 0
      OBVIOUS
  <2>1. PICK pose \in OdomPoses : OnOdom(pose)
      BY OnlyOdomPublishes
  <2> DEFINE c == DriveCommand(pose, path, estop, CurrentAdvisory)
  <2>2. Restrains(CurrentAdvisory)
    <3>1. CurrentAdvisory = dynamic_obstacle
        BY PlannerAssumption DEF CurrentAdvisory, AdvisoryInv
    <3>2. a.action \in {"slow", "stop", "detour"}
        BY DEF AdvisoryInv, Actions
    <3> QED
        BY <3>1, <3>2 DEF Restrains
  <2>3. c.speed <= Cap * 10 /\ c.acceleration < 0
      BY <2>2, DriveCommandLevels DEF AdvisoryInv
  <2>4. cmd'.speed = c.speed /\ cmd'.acceleration = c.acceleration
      BY <2>1, PublishedCommand
  <2> QED
      BY <2>3, <2>4, CapFacts
<1> QED
    BY <1>1, AdvisoryInvariant, PTL DEF Spec, AdvisoryBounds

-----------------------------------------------------------------------------
(* What an advisory that asks for no detour does to a command.             *)

(* The stored advisory asks for one thing only: a payload has one action.  *)
OneAction == \A a, b \in dynamic_obstacle : a.action = b.action

LEMMA OneActionInvariant == Spec => []OneAction
<1>1. Init => OneAction
    BY DEF Init, OneAction
<1>2. OneAction /\ [Next]_plannerVars => OneAction'
  <2> SUFFICES ASSUME OneAction, [Next]_plannerVars PROVE OneAction'
      OBVIOUS
  <2>1. ASSUME NEW p \in Payloads, OnDynamicObstacle(p)
        PROVE  OneAction'
    <3>1. \A a, b \in Parse(p) : a.action = b.action
        BY DEF Parse
    <3> QED
        BY <2>1, <3>1 DEF OnDynamicObstacle, OneAction
  <2>2. CASE UNCHANGED dynamic_obstacle
      BY <2>2 DEF OneAction
  <2> QED
      BY <2>1, <2>2 DEF Next, OnEstop, OnGlobalPath, OnOdom, TimePasses, plannerVars
<1> QED
    BY <1>1, <1>2, PTL DEF Spec

LEMMA NoDetourKeepsRoute ==
    ASSUME NEW pose, NEW route, NEW advisory, ~Advises(advisory, "detour")
    PROVE  WithDetour(pose, route, advisory) = route
    BY DEF WithDetour

LEMMA NobodyAdvises ==
    /\ \A action : ~Advises({}, action)
    /\ \A p : ApplyAdvisory(p, {}) = p
    BY DEF Advises, ApplyAdvisory

LEMMA AdvisoryKeepsSteering ==
    ASSUME NEW p, NEW advisory
    PROVE  ApplyAdvisory(p, advisory).steering = p.steering
    BY DEF ApplyAdvisory, Slowed

(* A plan that is slower and brakes harder is a slower command.            *)
LEMMA SlowerPlanSlowerCommand ==
    ASSUME NEW v \in Nat, NEW w \in Nat, w <= v,
           NEW b \in Brakes, NEW d \in Brakes, b <= d
    PROVE  w * (10 - d) <= v * (10 - b)
<1>1. CASE d = 10
    BY <1>1 DEF Brakes
<1>2. CASE d = 5
    BY <1>2 DEF Brakes
<1>3. CASE d = 2
    BY <1>3 DEF Brakes
<1>4. CASE d = 1
    BY <1>4 DEF Brakes
<1>5. CASE d = 0
    BY <1>5 DEF Brakes
<1> QED
    BY <1>1, <1>2, <1>3, <1>4, <1>5 DEF Brakes

LEMMA AdvisedIsSlower ==
    ASSUME NEW pose, NEW route, NEW stop \in BOOLEAN,
           NEW advisory, ~Advises(advisory, "detour"),
           NEW c, c = DriveCommand(pose, route, stop, advisory),
           NEW c0, c0 = DriveCommand(pose, route, stop, {})
    PROVE  /\ c.speed <= c0.speed
           /\ c.acceleration <= c0.acceleration
           /\ c.steering = c0.steering
<1> DEFINE brakes == stop \/ NearGoal(pose, route)
           p == Command(pose, route, brakes)
           q == ApplyAdvisory(p, advisory)
<1>1. IsPlan(p)
  <2>1. brakes \in BOOLEAN
      BY DEF NearGoal
  <2> QED
      BY <2>1, CommandIsPlan
<1>2. IsPlan(q) /\ q.velocity <= p.velocity /\ p.brake <= q.brake
    BY <1>1, AdvisedIsPlan
<1>3. q.steering = p.steering
    BY AdvisoryKeepsSteering
<1>4. c = ToAckermann(q)
    BY NoDetourKeepsRoute DEF DriveCommand
<1>5. c0 = ToAckermann(p)
    BY NoDetourKeepsRoute, NobodyAdvises DEF DriveCommand
<1> HIDE DEF p, q, brakes
<1>6. c.speed = q.velocity * (10 - q.brake) /\ c.acceleration = -q.brake
    BY <1>2, <1>4, AckermannOfPlan
<1>7. c0.speed = p.velocity * (10 - p.brake) /\ c0.acceleration = -p.brake
    BY <1>1, <1>5, AckermannOfPlan
<1>8. c.steering = c0.steering
    BY <1>3, <1>4, <1>5 DEF ToAckermann
<1>9. c.speed <= c0.speed
    BY <1>1, <1>2, <1>6, <1>7, SlowerPlanSlowerCommand DEF IsPlan
<1>10. c.acceleration <= c0.acceleration
    BY <1>1, <1>2, <1>6, <1>7 DEF IsPlan, Brakes
<1> QED
    BY <1>8, <1>9, <1>10

(* Only the e-stop, the goal and a path of no points brake fully.          *)
LEMMA FullBrakeHasReason ==
    ASSUME NEW pose, NEW route, NEW stop \in BOOLEAN,
           NEW p, p = Command(pose, route, stop), p.brake = 10
    PROVE  stop \/ route = << >>
<1> SUFFICES ASSUME ~(stop \/ route = << >>) PROVE FALSE
    OBVIOUS
<1> DEFINE target == LookaheadPoint(pose, route)
           offset == LocalY(pose, target)
<1>1. \/ p = [steering |-> 0, velocity |-> 0, brake |-> 5]
      \/ p = [steering |-> offset, velocity |-> TurnSpeed(offset), brake |-> 0]
    BY DEF Command
<1> HIDE DEF offset
<1>2. p.brake \in {0, 5}
    BY <1>1
<1> QED
    BY <1>2

(* Whatever makes the planner brake fully does so under every advisory.    *)
LEMMA AdvisedKeepsFullBrake ==
    ASSUME NEW pose, NEW route, NEW stop \in BOOLEAN, NEW advisory,
           NEW c, c = DriveCommand(pose, route, stop, advisory),
           NEW c0, c0 = DriveCommand(pose, route, stop, {}),
           c0.acceleration = -10
    PROVE  c.speed = 0 /\ c.acceleration = -10
<1> DEFINE brakes == stop \/ NearGoal(pose, route)
           r == WithDetour(pose, route, advisory)
           p0 == Command(pose, route, brakes)
           p == Command(pose, r, brakes)
           q == ApplyAdvisory(p, advisory)
<1>1. brakes \in BOOLEAN
    BY DEF NearGoal
<1>2. IsPlan(p0) /\ IsPlan(p)
    BY <1>1, CommandIsPlan
<1>3. c0 = ToAckermann(p0)
    BY NoDetourKeepsRoute, NobodyAdvises DEF DriveCommand
<1>4. p0.brake = 10
  <2>1. c0.acceleration = -p0.brake
      BY <1>2, <1>3, AckermannOfPlan
  <2>2. p0.brake \in Brakes
      BY <1>2 DEF IsPlan
  <2> HIDE DEF p0
  <2> QED
      BY <2>1, <2>2 DEF Brakes
<1>5. brakes \/ route = << >>
    BY <1>1, <1>4, FullBrakeHasReason
<1>6. route = << >> => r = << >>
    BY DEF WithDetour
<1>7. p = FullStop
    BY <1>5, <1>6 DEF Command
<1>8. p.velocity = 0 /\ p.brake = 10
    BY <1>7 DEF FullStop
<1>9. IsPlan(q) /\ q.velocity <= p.velocity /\ p.brake <= q.brake
    BY <1>2, AdvisedIsPlan
<1>10. c = ToAckermann(q)
    BY DEF DriveCommand
<1> HIDE DEF p, q
<1>11. q.velocity = 0 /\ q.brake = 10
    BY <1>8, <1>9 DEF IsPlan, Brakes
<1>12. c.speed = q.velocity * (10 - q.brake) /\ c.acceleration = -q.brake
    BY <1>9, <1>10, AckermannOfPlan
<1> QED
    BY <1>11, <1>12

LEMMA NothingAdvised ==
    ASSUME NEW pose, NEW route, NEW stop, NEW advisory, ~Restrains(advisory)
    PROVE  DriveCommand(pose, route, stop, advisory) = DriveCommand(pose, route, stop, {})
<1>1. ~Advises(advisory, "stop") /\ ~Advises(advisory, "slow") /\ ~Advises(advisory, "detour")
    BY DEF Restrains, Advises
<1>2. \A p : ApplyAdvisory(p, advisory) = p
    BY <1>1 DEF ApplyAdvisory
<1> QED
    BY <1>1, <1>2, NoDetourKeepsRoute, NobodyAdvises DEF DriveCommand

(* slow and stop take speed away, add brake and leave the steering alone;  *)
(* clear and an advisory that is out of date change nothing; no advisory,  *)
(* not even a detour, releases a full brake: the commands of               *)
(* LocalPlannerNode._on_odom compared with those it would publish if no    *)
(* advisory had ever come.                                                 *)
THEOREM AdvisoriesHaveLimits == Spec => AdvisoryHasLimits
<1>1. AdvisoryInv /\ OneAction /\ [Next]_plannerVars
      => (Published => \A a \in dynamic_obstacle : a.action \in {"slow", "stop"} =>
             /\ cmd'.speed <= Unadvised(odom').speed
             /\ cmd'.acceleration <= Unadvised(odom').acceleration
             /\ cmd'.steering = Unadvised(odom').steering)
  <2> SUFFICES ASSUME AdvisoryInv, OneAction, [Next]_plannerVars, Published,
                      NEW a \in dynamic_obstacle, a.action \in {"slow", "stop"}
               PROVE  /\ cmd'.speed <= Unadvised(odom').speed
                      /\ cmd'.acceleration <= Unadvised(odom').acceleration
                      /\ cmd'.steering = Unadvised(odom').steering
      OBVIOUS
  <2>1. PICK pose \in OdomPoses : OnOdom(pose)
      BY OnlyOdomPublishes
  <2> DEFINE c == DriveCommand(pose, path, estop, CurrentAdvisory)
             c0 == DriveCommand(pose, path, estop, {})
  <2>2. ~Advises(CurrentAdvisory, "detour")
      BY DEF CurrentAdvisory, Advises, OneAction
  <2>3. /\ c.speed <= c0.speed /\ c.acceleration <= c0.acceleration
        /\ c.steering = c0.steering
      BY <2>2, AdvisedIsSlower DEF AdvisoryInv
  <2>4. cmd' = Stamped(c) /\ Unadvised(odom') = c0
      BY <2>1 DEF OnOdom, Unadvised
  <2> QED
      BY <2>3, <2>4 DEF Stamped
<1>2. AdvisoryInv /\ [Next]_plannerVars
      => (Published /\ obstacle_age > AdvisoryTimeout
             => cmd' = Stamped(Unadvised(odom')))
  <2> SUFFICES ASSUME [Next]_plannerVars, Published, obstacle_age > AdvisoryTimeout
               PROVE  cmd' = Stamped(Unadvised(odom'))
      OBVIOUS
  <2>1. PICK pose \in OdomPoses : OnOdom(pose)
      BY OnlyOdomPublishes
  <2>2. CurrentAdvisory = {}
      BY DEF CurrentAdvisory
  <2> QED
      BY <2>1, <2>2 DEF OnOdom, Unadvised
<1>3. AdvisoryInv /\ [Next]_plannerVars
      => (Published /\ Unadvised(odom').acceleration = -10
             => cmd'.speed = 0 /\ cmd'.acceleration = -10)
  <2> SUFFICES ASSUME AdvisoryInv, [Next]_plannerVars, Published,
                      Unadvised(odom').acceleration = -10
               PROVE  cmd'.speed = 0 /\ cmd'.acceleration = -10
      OBVIOUS
  <2>1. PICK pose \in OdomPoses : OnOdom(pose)
      BY OnlyOdomPublishes
  <2> DEFINE c == DriveCommand(pose, path, estop, CurrentAdvisory)
             c0 == DriveCommand(pose, path, estop, {})
  <2>2. c0.acceleration = -10
      BY <2>1 DEF OnOdom, Unadvised
  <2>3. c.speed = 0 /\ c.acceleration = -10
      BY <2>2, AdvisedKeepsFullBrake DEF AdvisoryInv
  <2> QED
      BY <2>1, <2>3, PublishedCommand
<1>4. OneAction /\ [Next]_plannerVars
      => (Published => \A a \in dynamic_obstacle : a.action = "clear" =>
             cmd' = Stamped(Unadvised(odom')))
  <2> SUFFICES ASSUME OneAction, [Next]_plannerVars, Published,
                      NEW a \in dynamic_obstacle, a.action = "clear"
               PROVE  cmd' = Stamped(Unadvised(odom'))
      OBVIOUS
  <2>1. PICK pose \in OdomPoses : OnOdom(pose)
      BY OnlyOdomPublishes
  <2>2. ~Restrains(CurrentAdvisory)
      BY DEF CurrentAdvisory, Restrains, OneAction
  <2>3. DriveCommand(pose, path, estop, CurrentAdvisory) = DriveCommand(pose, path, estop, {})
      BY <2>2, NothingAdvised
  <2> QED
      BY <2>1, <2>3 DEF OnOdom, Unadvised
<1>5. Spec => SlowerOnly
    BY <1>1, AdvisoryInvariant, OneActionInvariant, PTL DEF Spec, SlowerOnly
<1>6. Spec => StaleIsForgotten
    BY <1>2, AdvisoryInvariant, PTL DEF Spec, StaleIsForgotten
<1>7. Spec => FullBrakeStays
    BY <1>3, AdvisoryInvariant, PTL DEF Spec, FullBrakeStays
<1>8. Spec => ClearDoesNothing
    BY <1>4, OneActionInvariant, PTL DEF Spec, ClearDoesNothing
<1> QED
    BY <1>5, <1>6, <1>7, <1>8 DEF AdvisoryHasLimits

-----------------------------------------------------------------------------
(* Least and greatest numbers of a set.                                    *)

LEMMA LeastNat ==
    ASSUME NEW T, T \subseteq Nat, T # {}
    PROVE  \E n \in T : \A m \in T : n <= m
<1>1. PICK n \in T : \A m \in T : ~(<<m, n>> \in OpToRel(<, Nat))
    BY WFMin, NatLessThanWellFounded
<1>2. \A m \in T : ~(m < n)
    BY <1>1 DEF OpToRel
<1> QED
    BY <1>2

LEMMA MinIsLeast ==
    ASSUME NEW T, T \subseteq Nat, T # {}
    PROVE  Min(T) \in T /\ \A m \in T : Min(T) <= m
    BY LeastNat DEF Min

LEMMA MaxIsGreatest ==
    ASSUME NEW T, T \subseteq Nat, T # {}, NEW top \in Nat, \A m \in T : m <= top
    PROVE  Max(T) \in T /\ \A m \in T : Max(T) >= m
<1> DEFINE Below == {top - m : m \in T}
<1>1. Below \subseteq Nat /\ Below # {}
  <2>1. \A m \in T : top - m \in Nat
      OBVIOUS
  <2>2. PICK m \in T : TRUE
      OBVIOUS
  <2>3. top - m \in Below
      OBVIOUS
  <2> QED
      BY <2>1, <2>3
<1>2. PICK b \in Below : \A c \in Below : b <= c
    BY <1>1, LeastNat
<1>3. PICK n \in T : b = top - n
    OBVIOUS
<1>4. \A m \in T : n >= m
  <2> TAKE m \in T
  <2>1. top - m \in Below
      OBVIOUS
  <2>2. top - n <= top - m
      BY <1>2, <1>3, <2>1
  <2> QED
      BY <2>2
<1> QED
    BY <1>4 DEF Max

LEMMA NatInd ==
    ASSUME NEW T, T \subseteq Nat, 0 \in T, \A n \in T : n + 1 \in T
    PROVE  T = Nat
<1> SUFFICES ASSUME Nat \ T # {} PROVE FALSE
    OBVIOUS
<1>1. PICK n \in Nat \ T : \A m \in Nat \ T : n <= m
    BY LeastNat
<1>2. n - 1 \in Nat
    BY <1>1
<1>3. n - 1 \in T
    BY <1>1, <1>2
<1> QED
    BY <1>1, <1>3

-----------------------------------------------------------------------------
(* The geometry of a detour.                                               *)

LEMMA PoseTypes ==
    ASSUME NEW pose \in Poses
    PROVE  /\ pose.x \in Int /\ pose.y \in Int
           /\ \/ Cos(pose.yaw) = 1 /\ Sin(pose.yaw) = 0
              \/ Cos(pose.yaw) = -1 /\ Sin(pose.yaw) = 0
              \/ Cos(pose.yaw) = 0 /\ Sin(pose.yaw) = 1
              \/ Cos(pose.yaw) = 0 /\ Sin(pose.yaw) = -1
    BY DEF Poses, Cos, Sin

LEMMA LocalTypes ==
    ASSUME NEW pose \in Poses, NEW q \in Points
    PROVE  LocalX(pose, q) \in Int /\ LocalY(pose, q) \in Int
<1>1. q.x \in Int /\ q.y \in Int
    BY DEF Points
<1> QED
    BY <1>1, PoseTypes DEF LocalX, LocalY

LEMMA SquaresGrow ==
    ASSUME NEW f \in Nat, NEW k \in Nat, k <= f, NEW l \in Int
    PROVE  f * f + l * l >= k * k
<1>1. f * f >= f * k /\ f * k >= k * k
    OBVIOUS
<1>2. l * l >= 0
    OBVIOUS
<1>3. f * f \in Int /\ k * k \in Int /\ l * l \in Int /\ f * k \in Int
    OBVIOUS
<1> QED
    BY <1>1, <1>2, <1>3

(* A point f ahead and l to the left is f ahead and l to the left.         *)
LEMMA LocalOfMap ==
    ASSUME NEW pose \in Poses, NEW f \in Int, NEW l \in Int,
           NEW q, q = LocalToMap(pose, f, l)
    PROVE  /\ q \in Points
           /\ LocalX(pose, q) = f /\ LocalY(pose, q) = l
           /\ SqDist(pose, q) = f * f + l * l
<1>1. q.x = pose.x + Cos(pose.yaw) * f - Sin(pose.yaw) * l
    BY DEF LocalToMap
<1>2. q.y = pose.y + Sin(pose.yaw) * f + Cos(pose.yaw) * l
    BY DEF LocalToMap
<1>3. q \in Points
    BY PoseTypes DEF LocalToMap, Points
<1>4. CASE Cos(pose.yaw) = 1 /\ Sin(pose.yaw) = 0
  <2>1. q.x - pose.x = f /\ q.y - pose.y = l
      BY <1>1, <1>2, <1>4, PoseTypes
  <2> QED
      BY <1>3, <1>4, <2>1 DEF LocalX, LocalY, SqDist
<1>5. CASE Cos(pose.yaw) = -1 /\ Sin(pose.yaw) = 0
  <2>1. q.x - pose.x = -f /\ q.y - pose.y = -l
      BY <1>1, <1>2, <1>5, PoseTypes
  <2>2. SqDist(pose, q) = (-f) * (-f) + (-l) * (-l)
      BY <2>1 DEF SqDist
  <2> QED
      BY <1>3, <1>5, <2>1, <2>2 DEF LocalX, LocalY
<1>6. CASE Cos(pose.yaw) = 0 /\ Sin(pose.yaw) = 1
  <2>1. q.x - pose.x = -l /\ q.y - pose.y = f
      BY <1>1, <1>2, <1>6, PoseTypes
  <2>2. SqDist(pose, q) = (-l) * (-l) + f * f
      BY <2>1 DEF SqDist
  <2> QED
      BY <1>3, <1>6, <2>1, <2>2 DEF LocalX, LocalY
<1>7. CASE Cos(pose.yaw) = 0 /\ Sin(pose.yaw) = -1
  <2>1. q.x - pose.x = l /\ q.y - pose.y = -f
      BY <1>1, <1>2, <1>7, PoseTypes
  <2>2. SqDist(pose, q) = l * l + (-f) * (-f)
      BY <2>1 DEF SqDist
  <2> QED
      BY <1>3, <1>7, <2>1, <2>2 DEF LocalX, LocalY
<1> QED
    BY <1>4, <1>5, <1>6, <1>7, PoseTypes

(* A first point that is ahead and far enough is the one to aim at.        *)
LEMMA FirstPointIsTarget ==
    ASSUME NEW pose, NEW route \in Seq(Points), route # << >>,
           LocalX(pose, route[1]) > 0,
           SqDist(pose, route[1]) >= Lookahead * Lookahead
    PROVE  LookaheadPoint(pose, route) = route[1]
<1>1. 1 \in Far(pose, route) /\ Far(pose, route) \subseteq Nat \ {0}
    BY DEF Far, Ahead
<1>2. Min(Far(pose, route)) = 1
    BY <1>1 DEF Min
<1> QED
    BY <1>1, <1>2 DEF LookaheadPoint

LEMMA IndexOfRoute ==
    ASSUME NEW pose, NEW route \in Seq(Points), route # << >>,
           NEW T, T \subseteq DOMAIN route
    PROVE  /\ T # {} => Min(T) \in DOMAIN route /\ Max(T) \in DOMAIN route
           /\ Len(route) \in DOMAIN route
<1>1. DOMAIN route = 1 .. Len(route) /\ Len(route) \in Nat \ {0}
    OBVIOUS
<1>2. ASSUME T # {} PROVE Min(T) \in T /\ Max(T) \in T
  <2>1. T \subseteq Nat /\ \A n \in T : n <= Len(route)
      BY <1>1
  <2> QED
      BY <1>1, <1>2, <2>1, MinIsLeast, MaxIsGreatest
<1> QED
    BY <1>1, <1>2

LEMMA TargetIsPoint ==
    ASSUME NEW pose, NEW route \in Seq(Points), route # << >>
    PROVE  LookaheadPoint(pose, route) \in Points
<1>1. Far(pose, route) \subseteq DOMAIN route /\ Ahead(pose, route) \subseteq DOMAIN route
    BY DEF Far, Ahead
<1>2. \A i \in DOMAIN route : route[i] \in Points
    OBVIOUS
<1> QED
    BY <1>1, <1>2, IndexOfRoute DEF LookaheadPoint

(* One advisory at most is stored; with a detour the route begins with the *)
(* bypass point.                                                           *)
AtMostOne(advisory) == \A a, b \in advisory : a = b

BypassPoint(pose, a) ==
    LocalToMap(pose, Max({a.forward, MinForward}),
               IF a.lateral = 0 THEN DefaultLateral ELSE a.lateral)

LEMMA DetourRoute ==
    ASSUME NEW pose \in Poses, NEW route \in Seq(Points), route # << >>,
           NEW advisory, advisory \subseteq Advisories, AtMostOne(advisory),
           NEW r, r = WithDetour(pose, route, advisory)
    PROVE  /\ r \in Seq(Points) /\ r # << >>
           /\ \A a \in advisory : a.action = "detour" => r[1] = BypassPoint(pose, a)
<1>1. CASE ~Advises(advisory, "detour")
    BY <1>1 DEF WithDetour, Advises
<1>2. CASE Advises(advisory, "detour")
  <2>1. PICK a \in advisory : a.action = "detour"
      BY <1>2 DEF Advises
  <2>2. (CHOOSE b \in advisory : TRUE) = a
      BY <2>1 DEF AtMostOne
  <2> DEFINE beyond == {i \in DOMAIN route : LocalX(pose, route[i]) >= MergeForward}
             merge == route[IF beyond = {} THEN Len(route) ELSE Min(beyond)]
  <2>3. r = <<BypassPoint(pose, a), merge>> \o route
      BY <1>2, <2>2 DEF WithDetour, BypassPoint
  <2>4. merge \in Points
    <3>1. beyond \subseteq DOMAIN route
        OBVIOUS
    <3>2. (IF beyond = {} THEN Len(route) ELSE Min(beyond)) \in DOMAIN route
        BY <3>1, IndexOfRoute
    <3> QED
        BY <3>2
  <2>5. BypassPoint(pose, a) \in Points
    <3>1. a.forward \in Int /\ a.lateral \in Int
        BY DEF Advisories
    <3>2. Max({a.forward, MinForward}) \in Int
        BY <3>1, MaxPair, PursuitAssumption
    <3>3. (IF a.lateral = 0 THEN DefaultLateral ELSE a.lateral) \in Int
        BY <3>1, PursuitAssumption
    <3> QED
        BY <3>2, <3>3, LocalOfMap DEF BypassPoint
  <2> HIDE DEF merge
  <2>6. r \in Seq(Points) /\ Len(r) = Len(route) + 2 /\ r[1] = BypassPoint(pose, a)
      BY <2>3, <2>4, <2>5
  <2> QED
      BY <2>1, <2>6 DEF AtMostOne
<1> QED
    BY <1>1, <1>2

(* Steering is left alone by what comes after the pure pursuit.            *)
LEMMA SteeringIsPlanned ==
    ASSUME NEW pose, NEW route, NEW stop, NEW advisory
    PROVE  DriveCommand(pose, route, stop, advisory).steering =
           Command(pose, WithDetour(pose, route, advisory),
                   stop \/ NearGoal(pose, route)).steering
    BY AdvisoryKeepsSteering DEF DriveCommand, ToAckermann

LEMMA DetourIsSteered ==
    ASSUME NEW pose \in Poses, NEW route \in Seq(Points), route # << >>,
           NEW advisory, advisory \subseteq Advisories, AtMostOne(advisory),
           NEW a \in advisory, a.action = "detour", a.lateral # 0,
           a.forward >= Lookahead, ~NearGoal(pose, route)
    PROVE  DriveCommand(pose, route, FALSE, advisory).steering = a.lateral
<1> DEFINE r == WithDetour(pose, route, advisory)
           f == Max({a.forward, MinForward})
<1>1. a.forward \in Int /\ a.lateral \in Int
    BY DEF Advisories
<1>2. f \in Nat /\ f > 0 /\ f >= Lookahead
    BY <1>1, MaxPair, PursuitAssumption
<1>3. r \in Seq(Points) /\ r # << >> /\ r[1] = LocalToMap(pose, f, a.lateral)
    BY DetourRoute DEF BypassPoint
<1> HIDE DEF r, f
<1>4. /\ LocalX(pose, r[1]) = f /\ LocalY(pose, r[1]) = a.lateral
      /\ SqDist(pose, r[1]) = f * f + a.lateral * a.lateral
    BY <1>1, <1>2, <1>3, LocalOfMap
<1>5. SqDist(pose, r[1]) >= Lookahead * Lookahead
    BY <1>1, <1>2, <1>4, SquaresGrow, PursuitAssumption
<1>6. LookaheadPoint(pose, r) = r[1]
    BY <1>2, <1>3, <1>4, <1>5, FirstPointIsTarget
<1>7. Command(pose, r, FALSE \/ NearGoal(pose, route)).steering = a.lateral
    BY <1>2, <1>3, <1>4, <1>6 DEF Command
<1> QED
    BY <1>7, SteeringIsPlanned DEF r

-----------------------------------------------------------------------------
(* The types of the planner, step by step.                                 *)

(* What the invariant about detours needs of them.                         *)
PlannerInv ==
    /\ path \in Seq(Points) /\ path # << >>
    /\ estop \in BOOLEAN
    /\ dynamic_obstacle \subseteq Advisories /\ AtMostOne(dynamic_obstacle)
    /\ obstacle_age \in 0 .. AdvisoryTimeout + 1
    /\ odom \in Poses

LEMMA ParsedAdvisory ==
    ASSUME NEW p, IsPayload(p)
    PROVE  Parse(p) \subseteq Advisories /\ AtMostOne(Parse(p))
    BY DEF IsPayload, Parse, Advisories, Actions, AtMostOne

LEMMA PlannerInit == Init => PlannerInv
<1> SUFFICES ASSUME Init PROVE PlannerInv
    OBVIOUS
<1>1. path = InitialPath /\ dynamic_obstacle = {} /\ odom \in OdomPoses
    BY Zenon DEF Init
<1>2. obstacle_age = AdvisoryTimeout + 1
    BY Zenon DEF Init
<1>3. estop = FALSE
    BY Zenon DEF Init
<1>4. obstacle_age \in 0 .. AdvisoryTimeout + 1
    BY <1>2, PlannerAssumption
<1>5. path \in Seq(Points) /\ path # << >> /\ odom \in Poses
    BY <1>1, PlannerAssumption
<1>6. dynamic_obstacle \subseteq Advisories /\ AtMostOne(dynamic_obstacle)
    BY <1>1 DEF AtMostOne
<1> QED
    BY <1>3, <1>4, <1>5, <1>6, Zenon DEF PlannerInv

(* A message of any publisher of the topic may reach the planner.          *)
LEMMA PlannerStep ==
    ASSUME PlannerInv,
           \/ [Next]_plannerVars
           \/ \E p : IsPayload(p) /\ OnDynamicObstacle(p)
    PROVE  PlannerInv'
<1>1. ASSUME NEW value \in BOOLEAN, OnEstop(value)
      PROVE  PlannerInv'
    BY <1>1 DEF OnEstop, PlannerInv
<1>2. ASSUME NEW poses \in GlobalPaths, OnGlobalPath(poses)
      PROVE  PlannerInv'
  <2>1. path' = path \/ (path' = poses /\ ~(Len(poses) < 2))
      BY <1>2 DEF OnGlobalPath
  <2>2. poses \in Seq(Points)
      BY PlannerAssumption
  <2>3. path' \in Seq(Points) /\ path' # << >>
      BY <2>1, <2>2 DEF PlannerInv
  <2> QED
      BY <1>2, <2>3 DEF OnGlobalPath, PlannerInv
<1>3. ASSUME NEW p, IsPayload(p), OnDynamicObstacle(p)
      PROVE  PlannerInv'
  <2>1. CASE Parse(p) = {}
      BY <1>3, <2>1 DEF OnDynamicObstacle, PlannerInv
  <2>2. CASE Parse(p) # {}
    <3>1. dynamic_obstacle' = Parse(p) /\ obstacle_age' = 0
          /\ UNCHANGED <<path, estop, odom>>
        BY <1>3, <2>2 DEF OnDynamicObstacle
    <3>2. obstacle_age' \in 0 .. AdvisoryTimeout + 1
        BY <3>1, PlannerAssumption
    <3>3. dynamic_obstacle' \subseteq Advisories /\ AtMostOne(dynamic_obstacle')
        BY <1>3, <3>1, ParsedAdvisory
    <3> QED
        BY <3>1, <3>2, <3>3 DEF PlannerInv, AtMostOne
  <2> QED
      BY <2>1, <2>2
<1>4. ASSUME NEW pose \in OdomPoses, OnOdom(pose)
      PROVE  PlannerInv'
    BY <1>4, PlannerAssumption DEF OnOdom, PlannerInv
<1>5. CASE TimePasses
  <2>1. obstacle_age' \in 0 .. AdvisoryTimeout + 1
      BY <1>5, PlannerAssumption DEF TimePasses, PlannerInv
  <2> QED
      BY <1>5, <2>1 DEF TimePasses, PlannerInv
<1>6. CASE UNCHANGED plannerVars
    BY <1>6 DEF plannerVars, PlannerInv
<1>7. \A p \in Payloads : IsPayload(p)
    BY PlannerAssumption
<1> QED
    BY <1>1, <1>2, <1>3, <1>4, <1>5, <1>6, <1>7 DEF Next

(* What is published while a detour is live.                               *)
LEMMA DetourStep ==
    ASSUME PlannerInv, [Next]_plannerVars, Published,
           obstacle_age <= AdvisoryTimeout, ~estop, ~NearGoal(odom', path),
           NEW a \in dynamic_obstacle, a.action = "detour", a.lateral # 0,
           a.forward >= Lookahead
    PROVE  cmd'.steering = a.lateral
<1>1. PICK pose \in OdomPoses : OnOdom(pose)
    BY OnlyOdomPublishes
<1>2. odom' = pose /\ pose \in Poses
    BY <1>1, PlannerAssumption DEF OnOdom
<1>3. CurrentAdvisory = dynamic_obstacle
    BY PlannerAssumption DEF CurrentAdvisory, PlannerInv
<1>4. DriveCommand(pose, path, FALSE, dynamic_obstacle).steering = a.lateral
    BY <1>2, DetourIsSteered DEF PlannerInv
<1>5. estop = FALSE
    BY Zenon DEF PlannerInv
<1>6. cmd'.steering = DriveCommand(pose, path, estop, CurrentAdvisory).steering
    BY <1>1 DEF OnOdom, Stamped
<1> QED
    BY <1>3, <1>4, <1>5, <1>6

(* The numbers of the command.                                             *)
LEMMA CommandTypes ==
    ASSUME NEW pose \in Poses, NEW route \in Seq(Points), route # << >>, NEW stop \in BOOLEAN,
           NEW advisory, advisory \subseteq Advisories, AtMostOne(advisory),
           NEW c, c = DriveCommand(pose, route, stop, advisory)
    PROVE  c.speed \in Nat /\ c.acceleration \in -10 .. 0 /\ c.steering \in Int
<1> DEFINE r == WithDetour(pose, route, advisory)
           brakes == stop \/ NearGoal(pose, route)
           p == Command(pose, r, brakes)
           q == ApplyAdvisory(p, advisory)
<1>1. brakes \in BOOLEAN
    BY DEF NearGoal
<1>2. r \in Seq(Points) /\ r # << >>
    BY DetourRoute
<1>3. c = ToAckermann(q)
    BY DEF DriveCommand
<1> HIDE DEF r, brakes
<1>4. IsPlan(p)
    BY <1>1, CommandIsPlan
<1>5. p.steering \in Int
  <2>1. LocalY(pose, LookaheadPoint(pose, r)) \in Int
      BY <1>2, TargetIsPoint, LocalTypes
  <2> QED
      BY <2>1 DEF Command, FullStop
<1>6. IsPlan(q)
    BY <1>4, AdvisedIsPlan
<1>7. q.steering \in Int
    BY <1>5, AdvisoryKeepsSteering
<1> HIDE DEF p, q
<1>8. c.speed = q.velocity * (10 - q.brake) /\ c.acceleration = -q.brake
      /\ c.steering = q.steering
    BY <1>3, <1>6, AckermannOfPlan DEF ToAckermann
<1>9. q.velocity \in Nat /\ q.brake \in {0, 1, 2, 5, 10}
    BY <1>6 DEF IsPlan, Brakes
<1>10. c.speed \in Nat
    BY <1>8, <1>9
<1>11. c.acceleration \in -10 .. 0
    BY <1>8, <1>9
<1> QED
    BY <1>7, <1>8, <1>10, <1>11

CmdTypes ==
    /\ cmd.speed \in Nat /\ cmd.acceleration \in -10 .. 0
    /\ cmd.steering \in Int /\ cmd.stamp \in BOOLEAN

LEMMA CmdTypesStep ==
    ASSUME PlannerInv, CmdTypes,
           \/ [Next]_plannerVars
           \/ \E p : IsPayload(p) /\ OnDynamicObstacle(p)
    PROVE  CmdTypes'
<1>1. ASSUME NEW pose \in OdomPoses, OnOdom(pose) PROVE CmdTypes'
  <2> DEFINE c == DriveCommand(pose, path, estop, CurrentAdvisory)
  <2>1. CurrentAdvisory \subseteq Advisories /\ AtMostOne(CurrentAdvisory)
      BY DEF CurrentAdvisory, PlannerInv, AtMostOne
  <2>2. pose \in Poses
      BY PlannerAssumption
  <2>3. c.speed \in Nat /\ c.acceleration \in -10 .. 0 /\ c.steering \in Int
      BY <2>1, <2>2, CommandTypes DEF PlannerInv
  <2> HIDE DEF c
  <2>4. cmd' = Stamped(c)
      BY <1>1 DEF OnOdom, c
  <2>5. /\ cmd'.speed = c.speed /\ cmd'.acceleration = c.acceleration
        /\ cmd'.steering = c.steering
      BY <2>4 DEF Stamped
  <2>6. cmd'.stamp \in BOOLEAN
      BY <2>4, Zenon DEF Stamped
  <2> QED
      BY <2>3, <2>5, <2>6 DEF CmdTypes
<1>2. CASE UNCHANGED cmd
    BY <1>2 DEF CmdTypes
<1> QED
    BY <1>1, <1>2 DEF Next, OnEstop, OnGlobalPath, OnDynamicObstacle, TimePasses, plannerVars

LEMMA CmdTypesInit == Init => CmdTypes
<1>1. -10 \in -10 .. 0 /\ 0 \in -10 .. 0
    OBVIOUS
<1>2. ASSUME Init PROVE cmd = NoCommand
    BY <1>2, Zenon DEF Init
<1>3. NoCommand.speed = 0 /\ NoCommand.acceleration = 0 /\ NoCommand.steering = 0
      /\ NoCommand.stamp = TRUE
    BY DEF NoCommand
<1>4. ASSUME Init PROVE cmd.speed \in Nat /\ cmd.acceleration \in -10 .. 0 /\ cmd.steering \in Int
    BY <1>1, <1>2, <1>3, <1>4
<1>5. ASSUME Init PROVE cmd.stamp \in BOOLEAN
    BY <1>2, <1>3, <1>5, Zenon
<1> QED
    BY <1>4, <1>5, Zenon DEF CmdTypes

(* A live detour steers, for every route, pose and lookahead: the bypass   *)
(* point comes first on the path that path_with_dynamic_detour makes, and  *)
(* first_waypoint_ahead takes it.                                          *)
THEOREM DetoursSteer == Spec => DetourSteers
<1>1. PlannerInv /\ [Next]_plannerVars
      => (Published /\ obstacle_age <= AdvisoryTimeout /\ ~estop /\ ~NearGoal(odom', path)
          => \A a \in dynamic_obstacle :
                a.action = "detour" /\ a.lateral # 0 /\ a.forward >= Lookahead
                => cmd'.steering = a.lateral)
    BY DetourStep
<1>2. PlannerInv /\ [Next]_plannerVars => PlannerInv'
    BY PlannerStep
<1> QED
    BY <1>1, <1>2, PlannerInit, PTL DEF Spec, DetourSteers

-----------------------------------------------------------------------------
(* The search of route_graph.py and astar.py.                              *)

(* A function defined from its value before.                               *)
Iterates(g, S, base, step, k) ==
    /\ g \in [0 .. k -> S] /\ g[0] = base
    /\ \A j \in 1 .. k : g[j] = step[j][g[j - 1]]

(* The hypotheses under which such a function exists.                      *)
Iterable(S, base, step, n) == n \in Nat /\ base \in S /\ step \in [1 .. n -> [S -> S]]

LEMMA Recursion ==
    ASSUME NEW S, NEW n, NEW base, NEW step, Iterable(S, base, step, n)
    PROVE  \E g : Iterates(g, S, base, step, n)
<1> DEFINE T == {k \in Nat : k <= n => \E g : Iterates(g, S, base, step, k)}
<1>1. \E g : Iterates(g, S, base, step, 0)
  <2> DEFINE h == [j \in 0 .. 0 |-> base]
  <2>1. Iterates(h, S, base, step, 0)
      BY DEF Iterates, Iterable
  <2> QED
      BY <2>1
<1>2. ASSUME NEW k \in Nat, k + 1 <= n, NEW g, Iterates(g, S, base, step, k)
      PROVE  \E h : Iterates(h, S, base, step, k + 1)
  <2> DEFINE h == [j \in 0 .. k + 1 |-> IF j = k + 1 THEN step[k + 1][g[k]] ELSE g[j]]
  <2>1. g[k] \in S /\ step[k + 1] \in [S -> S]
      BY <1>2 DEF Iterates, Iterable
  <2>2. h \in [0 .. k + 1 -> S]
      BY <1>2, <2>1 DEF Iterates
  <2>3. h[0] = base
      BY <1>2 DEF Iterates
  <2>4. ASSUME NEW j \in 1 .. k + 1 PROVE h[j] = step[j][h[j - 1]]
    <3>1. CASE j = k + 1
        BY <3>1
    <3>2. CASE j # k + 1
      <4>1. j \in 1 .. k /\ j - 1 \in 0 .. k + 1 /\ j - 1 # k + 1 /\ j \in 0 .. k + 1
          BY <3>2
      <4>2. g[j] = step[j][g[j - 1]]
          BY <1>2, <4>1 DEF Iterates
      <4> QED
          BY <3>2, <4>1, <4>2
    <3> QED
        BY <3>1, <3>2
  <2> HIDE DEF h
  <2>5. Iterates(h, S, base, step, k + 1)
      BY <2>2, <2>3, <2>4 DEF Iterates
  <2> QED
      BY <2>5
<1>3. 0 \in T /\ \A k \in T : k + 1 \in T
  <2>1. ASSUME NEW k \in T PROVE k + 1 \in T
    <3>1. k \in Nat /\ n \in Nat
        BY DEF Iterable
    <3>2. CASE k + 1 <= n
        BY <1>2, <3>1, <3>2
    <3>3. CASE ~(k + 1 <= n)
        BY <3>1, <3>3
    <3> QED
        BY <3>2, <3>3
  <2> QED
      BY <1>1, <2>1
<1>4. T \subseteq Nat
    OBVIOUS
<1> HIDE DEF T
<1>5. T = Nat
    BY <1>3, <1>4, NatInd
<1>6. n \in T /\ n <= n
    BY <1>5 DEF Iterable
<1> QED
    BY <1>6 DEF T

(* The turns of a search that stay in a set of memories.                   *)
Kept(p, S) == Started(p) \in S /\ \A s \in S : Turn(p, s) \in S

(* g is the whole run of the search, one memory for each turn.             *)
Runs(p, S, g) ==
    /\ g \in [0 .. MaxTurns(p) -> S]
    /\ g[0] = Started(p)
    /\ \A k \in 1 .. MaxTurns(p) : g[k] = Turn(p, g[k - 1])
    /\ Search(p) = {g[MaxTurns(p)]}

LEMMA TurnsStay ==
    ASSUME NEW p, NEW S, MaxTurns(p) \in Nat, Kept(p, S)
    PROVE  \E g : Runs(p, S, g)
<1> DEFINE n == MaxTurns(p)
           step == [k \in 1 .. n |-> [s \in S |-> Turn(p, s)]]
           Rec(f) == f = [k \in 0 .. n |-> IF k = 0 THEN {Started(p)}
                                           ELSE {Turn(p, s) : s \in f[k - 1]}]
<1>1. Iterable(S, Started(p), step, n)
    BY DEF Kept, Iterable
<1> HIDE DEF step
<1>2. PICK g : Iterates(g, S, Started(p), step, n)
    BY <1>1, Recursion
<1>3. g \in [0 .. n -> S] /\ g[0] = Started(p)
    BY <1>2 DEF Iterates
<1>31. ASSUME NEW k \in 1 .. n PROVE g[k] = Turn(p, g[k - 1])
  <2>1. k - 1 \in 0 .. n /\ g[k] = step[k][g[k - 1]]
      BY <1>2 DEF Iterates
  <2>2. g[k - 1] \in S
      BY <1>3, <2>1
  <2> QED
      BY <2>1, <2>2 DEF step
<1>4. Rec([k \in 0 .. n |-> {g[k]}])
  <2> DEFINE f == [k \in 0 .. n |-> {g[k]}]
  <2>1. ASSUME NEW k \in 0 .. n
        PROVE  f[k] = IF k = 0 THEN {Started(p)} ELSE {Turn(p, s) : s \in f[k - 1]}
    <3>1. CASE k = 0
        BY <1>3, <3>1
    <3>2. CASE k # 0
      <4>1. k \in 1 .. n /\ k - 1 \in 0 .. n
          BY <3>2
      <4>2. f[k - 1] = {g[k - 1]}
          BY <4>1
      <4>3. {Turn(p, s) : s \in f[k - 1]} = {g[k]}
          BY <1>31, <4>1, <4>2
      <4> QED
          BY <3>2, <4>3
    <3> QED
        BY <3>1, <3>2
  <2> QED
      BY <2>1
<1> DEFINE F == Turns(p)
<1>5. F = [k \in 0 .. n |-> IF k = 0 THEN {Started(p)} ELSE {Turn(p, s) : s \in F[k - 1]}]
    BY <1>4 DEF Turns
<1> HIDE DEF F
<1> DEFINE T == {k \in Nat : k <= n => F[k] = {g[k]}}
<1>6. 0 \in T
    BY <1>3, <1>5
<1>7. ASSUME NEW k \in T PROVE k + 1 \in T
  <2> SUFFICES ASSUME k + 1 <= n PROVE F[k + 1] = {g[k + 1]}
      OBVIOUS
  <2>1. F[k] = {g[k]} /\ k + 1 \in 1 .. n /\ (k + 1) - 1 = k
      OBVIOUS
  <2>2. F[k + 1] = {Turn(p, s) : s \in F[k]}
      BY <1>5, <2>1
  <2> QED
      BY <1>31, <2>1, <2>2
<1>8. T = Nat
    BY <1>6, <1>7, NatInd
<1>9. F[n] = {g[n]}
    BY <1>8
<1>10. Search(p) = {g[n]}
    BY <1>9 DEF Search, F
<1> QED
    BY <1>3, <1>31, <1>10 DEF Runs

(* A problem for the search: finitely many steps of positive cost.         *)
IsProblem(p) ==
    /\ IsFiniteSet(p.nodes) /\ IsFiniteSet(p.steps)
    /\ p.steps \subseteq p.nodes \X p.nodes \X (Nat \ {0})
    /\ p.start \in p.nodes /\ p.goal \in p.nodes
    /\ p.guess \in [p.nodes -> Nat] /\ p.rank \in [p.nodes -> Nat]

LEMMA StepTypes ==
    ASSUME NEW p, IsProblem(p), NEW e \in p.steps
    PROVE  e[1] \in p.nodes /\ e[2] \in p.nodes /\ e[3] \in Nat /\ e[3] > 0
    BY DEF IsProblem

(* Memories of the right types, those of no search included.               *)
Memories(p) ==
    [cost     : UNION {[d -> Nat] : d \in SUBSET p.nodes},
     came     : UNION {[d -> p.nodes] : d \in SUBSET p.nodes},
     frontier : SUBSET (Nat \X p.nodes),
     found    : BOOLEAN]

(* What the search remembers: a cost and a predecessor of every node it    *)
(* has reached, and entries for reached nodes.                             *)
IsMemory(p, s) ==
    /\ s = [cost |-> s.cost, came |-> s.came, frontier |-> s.frontier, found |-> s.found]
    /\ DOMAIN s.cost \subseteq p.nodes
    /\ s.cost \in [DOMAIN s.cost -> Nat] /\ s.came \in [DOMAIN s.cost -> DOMAIN s.cost]
    /\ s.frontier \subseteq Nat \X DOMAIN s.cost
    /\ s.found \in BOOLEAN

LEMMA MemoriesAre ==
    ASSUME NEW p, NEW s, IsMemory(p, s)
    PROVE  s \in Memories(p)
<1>1. s.cost \in UNION {[d -> Nat] : d \in SUBSET p.nodes}
    BY DEF IsMemory
<1>2. s.came \in UNION {[d -> p.nodes] : d \in SUBSET p.nodes}
  <2>1. s.came \in [DOMAIN s.cost -> p.nodes]
      BY DEF IsMemory
  <2> QED
      BY <2>1 DEF IsMemory
<1>3. s.frontier \in SUBSET (Nat \X p.nodes)
    BY DEF IsMemory
<1>4. s.found \in BOOLEAN
    BY DEF IsMemory
<1> DEFINE a == s.cost
           b == s.came
           c == s.frontier
           d == s.found
<1>5. s = [cost |-> a, came |-> b, frontier |-> c, found |-> d]
    BY DEF IsMemory
<1> HIDE DEF a, b, c, d
<1>6. [cost |-> a, came |-> b, frontier |-> c, found |-> d] \in Memories(p)
    BY <1>1, <1>2, <1>3, <1>4 DEF Memories, a, b, c, d
<1> QED
    BY <1>5, <1>6

(* heapq.heappop takes an entry of the least priority.                     *)
Smallest(s, b) == b \in s.frontier /\ \A c \in s.frontier : b[1] <= c[1]

LEMMA PoppedIsSmallest ==
    ASSUME NEW p, IsProblem(p), NEW s, IsMemory(p, s), s.frontier # {}
    PROVE  Smallest(s, Popped(p, s.frontier))
<1> DEFINE Q == s.frontier
<1>1. \A c \in Q : c[1] \in Nat /\ c[2] \in p.nodes /\ p.rank[c[2]] \in Nat
    BY DEF IsMemory, IsProblem
<1>2. PICK n \in {c[1] : c \in Q} : \A m \in {c[1] : c \in Q} : n <= m
  <2>1. {c[1] : c \in Q} \subseteq Nat /\ {c[1] : c \in Q} # {}
      BY <1>1
  <2> QED
      BY <2>1, LeastNat
<1> DEFINE R == {p.rank[c[2]] : c \in {b \in Q : b[1] = n}}
<1>3. PICK r \in R : \A m \in R : r <= m
  <2>1. R \subseteq Nat /\ R # {}
      BY <1>1
  <2> QED
      BY <2>1, LeastNat
<1>4. PICK b \in Q : b[1] = n /\ p.rank[b[2]] = r
    OBVIOUS
<1>5. \A c \in Q : Before(p, b, c)
  <2> SUFFICES ASSUME NEW c \in Q PROVE Before(p, b, c)
      OBVIOUS
  <2>1. n <= c[1] /\ n \in Nat /\ c[1] \in Nat
      BY <1>1, <1>2
  <2>2. CASE c[1] = n
    <3>1. r <= p.rank[c[2]]
        BY <1>3, <2>2
    <3> QED
        BY <1>4, <2>2, <3>1 DEF Before
  <2>3. CASE c[1] # n
      BY <1>4, <2>1, <2>3 DEF Before
  <2> QED
      BY <2>2, <2>3
<1> DEFINE a == Popped(p, Q)
<1>6. a \in Q /\ \A c \in Q : Before(p, a, c)
    BY <1>5, Zenon DEF Popped
<1> HIDE DEF a
<1>7. ASSUME NEW c \in Q PROVE a[1] <= c[1]
    BY <1>1, <1>6 DEF Before
<1> QED
    BY <1>6, <1>7 DEF Smallest, a

-----------------------------------------------------------------------------
(* One node is expanded.                                                   *)

(* The nodes that get a cost, or a lower one, from u.                      *)
News(p, s, u) == {e[2] : e \in Cheaper(p, s.cost, u)}

Entry(p, r, v) == <<r.cost[v] + p.guess[v], v>>

(* r is s after its entry b was popped and its node expanded.              *)
Expanded(p, s, b, r) ==
    LET u == b[2]
        N == News(p, s, u)
    IN  /\ DOMAIN r.cost = DOMAIN s.cost \cup N
        /\ \A v \in N :
              /\ r.came[v] = u
              /\ \E e \in p.steps : e[1] = u /\ e[2] = v /\ r.cost[v] = s.cost[u] + e[3]
              /\ \A e \in p.steps : e[1] = u /\ e[2] = v => r.cost[v] <= s.cost[u] + e[3]
              /\ v \in DOMAIN s.cost => r.cost[v] < s.cost[v]
        /\ \A v \in DOMAIN s.cost \ N :
              /\ r.cost[v] = s.cost[v] /\ r.came[v] = s.came[v]
              /\ \A e \in p.steps : e[1] = u /\ e[2] = v => s.cost[v] <= s.cost[u] + e[3]
        /\ \A e \in p.steps : e[1] = u => e[2] \in DOMAIN r.cost
        /\ r.frontier = (s.frontier \ {b}) \cup {Entry(p, r, v) : v \in N}
        /\ r.found = FALSE

LEMMA NewsAreSteps ==
    ASSUME NEW p, IsProblem(p), NEW s, IsMemory(p, s), NEW u \in DOMAIN s.cost,
           NEW v \in News(p, s, u)
    PROVE  /\ v \in p.nodes
           /\ \E e \in p.steps : /\ e[1] = u /\ e[2] = v
                                 /\ v \notin DOMAIN s.cost \/ s.cost[u] + e[3] < s.cost[v]
    BY StepTypes DEF News, Cheaper

LEMMA RelaxedExpands ==
    ASSUME NEW p, IsProblem(p), NEW s, IsMemory(p, s), NEW b \in s.frontier,
           NEW r, r = Relaxed(p, [s EXCEPT !.frontier = @ \ {b}], b[2])
    PROVE  IsMemory(p, r) /\ Expanded(p, s, b, r)
<1> DEFINE u == b[2]
           D == DOMAIN s.cost
           better == Cheaper(p, s.cost, u)
           N == {e[2] : e \in better}
           prices(v) == {e[3] : e \in {f \in better : f[2] = v}}
           via == [v \in N |-> s.cost[u] + Min(prices(v))]
<1>1. u \in D /\ D \subseteq p.nodes /\ s.cost[u] \in Nat /\ DOMAIN s.came = D
    BY DEF IsMemory
<1> DEFINE q == [s EXCEPT !.frontier = @ \ {b}]
<1>2. q.cost = s.cost /\ q.came = s.came /\ q.frontier = s.frontier \ {b}
    BY DEF IsMemory
<1> HIDE DEF q
<1>3. r = Relaxed(p, q, u)
    BY DEF q
<1>4. /\ r.cost = [v \in D \cup N |-> IF v \in N THEN via[v] ELSE s.cost[v]]
      /\ r.came = [v \in D \cup N |-> IF v \in N THEN u ELSE s.came[v]]
      /\ r.frontier = (s.frontier \ {b}) \cup {<<via[v] + p.guess[v], v>> : v \in N}
      /\ r.found = FALSE
      /\ r = [cost |-> r.cost, came |-> r.came, frontier |-> r.frontier, found |-> r.found]
  <2> DEFINE betterq == Cheaper(p, q.cost, u)
             Nq == {e[2] : e \in betterq}
             viaq == [v \in Nq |-> q.cost[u] + Min({e[3] : e \in {f \in betterq : f[2] = v}})]
             cost == [v \in DOMAIN q.cost \cup Nq |-> IF v \in Nq THEN viaq[v] ELSE q.cost[v]]
             came == [v \in DOMAIN q.came \cup Nq |-> IF v \in Nq THEN u ELSE q.came[v]]
             frontier == q.frontier \cup {<<viaq[v] + p.guess[v], v>> : v \in Nq}
  <2>1. r = [cost |-> cost, came |-> came, frontier |-> frontier, found |-> FALSE]
      BY <1>3 DEF Relaxed
  <2>2. betterq = better
      BY <1>2
  <2>3. Nq = N /\ viaq = via
      BY <1>2, <2>2
  <2> HIDE DEF viaq, Nq, betterq, via, N, better
  <2>4. /\ cost = [v \in D \cup N |-> IF v \in N THEN via[v] ELSE s.cost[v]]
        /\ came = [v \in D \cup N |-> IF v \in N THEN u ELSE s.came[v]]
        /\ frontier = (s.frontier \ {b}) \cup {<<via[v] + p.guess[v], v>> : v \in N}
      BY <1>1, <1>2, <2>3
  <2> HIDE DEF cost, came, frontier
  <2>5. /\ r.cost = cost /\ r.came = came /\ r.frontier = frontier /\ r.found = FALSE
        /\ r = [cost |-> r.cost, came |-> r.came, frontier |-> r.frontier, found |-> r.found]
      BY <2>1
  <2> QED
      BY <2>4, <2>5
<1>5. ASSUME NEW v \in N
      PROVE  /\ v \in p.nodes /\ via[v] \in Nat
             /\ \E e \in better : e[2] = v /\ via[v] = s.cost[u] + e[3]
             /\ \A e \in better : e[2] = v => via[v] <= s.cost[u] + e[3]
  <2>1. \A e \in better : e \in p.steps /\ e[1] = u /\ e[3] \in Nat /\ e[2] \in p.nodes
      BY StepTypes DEF Cheaper
  <2>2. prices(v) \subseteq Nat /\ prices(v) # {}
      BY <2>1
  <2>3. Min(prices(v)) \in prices(v) /\ \A m \in prices(v) : Min(prices(v)) <= m
      BY <2>2, MinIsLeast
  <2> DEFINE m == Min(prices(v))
  <2> HIDE DEF m
  <2>4. via[v] = s.cost[u] + m
      BY DEF m
  <2>5. PICK e \in better : e[2] = v /\ m = e[3]
      BY <2>3 DEF m
  <2>6. \A f \in better : f[2] = v => m <= f[3]
      BY <2>3 DEF m
  <2>7. m \in Nat /\ v \in p.nodes
      BY <2>1, <2>5
  <2>8. \A f \in better : f[2] = v => s.cost[u] + m <= s.cost[u] + f[3]
      BY <1>1, <2>1, <2>6, <2>7
  <2> HIDE DEF via, better, N
  <2> QED
      BY <1>1, <2>4, <2>5, <2>7, <2>8
<1>6. ASSUME NEW e \in p.steps, e[1] = u, e \notin better
      PROVE  e[2] \in D /\ s.cost[e[2]] <= s.cost[u] + e[3]
  <2>1. e[2] \in D /\ ~(s.cost[u] + e[3] < s.cost[e[2]])
      BY <1>6 DEF Cheaper
  <2>2. s.cost[e[2]] \in Nat /\ e[3] \in Nat
      BY <2>1, StepTypes DEF IsMemory
  <2> QED
      BY <1>1, <2>1, <2>2
<1>7. \A e \in better : e \in p.steps /\ e[1] = u /\ e[2] \in N
                        /\ (e[2] \in D => s.cost[u] + e[3] < s.cost[e[2]])
    BY DEF Cheaper
<1>8. N = News(p, s, u)
    BY DEF News
<1> HIDE DEF N, via, better, D
<1>9. DOMAIN r.cost = D \cup N
    BY <1>4
<1>10. ASSUME NEW v \in N
       PROVE  r.cost[v] = via[v] /\ r.came[v] = u /\ r.cost[v] \in Nat
    BY <1>4, <1>5
<1>11. ASSUME NEW v \in D \ N
       PROVE  r.cost[v] = s.cost[v] /\ r.came[v] = s.came[v] /\ r.cost[v] \in Nat /\ r.came[v] \in D
  <2>1. s.cost[v] \in Nat /\ s.came[v] \in D
      BY DEF IsMemory, D
  <2> QED
      BY <1>4, <2>1
<1>12. {Entry(p, r, v) : v \in N} = {<<via[v] + p.guess[v], v>> : v \in N}
    BY <1>10 DEF Entry
<1>13. IsMemory(p, r)
  <2>1. D \cup N \subseteq p.nodes
      BY <1>1, <1>5
  <2>2. r.cost \in [D \cup N -> Nat]
    <3>1. \A v \in D \cup N : r.cost[v] \in Nat
        BY <1>10, <1>11
    <3> QED
        BY <1>4, <3>1
  <2>3. r.came \in [D \cup N -> D \cup N]
    <3>1. \A v \in D \cup N : r.came[v] \in D \cup N
        BY <1>1, <1>10, <1>11
    <3> QED
        BY <1>4, <3>1
  <2>4. r.frontier \subseteq Nat \X (D \cup N)
    <3>1. \A v \in N : via[v] + p.guess[v] \in Nat
        BY <1>5 DEF IsProblem
    <3>2. s.frontier \ {b} \subseteq Nat \X (D \cup N)
        BY DEF IsMemory, D
    <3>3. {<<via[v] + p.guess[v], v>> : v \in N} \subseteq Nat \X (D \cup N)
        BY <3>1
    <3> QED
        BY <1>4, <3>2, <3>3
  <2> QED
      BY <1>4, <1>9, <2>1, <2>2, <2>3, <2>4 DEF IsMemory
<1>14. Expanded(p, s, b, r)
  <2>1. ASSUME NEW v \in N
        PROVE  /\ \E e \in p.steps : e[1] = u /\ e[2] = v /\ r.cost[v] = s.cost[u] + e[3]
               /\ v \in D => r.cost[v] < s.cost[v]
    <3>1. PICK e \in better : e[2] = v /\ via[v] = s.cost[u] + e[3]
        BY <1>5
    <3> QED
        BY <1>7, <1>10, <3>1
  <2>2. ASSUME NEW v \in N, NEW e \in p.steps, e[1] = u, e[2] = v
        PROVE  r.cost[v] <= s.cost[u] + e[3]
    <3>1. CASE e \in better
        BY <1>5, <1>10, <2>2, <3>1
    <3>2. CASE e \notin better
      <4>1. v \in D /\ s.cost[v] <= s.cost[u] + e[3]
          BY <1>6, <2>2, <3>2
      <4>2. r.cost[v] < s.cost[v] /\ r.cost[v] \in Nat /\ s.cost[v] \in Nat /\ e[3] \in Nat
          BY <1>10, <2>1, <4>1, StepTypes DEF IsMemory, D
      <4> QED
          BY <1>1, <4>1, <4>2
    <3> QED
        BY <3>1, <3>2
  <2>3. ASSUME NEW v \in D \ N, NEW e \in p.steps, e[1] = u, e[2] = v
        PROVE  s.cost[v] <= s.cost[u] + e[3]
      BY <1>6, <1>7, <2>3
  <2>4. ASSUME NEW e \in p.steps, e[1] = u PROVE e[2] \in DOMAIN r.cost
      BY <1>6, <1>7, <1>9, <2>4
  <2> QED
      BY <1>4, <1>8, <1>9, <1>10, <1>11, <1>12, <2>1, <2>2, <2>3, <2>4 DEF Expanded, D
<1> QED
    BY <1>13, <1>14

(* r is s after the goal was popped.                                       *)
Stopped(s, b, r) ==
    r = [cost |-> s.cost, came |-> s.came, frontier |-> s.frontier \ {b}, found |-> TRUE]

LEMMA TurnCases ==
    ASSUME NEW p, IsProblem(p), NEW s, IsMemory(p, s), ~Finished(s),
           NEW r, r = Turn(p, s)
    PROVE  /\ IsMemory(p, r)
           /\ \E b : /\ Smallest(s, b)
                     /\ \/ b[2] = p.goal /\ Stopped(s, b, r)
                        \/ b[2] # p.goal /\ Expanded(p, s, b, r)
<1> DEFINE b == Popped(p, s.frontier)
           rest == [s EXCEPT !.frontier = @ \ {b}]
<1>1. Smallest(s, b)
    BY PoppedIsSmallest DEF Finished
<1>2. r = IF b[2] = p.goal THEN [rest EXCEPT !.found = TRUE] ELSE Relaxed(p, rest, b[2])
    BY DEF Turn
<1> HIDE DEF b
<1>3. CASE b[2] = p.goal
  <2>1. r = [[s EXCEPT !.frontier = s.frontier \ {b}] EXCEPT !.found = TRUE]
      BY <1>2, <1>3
  <2>2. s = [cost |-> s.cost, came |-> s.came, frontier |-> s.frontier, found |-> s.found]
      BY DEF IsMemory
  <2>3. Stopped(s, b, r)
      BY <2>1, <2>2 DEF Stopped
  <2>4. r.frontier \subseteq s.frontier /\ r.cost = s.cost /\ r.came = s.came
        /\ r.found = TRUE
        /\ r = [cost |-> r.cost, came |-> r.came, frontier |-> r.frontier, found |-> r.found]
      BY <2>3 DEF Stopped
  <2>5. IsMemory(p, r)
      BY <2>4 DEF IsMemory
  <2> QED
      BY <1>1, <1>3, <2>3, <2>5
<1>4. CASE b[2] # p.goal
  <2>1. b \in s.frontier
      BY <1>1 DEF Smallest
  <2>2. r = Relaxed(p, rest, b[2])
      BY <1>2, <1>4
  <2>3. IsMemory(p, r) /\ Expanded(p, s, b, r)
      BY <2>1, <2>2, RelaxedExpands
  <2> QED
      BY <1>1, <1>4, <2>3
<1> QED
    BY <1>3, <1>4

(* The predecessors form a tree: every node but the start was reached by a *)
(* step from its predecessor, which costs less.                            *)
Rooted(p, s) ==
    /\ IsMemory(p, s)
    /\ p.start \in DOMAIN s.cost /\ s.cost[p.start] = 0
    /\ \A v \in DOMAIN s.cost \ {p.start} :
          \E e \in p.steps : /\ e[1] = s.came[v] /\ e[2] = v
                             /\ s.cost[s.came[v]] + e[3] <= s.cost[v]

LEMMA CostsOnlyFall ==
    ASSUME NEW p, NEW s, IsMemory(p, s), NEW b, NEW r, IsMemory(p, r), Expanded(p, s, b, r),
           NEW v \in DOMAIN s.cost
    PROVE  /\ v \in DOMAIN r.cost /\ r.cost[v] <= s.cost[v]
           /\ r.cost[v] \in Nat /\ s.cost[v] \in Nat
<1>1. v \in DOMAIN r.cost
    BY DEF Expanded
<1>2. r.cost[v] \in Nat /\ s.cost[v] \in Nat
    BY <1>1 DEF IsMemory
<1>3. r.cost[v] < s.cost[v] \/ r.cost[v] = s.cost[v]
    BY DEF Expanded
<1> QED
    BY <1>1, <1>2, <1>3

LEMMA StartedIsRooted ==
    ASSUME NEW p, IsProblem(p)
    PROVE  Rooted(p, Started(p))
<1> DEFINE s == Started(p)
<1>1. /\ s.cost = [v \in {p.start} |-> 0] /\ s.came = [v \in {p.start} |-> p.start]
      /\ s.frontier = {<<0, p.start>>} /\ s.found = FALSE
      /\ s = [cost |-> s.cost, came |-> s.came, frontier |-> s.frontier, found |-> s.found]
    BY DEF Started
<1> HIDE DEF s
<1>2. DOMAIN s.cost = {p.start} /\ s.cost[p.start] = 0
    BY <1>1
<1>3. IsMemory(p, s)
  <2>1. p.start \in p.nodes
      BY DEF IsProblem
  <2>2. s.cost \in [{p.start} -> Nat] /\ s.came \in [{p.start} -> {p.start}]
      BY <1>1
  <2>3. s.frontier \subseteq Nat \X {p.start}
      BY <1>1
  <2> QED
      BY <1>1, <1>2, <2>1, <2>2, <2>3 DEF IsMemory
<1>4. Rooted(p, s)
    BY <1>2, <1>3 DEF Rooted
<1> QED
    BY <1>4 DEF s

LEMMA ExpandedIsRooted ==
    ASSUME NEW p, IsProblem(p), NEW s, Rooted(p, s), NEW b, b[2] \in DOMAIN s.cost,
           NEW r, IsMemory(p, r), Expanded(p, s, b, r)
    PROVE  Rooted(p, r)
<1> DEFINE u == b[2]
           D == DOMAIN s.cost
           N == News(p, s, u)
<1>1. IsMemory(p, s)
    BY DEF Rooted
<1>2. p.start \in D /\ s.cost[p.start] = 0
    BY DEF Rooted
<1>3. p.start \in DOMAIN r.cost /\ r.cost[p.start] = 0
    BY <1>1, <1>2, CostsOnlyFall
<1>4. ASSUME NEW v \in DOMAIN r.cost \ {p.start}
      PROVE  \E e \in p.steps : /\ e[1] = r.came[v] /\ e[2] = v
                                /\ r.cost[r.came[v]] + e[3] <= r.cost[v]
  <2>1. CASE v \in N
    <3>1. r.came[v] = u
        BY <2>1 DEF Expanded
    <3>2. PICK e \in p.steps : e[1] = u /\ e[2] = v /\ r.cost[v] = s.cost[u] + e[3]
        BY <2>1 DEF Expanded
    <3>3. r.cost[u] \in Nat /\ s.cost[u] \in Nat /\ r.cost[u] <= s.cost[u]
        BY <1>1, CostsOnlyFall
    <3>4. e[3] \in Nat
        BY StepTypes
    <3>5. r.cost[u] + e[3] <= r.cost[v]
        BY <3>2, <3>3, <3>4
    <3> QED
        BY <3>1, <3>2, <3>5
  <2>2. CASE v \notin N
    <3>1. v \in D \ {p.start} /\ r.cost[v] = s.cost[v] /\ r.came[v] = s.came[v]
        BY <2>2 DEF Expanded
    <3>2. PICK e \in p.steps : /\ e[1] = s.came[v] /\ e[2] = v
                               /\ s.cost[s.came[v]] + e[3] <= s.cost[v]
        BY <3>1 DEF Rooted
    <3> DEFINE w == s.came[v]
    <3>3. w \in D
        BY <1>1, <3>1 DEF IsMemory
    <3>4. r.cost[w] \in Nat /\ s.cost[w] \in Nat /\ r.cost[w] <= s.cost[w]
        BY <1>1, <3>3, CostsOnlyFall
    <3>5. e[3] \in Nat /\ s.cost[v] \in Nat
        BY <1>1, <3>1, StepTypes DEF IsMemory
    <3> HIDE DEF w
    <3>6. r.cost[w] + e[3] <= s.cost[v]
        BY <3>2, <3>4, <3>5 DEF w
    <3> QED
        BY <3>1, <3>2, <3>6 DEF w
  <2> QED
      BY <2>1, <2>2
<1> QED
    BY <1>3, <1>4 DEF Rooted

LEMMA TurnIsRooted ==
    ASSUME NEW p, IsProblem(p), NEW s, Rooted(p, s), NEW r, r = Turn(p, s)
    PROVE  Rooted(p, r)
<1>1. CASE Finished(s)
    BY <1>1 DEF Turn
<1>2. CASE ~Finished(s)
  <2>1. IsMemory(p, s)
      BY DEF Rooted
  <2>2. IsMemory(p, r)
      BY <1>2, <2>1, TurnCases
  <2>3. PICK b : /\ Smallest(s, b)
                 /\ \/ b[2] = p.goal /\ Stopped(s, b, r)
                    \/ b[2] # p.goal /\ Expanded(p, s, b, r)
      BY <1>2, <2>1, TurnCases
  <2>4. CASE Stopped(s, b, r)
    <3>1. r.cost = s.cost /\ r.came = s.came
        BY <2>4 DEF Stopped
    <3> QED
        BY <2>2, <3>1 DEF Rooted
  <2>5. CASE Expanded(p, s, b, r)
    <3>1. b[2] \in DOMAIN s.cost
        BY <2>1, <2>3 DEF Smallest, IsMemory
    <3> QED
        BY <2>2, <2>5, <3>1, ExpandedIsRooted
  <2> QED
      BY <2>3, <2>4, <2>5
<1> QED
    BY <1>1, <1>2

LEMMA TurnsAreNat ==
    ASSUME NEW p, IsProblem(p)
    PROVE  MaxTurns(p) \in Nat
    BY FS_CardinalityType DEF IsProblem, MaxTurns

LEMMA SearchIsRooted ==
    ASSUME NEW p, IsProblem(p), NEW s \in Search(p)
    PROVE  Rooted(p, s)
<1> DEFINE S == {t \in Memories(p) : Rooted(p, t)}
<1>1. \A t : Rooted(p, t) => t \in S
    BY MemoriesAre DEF Rooted
<1>2. Kept(p, S)
    BY <1>1, StartedIsRooted, TurnIsRooted DEF Kept
<1>3. \A t \in S : Rooted(p, t)
    OBVIOUS
<1> HIDE DEF S
<1>4. PICK g : Runs(p, S, g)
    BY <1>2, TurnsAreNat, TurnsStay
<1>5. s = g[MaxTurns(p)] /\ g[MaxTurns(p)] \in S
    BY <1>4, TurnsAreNat DEF Runs
<1> QED
    BY <1>3, <1>5

-----------------------------------------------------------------------------
(* The way back to the start.                                              *)

(* A number that falls on the way back, of at most the number of nodes.    *)
Depths(p, s, R) ==
    /\ R \in [DOMAIN s.cost -> 0 .. Cardinality(p.nodes)]
    /\ R[p.start] = 0
    /\ \A v \in DOMAIN s.cost \ {p.start} : R[s.came[v]] < R[v]

LEMMA DepthsExist ==
    ASSUME NEW p, IsProblem(p), NEW s, Rooted(p, s)
    PROVE  \E R : Depths(p, s, R)
<1> DEFINE D == DOMAIN s.cost
           Lower(v) == {w \in D : s.cost[w] < s.cost[v]}
           R == [v \in D |-> Cardinality(Lower(v))]
<1>1. /\ IsFiniteSet(D) /\ Cardinality(D) \in Nat /\ Cardinality(D) <= Cardinality(p.nodes)
      /\ Cardinality(p.nodes) \in Nat
  <2>1. D \in SUBSET p.nodes /\ IsFiniteSet(p.nodes)
      BY DEF Rooted, IsMemory, IsProblem
  <2> QED
      BY <2>1, FS_Subset, FS_CardinalityType
<1>2. \A v \in D : s.cost[v] \in Nat
    BY DEF Rooted, IsMemory
<1>3. ASSUME NEW v \in D
      PROVE  /\ IsFiniteSet(Lower(v)) /\ Cardinality(Lower(v)) \in Nat
             /\ Cardinality(Lower(v)) <= Cardinality(D)
    BY <1>1, FS_Subset, FS_CardinalityType
<1>4. R \in [D -> 0 .. Cardinality(p.nodes)]
  <2>1. ASSUME NEW v \in D PROVE Cardinality(Lower(v)) \in 0 .. Cardinality(p.nodes)
      BY <1>1, <1>3
  <2> QED
      BY <2>1
<1>5. ASSUME NEW v \in D \ {p.start} PROVE R[s.came[v]] < R[v]
  <2> DEFINE w == s.came[v]
  <2>1. PICK e \in p.steps : e[1] = w /\ s.cost[w] + e[3] <= s.cost[v]
      BY DEF Rooted
  <2>2. w \in D
      BY DEF Rooted, IsMemory
  <2>3. s.cost[w] < s.cost[v]
      BY <1>2, <2>1, <2>2, StepTypes
  <2> HIDE DEF w
  <2>4. Lower(w) \subseteq Lower(v) /\ w \in Lower(v) /\ w \notin Lower(w)
      BY <1>2, <2>2, <2>3
  <2>5. IsFiniteSet(Lower(v)) /\ Cardinality(Lower(v)) \in Nat /\ Cardinality(Lower(w)) \in Nat
      BY <1>3, <2>2
  <2>6. Cardinality(Lower(w)) <= Cardinality(Lower(v))
        /\ Cardinality(Lower(w)) # Cardinality(Lower(v))
    <3> HIDE DEF Lower
    <3>1. Lower(w) \in SUBSET Lower(v) /\ Lower(w) # Lower(v)
        BY <2>4
    <3> QED
        BY <2>5, <3>1, FS_Subset
  <2> HIDE DEF Lower
  <2>7. Cardinality(Lower(w)) < Cardinality(Lower(v))
      BY <2>5, <2>6
  <2> QED
      BY <2>2, <2>7 DEF w
<1>6. R[p.start] = 0
  <2>1. p.start \in D /\ s.cost[p.start] = 0
      BY DEF Rooted
  <2>2. Lower(p.start) = {}
      BY <1>2, <2>1
  <2> QED
      BY <2>1, <2>2, FS_EmptySet
<1> HIDE DEF R
<1>7. Depths(p, s, R)
    BY <1>4, <1>5, <1>6 DEF Depths
<1> QED
    BY <1>7

(* q is the way back from u, in driving order.                             *)
Chain(p, s, u, q) ==
    /\ q \in Seq(DOMAIN s.cost) /\ Len(q) > 0
    /\ q[1] = p.start /\ q[Len(q)] = u
    /\ \A i \in 1 .. Len(q) - 1 : q[i + 1] # p.start /\ s.came[q[i + 1]] = q[i]

BackOf(p, s, B, u) == IF u = p.start THEN <<u>> ELSE Append(B[s.came[u]], u)

ChainsTo(p, s, R, k, B) ==
    /\ B \in [DOMAIN s.cost -> Seq(DOMAIN s.cost)]
    /\ \A u \in DOMAIN s.cost : R[u] <= k => B[u] = BackOf(p, s, B, u) /\ Chain(p, s, u, B[u])

LEMMA OneNode ==
    ASSUME NEW D, NEW u \in D
    PROVE  <<u>> \in Seq(D) /\ Len(<<u>>) = 1 /\ <<u>>[1] = u
    OBVIOUS

LEMMA ShortestChain ==
    ASSUME NEW p, NEW s, NEW u \in DOMAIN s.cost, u = p.start
    PROVE  Chain(p, s, u, <<u>>)
<1> DEFINE q == <<u>>
<1>1. q \in Seq(DOMAIN s.cost) /\ Len(q) = 1 /\ q[1] = u
    BY OneNode
<1> HIDE DEF q
<1>2. \A i \in 1 .. Len(q) - 1 : FALSE
    BY <1>1
<1>3. Chain(p, s, u, q)
    BY <1>1, <1>2 DEF Chain
<1> QED
    BY <1>3 DEF q

LEMMA LongerChain ==
    ASSUME NEW p, NEW s, NEW u, NEW w \in DOMAIN s.cost, w # p.start, s.came[w] = u,
           NEW q, Chain(p, s, u, q), NEW r, r = Append(q, w)
    PROVE  Chain(p, s, w, r)
<1>1. r \in Seq(DOMAIN s.cost) /\ Len(r) = Len(q) + 1 /\ Len(q) \in Nat /\ Len(q) > 0
    BY DEF Chain
<1>2. r[Len(r)] = w /\ \A i \in 1 .. Len(q) : r[i] = q[i]
    BY DEF Chain
<1>3. r[1] = p.start
    BY <1>1, <1>2 DEF Chain
<1>4. ASSUME NEW i \in 1 .. Len(r) - 1
      PROVE  r[i + 1] # p.start /\ s.came[r[i + 1]] = r[i]
  <2>1. CASE i = Len(q)
    <3>1. r[i + 1] = w /\ r[i] = u
        BY <1>1, <1>2, <2>1 DEF Chain
    <3> QED
        BY <3>1
  <2>2. CASE i # Len(q)
    <3>1. i \in 1 .. Len(q) - 1 /\ i \in 1 .. Len(q) /\ i + 1 \in 1 .. Len(q)
        BY <1>1, <2>2
    <3>2. r[i + 1] = q[i + 1] /\ r[i] = q[i]
        BY <1>2, <3>1
    <3> QED
        BY <3>1, <3>2 DEF Chain
  <2> QED
      BY <2>1, <2>2
<1> QED
    BY <1>1, <1>2, <1>3, <1>4 DEF Chain

LEMMA ChainsExist ==
    ASSUME NEW p, NEW s, Rooted(p, s), NEW R, Depths(p, s, R), Cardinality(p.nodes) \in Nat
    PROVE  \E B : ChainsTo(p, s, R, Cardinality(p.nodes), B)
<1> DEFINE D == DOMAIN s.cost
           T == {k \in Nat : \E B : ChainsTo(p, s, R, k, B)}
<1>1. /\ p.start \in D
      /\ \A v \in D : R[v] \in Nat /\ s.came[v] \in D
      /\ \A v \in D : v # p.start => R[s.came[v]] < R[v]
  <2>1. p.start \in D /\ \A v \in D : s.came[v] \in D
      BY DEF Rooted, IsMemory
  <2>2. \A v \in D : R[v] \in 0 .. Cardinality(p.nodes)
      BY DEF Depths
  <2>3. \A v \in D : R[v] \in Nat
      BY <2>2
  <2> QED
      BY <2>1, <2>3 DEF Depths
<1>2. \E B : ChainsTo(p, s, R, 0, B)
  <2> DEFINE B == [u \in D |-> <<u>>]
  <2>1. B \in [D -> Seq(D)]
    <3>1. \A u \in D : <<u>> \in Seq(D)
        BY OneNode
    <3> QED
        BY <3>1
  <2>2. ASSUME NEW u \in D, R[u] <= 0
        PROVE  B[u] = BackOf(p, s, B, u) /\ Chain(p, s, u, B[u])
    <3>1. u = p.start
      <4>1. R[u] = 0
          BY <1>1, <2>2
      <4> QED
          BY <1>1, <4>1
    <3>2. B[u] = <<u>>
        OBVIOUS
    <3> HIDE DEF B
    <3>3. Chain(p, s, u, <<u>>)
        BY <3>1, ShortestChain
    <3> QED
        BY <3>1, <3>2, <3>3 DEF BackOf
  <2> HIDE DEF B
  <2>3. ChainsTo(p, s, R, 0, B)
      BY <2>1, <2>2 DEF ChainsTo
  <2> QED
      BY <2>3
<1>3. ASSUME NEW k \in Nat, NEW A, ChainsTo(p, s, R, k, A)
      PROVE  \E B : ChainsTo(p, s, R, k + 1, B)
  <2> DEFINE B == [u \in D |-> IF R[u] = k + 1 THEN BackOf(p, s, A, u) ELSE A[u]]
  <2>1. A \in [D -> Seq(D)]
      BY <1>3 DEF ChainsTo
  <2>2. ASSUME NEW u \in D PROVE BackOf(p, s, A, u) \in Seq(D)
    <3>1. CASE u = p.start
        BY <3>1, OneNode DEF BackOf
    <3>2. CASE u # p.start
      <4> DEFINE q == A[s.came[u]]
      <4>1. q \in Seq(D)
          BY <1>1, <2>1
      <4>2. BackOf(p, s, A, u) = Append(q, u)
          BY <3>2 DEF BackOf
      <4> HIDE DEF q
      <4>3. Append(q, u) \in Seq(D)
          BY <4>1
      <4> QED
          BY <4>2, <4>3
    <3> QED
        BY <3>1, <3>2
  <2>3. B \in [D -> Seq(D)]
      BY <2>1, <2>2
  <2>4. ASSUME NEW u \in D, R[u] <= k
        PROVE  B[u] = A[u] /\ B[u] = BackOf(p, s, B, u) /\ Chain(p, s, u, B[u])
    <3>1. R[u] # k + 1 /\ A[u] = BackOf(p, s, A, u) /\ Chain(p, s, u, A[u])
        BY <1>1, <1>3, <2>4 DEF ChainsTo
    <3>2. B[u] = A[u]
        BY <3>1
    <3>3. u # p.start => B[s.came[u]] = A[s.came[u]]
      <4>1. u # p.start => R[s.came[u]] # k + 1 /\ s.came[u] \in D
          BY <1>1, <2>4
      <4> QED
          BY <4>1
    <3> HIDE DEF B
    <3> QED
        BY <3>1, <3>2, <3>3 DEF BackOf
  <2>5. ASSUME NEW u \in D, R[u] = k + 1
        PROVE  B[u] = BackOf(p, s, B, u) /\ Chain(p, s, u, B[u])
    <3>1. B[u] = BackOf(p, s, A, u)
        BY <2>5
    <3>2. CASE u = p.start
      <4>1. Chain(p, s, u, <<u>>)
          BY <3>2, ShortestChain
      <4> HIDE DEF B
      <4> QED
          BY <3>1, <3>2, <4>1 DEF BackOf
    <3>3. CASE u # p.start
      <4> DEFINE w == s.came[u]
      <4>1. w \in D /\ R[w] <= k
          BY <1>1, <2>5, <3>3
      <4>2. B[w] = A[w] /\ Chain(p, s, w, B[w])
          BY <2>4, <4>1
      <4> HIDE DEF B
      <4>3. B[u] = Append(B[w], u)
          BY <3>1, <3>3, <4>2 DEF BackOf
      <4>4. Chain(p, s, u, B[u])
          BY <3>3, <4>2, <4>3, LongerChain
      <4> QED
          BY <3>3, <4>3, <4>4 DEF BackOf
    <3> QED
        BY <3>2, <3>3
  <2>6. ASSUME NEW u \in D, R[u] <= k + 1 PROVE R[u] <= k \/ R[u] = k + 1
      BY <1>1, <2>6
  <2> HIDE DEF B
  <2>7. ChainsTo(p, s, R, k + 1, B)
      BY <2>3, <2>4, <2>5, <2>6 DEF ChainsTo
  <2> QED
      BY <2>7
<1>4. T \subseteq Nat /\ 0 \in T /\ \A k \in T : k + 1 \in T
    BY <1>2, <1>3
<1> HIDE DEF T
<1>5. T = Nat
    BY <1>4, NatInd
<1> QED
    BY <1>5 DEF T

(* node_ids: the nodes from the start to u.                                *)
LEMMA BackIsChain ==
    ASSUME NEW p, IsProblem(p), NEW s, Rooted(p, s), NEW u \in DOMAIN s.cost
    PROVE  Chain(p, s, u, Back(p, s.came)[u])
<1> DEFINE D == DOMAIN s.cost
           n == Cardinality(p.nodes)
<1>1. n \in Nat
    BY FS_CardinalityType DEF IsProblem
<1>2. PICK R : Depths(p, s, R)
    BY DepthsExist
<1>3. PICK B : ChainsTo(p, s, R, n, B)
    BY <1>1, <1>2, ChainsExist
<1>4. ASSUME NEW v \in D
      PROVE  B[v] = BackOf(p, s, B, v) /\ R[v] \in Nat /\ R[v] <= n
  <2>1. R[v] \in 0 .. n
      BY <1>2 DEF Depths
  <2> QED
      BY <1>1, <1>3, <2>1 DEF ChainsTo
<1>5. DOMAIN s.came = D /\ \A v \in D : s.came[v] \in D
    BY DEF Rooted, IsMemory
<1>6. B = [v \in DOMAIN s.came |-> IF v = p.start THEN <<v>> ELSE Append(B[s.came[v]], v)]
  <2>1. DOMAIN B = D /\ B = [v \in D |-> B[v]]
      BY <1>3 DEF ChainsTo
  <2> QED
      BY <1>4, <1>5, <2>1 DEF BackOf
<1> DEFINE F == Back(p, s.came)
<1>7. F = [v \in DOMAIN s.came |-> IF v = p.start THEN <<v>> ELSE Append(F[s.came[v]], v)]
    BY <1>6 DEF Back
<1> HIDE DEF F
<1> DEFINE T == {k \in Nat : \A v \in D : R[v] <= k => Chain(p, s, v, F[v])}
<1>8. ASSUME NEW v \in D, v # p.start, Chain(p, s, s.came[v], F[s.came[v]])
      PROVE  Chain(p, s, v, F[v])
  <2>1. F[v] = Append(F[s.came[v]], v)
      BY <1>5, <1>7, <1>8
  <2> QED
      BY <1>8, <2>1, LongerChain
<1>9. ASSUME p.start \in D PROVE Chain(p, s, p.start, F[p.start])
  <2>1. F[p.start] = <<p.start>>
      BY <1>5, <1>7, <1>9
  <2> QED
      BY <1>9, <2>1, ShortestChain
<1>10. 0 \in T
  <2>1. ASSUME NEW v \in D, R[v] <= 0 PROVE v = p.start
    <3>1. v # p.start => R[s.came[v]] \in Nat /\ R[s.came[v]] < R[v] /\ R[v] \in Nat
        BY <1>2, <1>4, <1>5 DEF Depths
    <3> QED
        BY <2>1, <3>1
  <2> QED
      BY <1>9, <2>1
<1>11. ASSUME NEW k \in T PROVE k + 1 \in T
  <2> SUFFICES ASSUME NEW v \in D, R[v] <= k + 1 PROVE Chain(p, s, v, F[v])
      OBVIOUS
  <2>1. CASE v = p.start
      BY <1>9, <2>1
  <2>2. CASE v # p.start
    <3>1. R[s.came[v]] \in Nat /\ R[s.came[v]] < R[v] /\ R[v] \in Nat /\ s.came[v] \in D
        BY <1>2, <1>4, <1>5, <2>2 DEF Depths
    <3>2. R[s.came[v]] <= k
        BY <3>1
    <3> QED
        BY <1>8, <2>2, <3>1, <3>2
  <2> QED
      BY <2>1, <2>2
<1>12. T \subseteq Nat
    OBVIOUS
<1>13. n \in T
  <2> HIDE DEF T
  <2>1. T = Nat
      BY <1>10, <1>11, <1>12, NatInd
  <2> QED
      BY <1>1, <2>1
<1>14. Chain(p, s, u, F[u])
    BY <1>4, <1>13
<1> QED
    BY <1>14 DEF F

(* The straight distance never overestimates a step.                       *)
Consistent(p) ==
    /\ p.guess[p.goal] = 0
    /\ \A e \in p.steps : p.guess[e[1]] <= e[3] + p.guess[e[2]]

(* The priority at which a node was last pushed.                           *)
Key(p, s, v) == s.cost[v] + p.guess[v]

(* No step from v would still give a lower cost.                           *)
Settled(p, s, v) ==
    \A e \in p.steps : e[1] = v => /\ e[2] \in DOMAIN s.cost
                                   /\ s.cost[e[2]] <= s.cost[v] + e[3]

(* The nodes that are still to be expanded: not reached, or with an entry  *)
(* that is not out of date.                                                *)
Waits(p, s, v) == \E c \in s.frontier : c[2] = v /\ c[1] <= Key(p, s, v)
Waiting(p, s) == {v \in p.nodes : v \in DOMAIN s.cost => Waits(p, s, v)}

(* An entry holds the current priority of its node or, if it is stale, a   *)
(* higher one; the start alone is pushed with priority zero.               *)
EntryInv(p, s) ==
    \A c \in s.frontier : \/ Key(p, s, c[2]) <= c[1]
                          \/ s.frontier = {c} /\ c = <<0, p.start>>

(* What has been expanded is settled, and no entry left is below it.       *)
LevelInv(p, s) ==
    \A v \in DOMAIN s.cost :
       v \notin Waiting(p, s) =>
          Settled(p, s, v) /\ \A c \in s.frontier : Key(p, s, v) <= c[1]

(* What holds once the goal was popped: every node below it is settled.    *)
StoppedInv(p, s) ==
    /\ p.goal \in DOMAIN s.cost
    /\ \A v \in DOMAIN s.cost : Key(p, s, v) < s.cost[p.goal] => Settled(p, s, v)

(* The inductive invariant of the turns.                                   *)
Exact(p, s) ==
    /\ Rooted(p, s)
    /\ IsFiniteSet(s.frontier)
    /\ s.found = FALSE => p.goal \in Waiting(p, s) /\ EntryInv(p, s) /\ LevelInv(p, s)
    /\ s.found = TRUE => StoppedInv(p, s)

LEMMA KeyIsNat ==
    ASSUME NEW p, IsProblem(p), NEW s, IsMemory(p, s), NEW v \in DOMAIN s.cost
    PROVE  /\ v \in p.nodes /\ s.cost[v] \in Nat /\ p.guess[v] \in Nat
           /\ Key(p, s, v) \in Nat /\ Key(p, s, v) = s.cost[v] + p.guess[v]
<1>1. v \in p.nodes /\ s.cost[v] \in Nat /\ p.guess[v] \in Nat
    BY DEF IsProblem, IsMemory
<1> QED
    BY <1>1 DEF Key

LEMMA EntryTypes ==
    ASSUME NEW p, NEW s, IsMemory(p, s), NEW c \in s.frontier
    PROVE  c[1] \in Nat /\ c[2] \in DOMAIN s.cost /\ c = <<c[1], c[2]>>
    BY DEF IsMemory

LEMMA StartedIsExact ==
    ASSUME NEW p, IsProblem(p)
    PROVE  /\ Exact(p, Started(p))
           /\ Cardinality(Started(p).frontier) = 1
<1> DEFINE s == Started(p)
<1>1. Rooted(p, s)
    BY StartedIsRooted
<1>2. /\ s.frontier = {<<0, p.start>>} /\ s.found = FALSE
      /\ DOMAIN s.cost = {p.start} /\ s.cost[p.start] = 0
    BY DEF Started
<1> HIDE DEF s
<1>3. IsFiniteSet(s.frontier) /\ Cardinality(s.frontier) = 1
  <2>1. IsFiniteSet({<<0, p.start>>}) /\ Cardinality({<<0, p.start>>}) = 1
      BY Zenon, FS_Singleton
  <2> QED
      BY <1>2, <2>1
<1>4. p.start \in p.nodes /\ p.goal \in p.nodes /\ p.guess[p.start] \in Nat
    BY DEF IsProblem
<1>5. Waits(p, s, p.start)
    BY <1>2, <1>4 DEF Waits, Key
<1>6. Waiting(p, s) = p.nodes
    BY <1>2, <1>5 DEF Waiting
<1>7. EntryInv(p, s)
    BY <1>2 DEF EntryInv
<1>8. LevelInv(p, s)
    BY <1>2, <1>4, <1>6 DEF LevelInv
<1>9. Exact(p, s)
    BY <1>1, <1>2, <1>3, <1>4, <1>6, <1>7, <1>8 DEF Exact
<1> QED
    BY <1>3, <1>9 DEF s

-----------------------------------------------------------------------------
(* One node is expanded.                                                   *)

(* The hypotheses of the lemmas that follow.                               *)
Popping(p, s, b, r) ==
    /\ IsProblem(p) /\ Consistent(p)
    /\ Exact(p, s) /\ IsMemory(p, s) /\ IsMemory(p, r)
    /\ s.found = FALSE /\ Smallest(s, b) /\ Expanded(p, s, b, r)

LEMMA PoppingTypes ==
    ASSUME NEW p, NEW s, NEW b, NEW r, Popping(p, s, b, r)
    PROVE  /\ b \in s.frontier /\ b[2] \in DOMAIN s.cost /\ b[1] \in Nat
           /\ EntryInv(p, s) /\ LevelInv(p, s)
           /\ \A c \in s.frontier : b[1] <= c[1]
           /\ IsProblem(p) /\ IsMemory(p, s) /\ IsMemory(p, r)
    BY EntryTypes DEF Popping, Smallest, Exact

(* A new cost is that of a step from the node, and not below its key.      *)
LEMMA NewEntry ==
    ASSUME NEW p, NEW s, NEW b, NEW r, Popping(p, s, b, r),
           NEW v \in News(p, s, b[2])
    PROVE  /\ v \in DOMAIN r.cost /\ v # b[2]
           /\ Key(p, s, b[2]) <= Key(p, r, v)
           /\ Key(p, r, v) \in Nat
           /\ Entry(p, r, v) \in r.frontier
           /\ Entry(p, r, v)[1] = Key(p, r, v) /\ Entry(p, r, v)[2] = v
<1> DEFINE u == b[2]
<1>1. /\ u \in DOMAIN s.cost /\ IsProblem(p) /\ IsMemory(p, s) /\ IsMemory(p, r)
    BY PoppingTypes
<1>2. Expanded(p, s, b, r)
    BY DEF Popping
<1>3. PICK e \in p.steps : e[1] = u /\ e[2] = v /\ r.cost[v] = s.cost[u] + e[3]
    BY <1>2 DEF Expanded
<1>4. p.guess[u] <= e[3] + p.guess[v]
    BY <1>3 DEF Popping, Consistent
<1>5. e[3] \in Nat /\ e[3] > 0
    BY <1>1, StepTypes
<1>6. v \in DOMAIN r.cost
    BY <1>2 DEF Expanded
<1>7. /\ s.cost[u] \in Nat /\ p.guess[u] \in Nat /\ Key(p, s, u) = s.cost[u] + p.guess[u]
      /\ p.guess[v] \in Nat /\ Key(p, r, v) = r.cost[v] + p.guess[v] /\ Key(p, r, v) \in Nat
    BY <1>1, <1>6, KeyIsNat
<1>8. Key(p, s, u) <= Key(p, r, v)
    BY <1>3, <1>4, <1>5, <1>7
<1>9. v # u
  <2>1. v \in DOMAIN s.cost => r.cost[v] < s.cost[v]
      BY <1>2 DEF Expanded
  <2>2. SUFFICES ASSUME v = u PROVE FALSE
      OBVIOUS
  <2>3. s.cost[u] + e[3] < s.cost[u]
      BY <1>1, <1>3, <2>1, <2>2
  <2> QED
      BY <1>5, <1>7, <2>3
<1>10. Entry(p, r, v) \in r.frontier
    BY <1>2 DEF Expanded
<1>11. Entry(p, r, v)[1] = Key(p, r, v) /\ Entry(p, r, v)[2] = v
    BY DEF Entry, Key
<1> QED
    BY <1>6, <1>7, <1>8, <1>9, <1>10, <1>11

(* The other entries are not below the key of the node that is expanded.   *)
LEMMA OtherEntries ==
    ASSUME NEW p, NEW s, NEW b, NEW r, Popping(p, s, b, r),
           NEW c \in s.frontier, c # b
    PROVE  Key(p, s, b[2]) <= b[1] /\ b[1] <= c[1]
    BY PoppingTypes DEF EntryInv

(* An entry that is out of date belongs to a node that was expanded.       *)
LEMMA StaleIsSettled ==
    ASSUME NEW p, NEW s, NEW b, NEW r, Popping(p, s, b, r), ~(b[1] <= Key(p, s, b[2]))
    PROVE  b[2] \notin Waiting(p, s) /\ News(p, s, b[2]) = {}
<1> DEFINE u == b[2]
<1>1. /\ u \in DOMAIN s.cost /\ b[1] \in Nat /\ IsProblem(p) /\ IsMemory(p, s)
      /\ LevelInv(p, s) /\ \A c \in s.frontier : b[1] <= c[1] /\ c[1] \in Nat
    BY PoppingTypes, EntryTypes
<1>2. Key(p, s, u) \in Nat
    BY <1>1, KeyIsNat
<1>3. ~Waits(p, s, u)
    BY <1>1, <1>2 DEF Waits
<1>4. u \notin Waiting(p, s)
    BY <1>1, <1>3 DEF Waiting
<1>5. Settled(p, s, u)
    BY <1>1, <1>4 DEF LevelInv
<1>6. ASSUME NEW v \in News(p, s, u) PROVE FALSE
  <2>1. PICK e \in p.steps : /\ e[1] = u /\ e[2] = v
                             /\ v \notin DOMAIN s.cost \/ s.cost[u] + e[3] < s.cost[v]
      BY <1>1, NewsAreSteps
  <2>2. v \in DOMAIN s.cost /\ s.cost[v] <= s.cost[u] + e[3]
      BY <1>5, <2>1 DEF Settled
  <2>3. s.cost[u] \in Nat /\ s.cost[v] \in Nat /\ e[3] \in Nat
      BY <1>1, <2>2, KeyIsNat, StepTypes
  <2> QED
      BY <2>1, <2>2, <2>3
<1> QED
    BY <1>4, <1>6

(* No node is reached at a lower cost once it has been expanded.           *)
LEMMA NewsWait ==
    ASSUME NEW p, NEW s, NEW b, NEW r, Popping(p, s, b, r),
           NEW v \in News(p, s, b[2])
    PROVE  v \in Waiting(p, s)
<1> DEFINE u == b[2]
<1>1. /\ u \in DOMAIN s.cost /\ b[1] \in Nat /\ IsProblem(p) /\ IsMemory(p, s) /\ IsMemory(p, r)
      /\ LevelInv(p, s) /\ b \in s.frontier
    BY PoppingTypes
<1>2. b[1] <= Key(p, s, u)
    BY StaleIsSettled
<1>3. SUFFICES ASSUME v \in DOMAIN s.cost, v \notin Waiting(p, s) PROVE FALSE
    BY <1>1, NewsAreSteps DEF Waiting
<1>4. Key(p, s, v) <= b[1]
    BY <1>1, <1>3 DEF LevelInv
<1>5. Key(p, s, u) <= Key(p, r, v) /\ v \in DOMAIN r.cost
    BY NewEntry
<1>6. r.cost[v] < s.cost[v]
    BY <1>3 DEF Popping, Expanded
<1>7. /\ Key(p, s, v) = s.cost[v] + p.guess[v] /\ Key(p, r, v) = r.cost[v] + p.guess[v]
      /\ s.cost[v] \in Nat /\ r.cost[v] \in Nat /\ p.guess[v] \in Nat
      /\ Key(p, s, u) \in Nat
    BY <1>1, <1>3, <1>5, KeyIsNat
<1> QED
    BY <1>1, <1>2, <1>4, <1>5, <1>6, <1>7

LEMMA EntriesAfter ==
    ASSUME NEW p, NEW s, NEW b, NEW r, Popping(p, s, b, r), NEW c \in r.frontier
    PROVE  \/ c \in s.frontier /\ c # b
           \/ c[2] \in News(p, s, b[2]) /\ c = Entry(p, r, c[2])
<1>1. r.frontier = (s.frontier \ {b}) \cup {Entry(p, r, v) : v \in News(p, s, b[2])}
    BY DEF Popping, Expanded
<1> QED
    BY <1>1 DEF Entry

LEMMA CostsAfter ==
    ASSUME NEW p, NEW s, NEW b, NEW r, Popping(p, s, b, r), NEW v
    PROVE  /\ v \in DOMAIN r.cost <=> v \in DOMAIN s.cost \/ v \in News(p, s, b[2])
           /\ v \in DOMAIN s.cost /\ v \notin News(p, s, b[2]) =>
                 r.cost[v] = s.cost[v] /\ Key(p, r, v) = Key(p, s, v)
    BY DEF Popping, Expanded, Key

LEMMA WaitingAfter ==
    ASSUME NEW p, NEW s, NEW b, NEW r, Popping(p, s, b, r)
    PROVE  Waiting(p, r) = Waiting(p, s) \ {b[2]}
<1> DEFINE u == b[2]
           N == News(p, s, u)
<1>1. /\ u \in DOMAIN s.cost /\ b[1] \in Nat /\ IsProblem(p) /\ IsMemory(p, s) /\ IsMemory(p, r)
      /\ b \in s.frontier /\ \A c \in s.frontier : b[1] <= c[1]
    BY PoppingTypes
<1>2. u \notin N
    BY NewEntry
<1>3. ~Waits(p, r, u)
  <2> SUFFICES ASSUME NEW c \in r.frontier, c[2] = u, c[1] <= Key(p, r, u) PROVE FALSE
      BY DEF Waits
  <2>1. c \in s.frontier /\ c # b
      BY <1>2, EntriesAfter
  <2>2. Key(p, s, u) <= b[1] /\ b[1] <= c[1]
      BY <2>1, OtherEntries
  <2>3. Key(p, r, u) = Key(p, s, u)
      BY <1>1, <1>2, CostsAfter
  <2>4. Key(p, s, u) \in Nat /\ c[1] \in Nat /\ c = <<c[1], c[2]>> /\ b = <<b[1], b[2]>>
      BY <1>1, <2>1, KeyIsNat, EntryTypes
  <2>5. c[1] = b[1]
      BY <1>1, <2>2, <2>3, <2>4
  <2> QED
      BY <2>1, <2>4, <2>5
<1>4. ASSUME NEW v \in Waiting(p, r) PROVE v \in Waiting(p, s) /\ v # u
  <2>1. v # u
      BY <1>1, <1>3, CostsAfter DEF Waiting
  <2>2. CASE v \in N
      BY <2>1, <2>2, NewsWait
  <2>3. CASE v \notin N /\ v \in DOMAIN s.cost
    <3>1. v \in DOMAIN r.cost /\ Key(p, r, v) = Key(p, s, v)
        BY <2>3, CostsAfter
    <3>2. PICK c \in r.frontier : c[2] = v /\ c[1] <= Key(p, r, v)
        BY <3>1 DEF Waiting, Waits
    <3>3. c \in s.frontier
        BY <2>3, <3>2, EntriesAfter
    <3>4. Waits(p, s, v)
        BY <3>1, <3>2, <3>3 DEF Waits
    <3> QED
        BY <2>1, <3>4 DEF Waiting
  <2>4. CASE v \notin DOMAIN s.cost
      BY <2>1, <2>4 DEF Waiting
  <2> QED
      BY <2>2, <2>3, <2>4
<1>5. ASSUME NEW v \in Waiting(p, s), v # u PROVE v \in Waiting(p, r)
  <2>1. CASE v \in N
    <3>1. Entry(p, r, v) \in r.frontier /\ Entry(p, r, v)[2] = v
          /\ Entry(p, r, v)[1] <= Key(p, r, v)
        BY <2>1, NewEntry
    <3>2. Waits(p, r, v)
        BY <3>1 DEF Waits
    <3> QED
        BY <3>2 DEF Waiting
  <2>2. CASE v \notin N /\ v \in DOMAIN s.cost
    <3>1. Key(p, r, v) = Key(p, s, v)
        BY <2>2, CostsAfter
    <3>2. PICK c \in s.frontier : c[2] = v /\ c[1] <= Key(p, s, v)
        BY <2>2 DEF Waiting, Waits
    <3>3. c \in r.frontier
        BY <1>5, <3>2 DEF Popping, Expanded
    <3>4. Waits(p, r, v)
        BY <3>1, <3>2, <3>3 DEF Waits
    <3> QED
        BY <3>4 DEF Waiting
  <2>3. CASE v \notin N /\ v \notin DOMAIN s.cost
      BY <2>3, CostsAfter DEF Waiting
  <2> QED
      BY <2>1, <2>2, <2>3
<1> QED
    BY <1>4, <1>5

LEMMA EntryInvAfter ==
    ASSUME NEW p, NEW s, NEW b, NEW r, Popping(p, s, b, r)
    PROVE  EntryInv(p, r)
<1> SUFFICES ASSUME NEW c \in r.frontier PROVE Key(p, r, c[2]) <= c[1]
    BY DEF EntryInv
<1> DEFINE v == c[2]
<1>1. IsProblem(p) /\ IsMemory(p, s) /\ IsMemory(p, r) /\ EntryInv(p, s) /\ b \in s.frontier
    BY PoppingTypes
<1>2. CASE v \in News(p, s, b[2]) /\ c = Entry(p, r, v)
    BY <1>2, NewEntry
<1>3. CASE c \in s.frontier /\ c # b
  <2>1. Key(p, s, v) <= c[1]
      BY <1>1, <1>3 DEF EntryInv
  <2>2. v \in DOMAIN s.cost /\ c[1] \in Nat
      BY <1>1, <1>3, EntryTypes
  <2>3. r.cost[v] <= s.cost[v] /\ v \in DOMAIN r.cost
      BY <1>1, <2>2, CostsOnlyFall DEF Popping
  <2>4. /\ Key(p, s, v) = s.cost[v] + p.guess[v] /\ Key(p, r, v) = r.cost[v] + p.guess[v]
        /\ s.cost[v] \in Nat /\ r.cost[v] \in Nat /\ p.guess[v] \in Nat
      BY <1>1, <2>2, <2>3, KeyIsNat
  <2> HIDE DEF v
  <2>5. Key(p, r, v) <= c[1]
      BY <2>1, <2>2, <2>3, <2>4
  <2> QED
      BY <2>5 DEF v
<1> QED
    BY <1>2, <1>3, EntriesAfter

LEMMA SettledAfter ==
    ASSUME NEW p, NEW s, NEW b, NEW r, Popping(p, s, b, r)
    PROVE  Settled(p, r, b[2])
<1> DEFINE u == b[2]
<1>1. u \in DOMAIN s.cost /\ IsProblem(p) /\ IsMemory(p, s) /\ IsMemory(p, r)
    BY PoppingTypes
<1>2. u \notin News(p, s, u)
    BY NewEntry
<1>3. r.cost[u] = s.cost[u]
    BY <1>1, <1>2, CostsAfter
<1>4. ASSUME NEW e \in p.steps, e[1] = u
      PROVE  e[2] \in DOMAIN r.cost /\ r.cost[e[2]] <= s.cost[u] + e[3]
  <2> DEFINE w == e[2]
  <2>1. w \in DOMAIN r.cost
      BY <1>4 DEF Popping, Expanded
  <2>2. CASE w \in News(p, s, u)
      BY <1>4, <2>1, <2>2 DEF Popping, Expanded
  <2>3. CASE w \notin News(p, s, u)
    <3>1. w \in DOMAIN s.cost
        BY <2>1, <2>3, CostsAfter
    <3> QED
        BY <1>4, <2>1, <2>3, <3>1 DEF Popping, Expanded
  <2> QED
      BY <2>2, <2>3
<1> QED
    BY <1>3, <1>4 DEF Settled

LEMMA LevelInvAfter ==
    ASSUME NEW p, NEW s, NEW b, NEW r, Popping(p, s, b, r)
    PROVE  LevelInv(p, r)
<1> DEFINE u == b[2]
           N == News(p, s, u)
<1>1. /\ u \in DOMAIN s.cost /\ b[1] \in Nat /\ IsProblem(p) /\ IsMemory(p, s) /\ IsMemory(p, r)
      /\ b \in s.frontier /\ LevelInv(p, s)
    BY PoppingTypes
<1> SUFFICES ASSUME NEW v \in DOMAIN r.cost, v \notin Waiting(p, r)
             PROVE  Settled(p, r, v) /\ \A c \in r.frontier : Key(p, r, v) <= c[1]
    BY DEF LevelInv
<1>2. CASE v = u
  <2>1. Settled(p, r, v)
      BY <1>2, SettledAfter
  <2>2. Key(p, r, u) = Key(p, s, u) /\ Key(p, s, u) \in Nat
      BY <1>1, NewEntry, CostsAfter, KeyIsNat
  <2>3. ASSUME NEW c \in r.frontier PROVE Key(p, s, u) <= c[1]
    <3>1. CASE c \in s.frontier /\ c # b
      <4>1. Key(p, s, u) <= b[1] /\ b[1] <= c[1]
          BY <3>1, OtherEntries
      <4>2. c[1] \in Nat
          BY <1>1, <3>1, EntryTypes
      <4> QED
          BY <1>1, <2>2, <4>1, <4>2
    <3>2. CASE c[2] \in N /\ c = Entry(p, r, c[2])
        BY <3>2, NewEntry
    <3> QED
        BY <3>1, <3>2, EntriesAfter
  <2> QED
      BY <1>2, <2>1, <2>2, <2>3
<1>3. CASE v # u
  <2>1. v \notin Waiting(p, s) /\ v \in p.nodes
      BY <1>1, <1>3, WaitingAfter, KeyIsNat
  <2>2. v \in DOMAIN s.cost /\ v \notin N
      BY <2>1, NewsWait DEF Waiting
  <2>3. r.cost[v] = s.cost[v] /\ Key(p, r, v) = Key(p, s, v)
      BY <2>2, CostsAfter
  <2>4. Settled(p, s, v) /\ \A c \in s.frontier : Key(p, s, v) <= c[1]
      BY <1>1, <2>1, <2>2 DEF LevelInv
  <2>5. Settled(p, r, v)
    <3> SUFFICES ASSUME NEW e \in p.steps, e[1] = v
                 PROVE  e[2] \in DOMAIN r.cost /\ r.cost[e[2]] <= r.cost[v] + e[3]
        BY DEF Settled
    <3> DEFINE w == e[2]
    <3>1. w \in DOMAIN s.cost /\ s.cost[w] <= s.cost[v] + e[3]
        BY <2>4 DEF Settled
    <3>2. w \in DOMAIN r.cost /\ r.cost[w] <= s.cost[w] /\ r.cost[w] \in Nat /\ s.cost[w] \in Nat
        BY <1>1, <3>1, CostsOnlyFall DEF Popping
    <3>3. s.cost[v] \in Nat /\ e[3] \in Nat
        BY <1>1, <2>2, KeyIsNat, StepTypes
    <3> HIDE DEF w
    <3>4. r.cost[w] <= r.cost[v] + e[3]
        BY <2>3, <3>1, <3>2, <3>3
    <3> QED
        BY <3>2, <3>4 DEF w
  <2>6. ASSUME NEW c \in r.frontier PROVE Key(p, s, v) <= c[1]
    <3>1. CASE c \in s.frontier /\ c # b
        BY <2>4, <3>1
    <3>2. CASE c[2] \in N /\ c = Entry(p, r, c[2])
      <4>1. b[1] <= Key(p, s, u)
          BY <3>2, StaleIsSettled
      <4>2. Key(p, s, v) <= b[1]
          BY <1>1, <2>4
      <4>3. Key(p, s, u) <= c[1] /\ c[1] \in Nat
          BY <3>2, NewEntry
      <4>4. Key(p, s, u) \in Nat /\ Key(p, s, v) \in Nat
          BY <1>1, <2>2, KeyIsNat
      <4> QED
          BY <1>1, <4>1, <4>2, <4>3, <4>4
    <3> QED
        BY <3>1, <3>2, EntriesAfter
  <2> QED
      BY <2>3, <2>5, <2>6
<1> QED
    BY <1>2, <1>3

(* When the goal is popped, everything that is nearer has been expanded.   *)
LEMMA StoppedIsExact ==
    ASSUME NEW p, IsProblem(p), Consistent(p), NEW s, Exact(p, s), s.found = FALSE,
           NEW b, Smallest(s, b), b[2] = p.goal, NEW r, Rooted(p, r), Stopped(s, b, r)
    PROVE  Exact(p, r)
<1>1. IsMemory(p, s) /\ EntryInv(p, s) /\ LevelInv(p, s) /\ p.goal \in Waiting(p, s)
    BY DEF Exact, Rooted
<1>2. b \in s.frontier /\ b[1] \in Nat /\ p.goal \in DOMAIN s.cost
      /\ \A c \in s.frontier : b[1] <= c[1] /\ c[1] \in Nat
    BY <1>1, EntryTypes DEF Smallest
<1>3. p.guess[p.goal] = 0
    BY DEF Consistent
<1>4. s.cost[p.goal] \in Nat /\ Key(p, s, p.goal) = s.cost[p.goal]
    BY <1>1, <1>2, <1>3, KeyIsNat
<1>5. s.cost[p.goal] <= b[1] \/ (s.frontier = {b} /\ b = <<0, p.start>>)
    BY <1>1, <1>2, <1>4 DEF EntryInv
<1>6. s.cost[p.goal] <= b[1]
  <2>1. CASE b = <<0, p.start>>
    <3>1. p.goal = p.start /\ s.cost[p.start] = 0
        BY <2>1 DEF Exact, Rooted
    <3> QED
        BY <1>2, <3>1
  <2> QED
      BY <1>5, <2>1
<1>7. ASSUME NEW v \in DOMAIN s.cost, Key(p, s, v) < s.cost[p.goal] PROVE Settled(p, s, v)
  <2>1. Key(p, s, v) \in Nat
      BY <1>1, KeyIsNat
  <2>2. ~Waits(p, s, v)
    <3> SUFFICES ASSUME NEW c \in s.frontier, c[1] <= Key(p, s, v) PROVE FALSE
        BY DEF Waits
    <3> QED
        BY <1>2, <1>4, <1>6, <1>7, <2>1
  <2> QED
      BY <1>1, <2>2 DEF LevelInv, Waiting
<1>8. r.cost = s.cost /\ r.frontier = s.frontier \ {b} /\ r.found = TRUE
    BY DEF Stopped
<1>9. \A v \in DOMAIN r.cost : Key(p, r, v) = Key(p, s, v)
    BY <1>8 DEF Key
<1>10. \A v \in DOMAIN r.cost : Settled(p, s, v) => Settled(p, r, v)
    BY <1>8 DEF Settled
<1>11. StoppedInv(p, r)
    BY <1>2, <1>7, <1>8, <1>9, <1>10 DEF StoppedInv
<1>12. IsFiniteSet(r.frontier)
    BY <1>8, FS_Subset DEF Exact
<1> QED
    BY <1>8, <1>11, <1>12 DEF Exact

-----------------------------------------------------------------------------
(* What is left to do falls with every turn.                               *)
StepsFrom(p, W) == {e \in p.steps : e[1] \in W}
Work(p, s) == Cardinality(s.frontier) + Cardinality(StepsFrom(p, Waiting(p, s)))

LEMMA StepsAreFinite ==
    ASSUME NEW p, IsProblem(p), NEW W
    PROVE  /\ IsFiniteSet(StepsFrom(p, W)) /\ Cardinality(StepsFrom(p, W)) \in Nat
           /\ Cardinality(StepsFrom(p, W)) <= Cardinality(p.steps)
<1>1. StepsFrom(p, W) \in SUBSET p.steps /\ IsFiniteSet(p.steps)
    BY DEF IsProblem, StepsFrom
<1> QED
    BY <1>1, FS_Subset, FS_CardinalityType

LEMMA FewNewEntries ==
    ASSUME NEW p, NEW s, NEW b, NEW r, Popping(p, s, b, r),
           NEW Q, Q = {Entry(p, r, v) : v \in News(p, s, b[2])}
    PROVE  /\ IsFiniteSet(Q) /\ Cardinality(Q) \in Nat
           /\ Cardinality(Q) <= Cardinality(StepsFrom(p, {b[2]}))
<1> DEFINE u == b[2]
           E == StepsFrom(p, {u})
           f == [c \in Q |-> CHOOSE e \in p.steps : e[1] = u /\ e[2] = c[2]]
<1>1. IsProblem(p) /\ IsMemory(p, s) /\ u \in DOMAIN s.cost
    BY PoppingTypes
<1>2. ASSUME NEW c \in Q
      PROVE  /\ f[c] \in p.steps /\ f[c][1] = u /\ f[c][2] = c[2]
             /\ c = Entry(p, r, c[2])
  <2>1. c[2] \in News(p, s, u) /\ c = Entry(p, r, c[2])
      BY DEF Entry
  <2>2. \E e \in p.steps : e[1] = u /\ e[2] = c[2]
      BY <1>1, <2>1, NewsAreSteps
  <2> QED
      BY <2>1, <2>2
<1> HIDE DEF f
<1>3. f \in [Q -> E]
  <2>1. \A c \in Q : f[c] \in E
      BY <1>2 DEF StepsFrom
  <2>2. f = [c \in Q |-> f[c]]
      BY DEF f
  <2> QED
      BY <2>1, <2>2
<1>4. \A c, d \in Q : f[c] = f[d] => c = d
    BY <1>2
<1>5. f \in Injection(Q, E)
    BY <1>3, <1>4 DEF Injection, IsInjective
<1>6. IsFiniteSet(E)
    BY <1>1, StepsAreFinite
<1> QED
    BY <1>5, <1>6, FS_Injection, FS_CardinalityType

LEMMA WorkFalls ==
    ASSUME NEW p, NEW s, NEW b, NEW r, Popping(p, s, b, r)
    PROVE  /\ IsFiniteSet(r.frontier)
           /\ Work(p, s) \in Nat /\ Work(p, r) \in Nat /\ Work(p, r) + 1 <= Work(p, s)
<1> DEFINE u == b[2]
           Q == {Entry(p, r, v) : v \in News(p, s, u)}
           Rest == s.frontier \ {b}
           W == Waiting(p, s)
           V == Waiting(p, r)
<1>1. IsProblem(p) /\ b \in s.frontier
    BY PoppingTypes
<1>2. IsFiniteSet(s.frontier) /\ Cardinality(s.frontier) \in Nat
    BY FS_CardinalityType DEF Popping, Exact
<1>3. IsFiniteSet(Rest) /\ Cardinality(Rest) = Cardinality(s.frontier) - 1
      /\ Cardinality(Rest) \in Nat
    BY <1>1, <1>2, FS_RemoveElement, FS_CardinalityType
<1>4. /\ IsFiniteSet(Q) /\ Cardinality(Q) \in Nat
      /\ Cardinality(Q) <= Cardinality(StepsFrom(p, {u}))
    BY FewNewEntries
<1>5. r.frontier = Rest \cup Q
    BY DEF Popping, Expanded
<1> HIDE DEF Q, Rest
<1>6. /\ IsFiniteSet(r.frontier) /\ Cardinality(r.frontier) \in Nat
      /\ Cardinality(r.frontier) <= Cardinality(Rest) + Cardinality(Q)
  <2>1. /\ IsFiniteSet(Rest \cup Q)
        /\ Cardinality(Rest \cup Q) =
              Cardinality(Rest) + Cardinality(Q) - Cardinality(Rest \cap Q)
      BY <1>3, <1>4, FS_Union
  <2>2. Cardinality(Rest \cap Q) \in Nat
      BY <1>3, FS_Intersection, FS_CardinalityType
  <2>3. Cardinality(Rest \cup Q) \in Nat
      BY <2>1, FS_CardinalityType
  <2> QED
      BY <1>3, <1>4, <1>5, <2>1, <2>2, <2>3
<1>7. V = W \ {u}
    BY WaitingAfter
<1>8. /\ Cardinality(StepsFrom(p, W)) \in Nat /\ Cardinality(StepsFrom(p, V)) \in Nat
      /\ Cardinality(StepsFrom(p, {u})) \in Nat
    BY <1>1, StepsAreFinite
<1>9. CASE u \in W
  <2> DEFINE A == StepsFrom(p, V)
             B == StepsFrom(p, {u})
  <2>1. StepsFrom(p, W) = A \cup B /\ A \cap B = {}
      BY <1>7, <1>9 DEF StepsFrom
  <2>2. IsFiniteSet(A) /\ IsFiniteSet(B)
      BY <1>1, StepsAreFinite
  <2> HIDE DEF A, B, W, V
  <2>3. Cardinality(StepsFrom(p, W)) = Cardinality(A) + Cardinality(B) - Cardinality({})
      BY <2>1, <2>2, FS_Union
  <2>4. Cardinality(StepsFrom(p, W)) = Cardinality(StepsFrom(p, V)) + Cardinality(StepsFrom(p, {u}))
      BY <1>8, <2>3, FS_EmptySet DEF A, B
  <2> QED
      BY <1>2, <1>3, <1>4, <1>6, <1>8, <2>4 DEF Work, W, V
<1>10. CASE u \notin W
  <2>1. V = W
      BY <1>7, <1>10
  <2>2. Q = {}
    <3>1. News(p, s, u) = {}
      <4>1. CASE b[1] <= Key(p, s, u)
        <5>1. Waits(p, s, u)
            BY <1>1, <4>1 DEF Waits
        <5>2. u \in p.nodes
            BY PoppingTypes, KeyIsNat
        <5> QED
            BY <1>10, <5>1, <5>2 DEF Waiting
      <4> QED
          BY <4>1, StaleIsSettled
    <3> QED
        BY <3>1 DEF Q
  <2>3. Cardinality(Q) = 0
      BY <2>2, FS_EmptySet
  <2> HIDE DEF W, V
  <2> QED
      BY <1>2, <1>3, <1>6, <1>8, <2>1, <2>3 DEF Work, W, V
<1> QED
    BY <1>6, <1>9, <1>10

-----------------------------------------------------------------------------
(* The whole search.                                                       *)

LEMMA TurnIsExact ==
    ASSUME NEW p, IsProblem(p), Consistent(p), NEW s, Exact(p, s), ~Finished(s),
           NEW r, r = Turn(p, s)
    PROVE  /\ Exact(p, r)
           /\ \/ Finished(r)
              \/ Work(p, s) \in Nat /\ Work(p, r) \in Nat /\ Work(p, r) + 1 <= Work(p, s)
<1>1. Rooted(p, s) /\ IsMemory(p, s)
    BY DEF Exact, Rooted
<1>2. s.found = FALSE
    BY <1>1, Zenon DEF Finished, IsMemory
<1>3. IsMemory(p, r) /\ Rooted(p, r)
    BY <1>1, TurnCases, TurnIsRooted
<1>4. PICK b : /\ Smallest(s, b)
               /\ \/ b[2] = p.goal /\ Stopped(s, b, r)
                  \/ b[2] # p.goal /\ Expanded(p, s, b, r)
    BY <1>1, TurnCases
<1>5. CASE b[2] = p.goal /\ Stopped(s, b, r)
  <2>1. Exact(p, r)
      BY <1>2, <1>3, <1>4, <1>5, StoppedIsExact
  <2>2. Finished(r)
      BY <1>5 DEF Stopped, Finished
  <2> QED
      BY <2>1, <2>2
<1>6. CASE b[2] # p.goal /\ Expanded(p, s, b, r)
  <2>1. Popping(p, s, b, r)
      BY <1>1, <1>2, <1>3, <1>4, <1>6 DEF Popping
  <2>2. /\ IsFiniteSet(r.frontier)
        /\ Work(p, s) \in Nat /\ Work(p, r) \in Nat /\ Work(p, r) + 1 <= Work(p, s)
      BY <2>1, WorkFalls
  <2>3. EntryInv(p, r) /\ LevelInv(p, r)
      BY <2>1, EntryInvAfter, LevelInvAfter
  <2>4. p.goal \in Waiting(p, r)
    <3>1. p.goal \in Waiting(p, s)
        BY <1>2 DEF Exact
    <3> QED
        BY <1>6, <2>1, <3>1, WaitingAfter
  <2>5. r.found = FALSE
      BY <1>6 DEF Expanded
  <2>6. Exact(p, r)
      BY <1>3, <2>2, <2>3, <2>4, <2>5 DEF Exact
  <2> QED
      BY <2>2, <2>6
<1> QED
    BY <1>4, <1>5, <1>6

(* The search ends within its bound, and is exact then.                    *)
LEMMA SearchEnds ==
    ASSUME NEW p, IsProblem(p), Consistent(p), NEW s \in Search(p)
    PROVE  Exact(p, s) /\ Finished(s)
<1> DEFINE S == {t \in Memories(p) : Exact(p, t)}
           n == MaxTurns(p)
<1>1. \A t : Exact(p, t) => t \in S
    BY MemoriesAre DEF Exact, Rooted
<1>2. ASSUME NEW t \in S PROVE Turn(p, t) \in S
  <2>1. CASE Finished(t)
      BY <2>1 DEF Turn
  <2>2. CASE ~Finished(t)
    <3>1. Exact(p, Turn(p, t))
        BY <2>2, TurnIsExact
    <3> QED
        BY <1>1, <3>1
  <2> QED
      BY <2>1, <2>2
<1>3. Kept(p, S)
    BY <1>1, <1>2, StartedIsExact DEF Kept
<1>4. \A t \in S : Exact(p, t)
    OBVIOUS
<1> HIDE DEF S
<1>5. PICK g : Runs(p, S, g)
    BY <1>3, TurnsAreNat, TurnsStay
<1>6. n \in Nat /\ n = 1 + Cardinality(p.steps) /\ Cardinality(p.steps) \in Nat
    BY TurnsAreNat, FS_CardinalityType DEF IsProblem, MaxTurns
<1>7. \A k \in 0 .. n : Exact(p, g[k])
    BY <1>4, <1>5 DEF Runs
<1>8. g[0] = Started(p) /\ s = g[n] /\ \A k \in 1 .. n : g[k] = Turn(p, g[k - 1])
    BY <1>5 DEF Runs
<1> HIDE DEF n
<1> DEFINE Left(k) == Work(p, g[k]) \in Nat /\ Work(p, g[k]) + k <= n
           T == {k \in Nat : k <= n => Finished(g[k]) \/ Left(k)}
<1>9. Left(0)
  <2> DEFINE s0 == Started(p)
             A == Cardinality(StepsFrom(p, Waiting(p, s0)))
  <2>1. Cardinality(s0.frontier) = 1
      BY StartedIsExact
  <2>2. A \in Nat /\ A <= Cardinality(p.steps)
      BY StepsAreFinite
  <2>3. Work(p, s0) = 1 + A
      BY <2>1 DEF Work
  <2> HIDE DEF A, s0
  <2>4. Work(p, s0) \in Nat /\ Work(p, s0) + 0 <= n
      BY <1>6, <2>2, <2>3
  <2> QED
      BY <1>8, <2>4 DEF s0
<1>10. ASSUME NEW k \in T PROVE k + 1 \in T
  <2> SUFFICES ASSUME k + 1 <= n PROVE Finished(g[k + 1]) \/ Left(k + 1)
      OBVIOUS
  <2>1. k \in 0 .. n /\ k + 1 \in 1 .. n /\ (k + 1) - 1 = k
      BY <1>6
  <2>2. g[k + 1] = Turn(p, g[k]) /\ Exact(p, g[k])
      BY <1>7, <1>8, <2>1
  <2>3. CASE Finished(g[k])
    <3>1. g[k + 1] = g[k]
        BY <2>2, <2>3 DEF Turn
    <3> QED
        BY <2>3, <3>1
  <2>4. CASE ~Finished(g[k])
    <3>1. Finished(g[k + 1]) \/ (Work(p, g[k + 1]) \in Nat /\ Work(p, g[k + 1]) + 1 <= Work(p, g[k]))
        BY <2>2, <2>4, TurnIsExact
    <3>2. Work(p, g[k]) \in Nat /\ Work(p, g[k]) + k <= n
        BY <2>1, <2>4
    <3> QED
        BY <1>6, <3>1, <3>2
  <2> QED
      BY <2>3, <2>4
<1>11. T \subseteq Nat /\ 0 \in T
    BY <1>9
<1> HIDE DEF T
<1>12. T = Nat
    BY <1>10, <1>11, NatInd
<1>13. Finished(g[n]) \/ Left(n)
    BY <1>6, <1>12 DEF T
<1>14. ASSUME Left(n) PROVE g[n].frontier = {}
  <2>1. n \in 0 .. n
      BY <1>6
  <2>2. IsFiniteSet(g[n].frontier)
      BY <1>7, <2>1 DEF Exact
  <2> DEFINE a == Cardinality(g[n].frontier)
             c == Cardinality(StepsFrom(p, Waiting(p, g[n])))
  <2>3. a \in Nat /\ c \in Nat
      BY <2>2, FS_CardinalityType, StepsAreFinite
  <2>4. a + c + n <= n
      BY <1>14 DEF Work
  <2> HIDE DEF a, c
  <2>5. a = 0
      BY <1>6, <2>3, <2>4
  <2> QED
      BY <2>2, <2>5, FS_EmptySet DEF a
<1>15. Finished(g[n])
    BY <1>13, <1>14 DEF Finished
<1>16. n \in 0 .. n
    BY <1>6
<1> QED
    BY <1>7, <1>8, <1>15, <1>16

-----------------------------------------------------------------------------
(* A plan is a walk from the start to the goal.                            *)
(* Each node of q follows from the one before by a step.                   *)
Joined(steps, q) ==
    \A i \in 1 .. Len(q) - 1 : \E e \in steps : e[1] = q[i] /\ e[2] = q[i + 1]

IsWalk(p, q) ==
    /\ q \in Seq(p.nodes) /\ Len(q) > 0
    /\ q[1] = p.start /\ q[Len(q)] = p.goal
    /\ Joined(p.steps, q)

LEMMA ChainElement ==
    ASSUME NEW D, NEW q \in Seq(D), NEW i \in 1 .. Len(q) - 1
    PROVE  q[i] \in D /\ q[i + 1] \in D /\ i \in 1 .. Len(q) /\ i + 1 \in 1 .. Len(q)
    OBVIOUS

LEMMA ChainIsWalk ==
    ASSUME NEW p, IsProblem(p), NEW s, Rooted(p, s), NEW q, Chain(p, s, p.goal, q)
    PROVE  IsWalk(p, q)
<1>1. DOMAIN s.cost \subseteq p.nodes
    BY DEF Rooted, IsMemory
<1>2. q \in Seq(DOMAIN s.cost) /\ Len(q) > 0
    BY DEF Chain
<1>3. q \in Seq(p.nodes)
  <2>1. \A i \in 1 .. Len(q) : q[i] \in p.nodes
      BY <1>1, <1>2
  <2> QED
      BY <1>2, <2>1
<1>4. ASSUME NEW i \in 1 .. Len(q) - 1
      PROVE  \E e \in p.steps : e[1] = q[i] /\ e[2] = q[i + 1]
  <2>1. q[i + 1] \in DOMAIN s.cost
      BY <1>2, ChainElement
  <2>2. q[i + 1] # p.start /\ s.came[q[i + 1]] = q[i]
      BY DEF Chain
  <2> QED
      BY <2>1, <2>2 DEF Rooted
<1> QED
    BY <1>2, <1>3, <1>4 DEF IsWalk, Chain, Joined

LEMMA PlanOfSearch ==
    ASSUME NEW p, IsProblem(p), NEW q \in BestFirst(p)
    PROVE  \E s \in Search(p) : /\ Rooted(p, s) /\ p.goal \in DOMAIN s.cost
                                /\ q = [nodes |-> Back(p, s.came)[p.goal], cost |-> s.cost[p.goal]]
                                /\ Chain(p, s, p.goal, q.nodes)
<1>1. PICK s \in Search(p) :
         /\ p.goal \in DOMAIN s.came
         /\ q = [nodes |-> Back(p, s.came)[p.goal], cost |-> s.cost[p.goal]]
    BY DEF BestFirst
<1>2. Rooted(p, s)
    BY SearchIsRooted
<1>3. p.goal \in DOMAIN s.cost
    BY <1>1, <1>2 DEF Rooted, IsMemory
<1>4. Chain(p, s, p.goal, Back(p, s.came)[p.goal])
    BY <1>2, <1>3, BackIsChain
<1>5. q.nodes = Back(p, s.came)[p.goal]
    BY <1>1
<1> QED
    BY <1>1, <1>2, <1>3, <1>4, <1>5

(* Every plan is a walk from the start to the goal, whatever the costs.    *)
LEMMA PlansAreWalks ==
    ASSUME NEW p, IsProblem(p), NEW q \in BestFirst(p)
    PROVE  IsWalk(p, q.nodes) /\ q.cost \in Nat /\ q = [nodes |-> q.nodes, cost |-> q.cost]
<1>1. PICK s \in Search(p) : /\ Rooted(p, s) /\ p.goal \in DOMAIN s.cost
                             /\ q = [nodes |-> Back(p, s.came)[p.goal], cost |-> s.cost[p.goal]]
                             /\ Chain(p, s, p.goal, q.nodes)
    BY PlanOfSearch
<1>2. s.cost[p.goal] \in Nat
    BY <1>1 DEF Rooted, IsMemory
<1>3. q.cost = s.cost[p.goal] /\ q = [nodes |-> q.nodes, cost |-> q.cost]
    BY <1>1
<1> QED
    BY <1>1, <1>2, <1>3, ChainIsWalk

-----------------------------------------------------------------------------
(* The reference: rounds of relaxation.                                    *)
(* A problem as the reference sees it, without estimate and order.         *)
IsGraph(r) ==
    /\ IsFiniteSet(r.nodes) /\ Cardinality(r.nodes) \in Nat
    /\ r.steps \subseteq r.nodes \X r.nodes \X (Nat \ {0})
    /\ r.start \in r.nodes

(* Nodes with costs, which is what the rounds are about.                   *)
Pairs(r) == r.nodes \X Nat

(* K are the rounds of the reference.                                      *)
IsRounds(r, K) ==
    /\ K \in [0 .. Cardinality(r.nodes) -> SUBSET Pairs(r)]
    /\ K[0] = {<<r.start, 0>>}
    /\ \A k \in 1 .. Cardinality(r.nodes) : K[k] = Least(Further(r, K[k - 1]))
    /\ LeastCosts(r) = K[Cardinality(r.nodes)]

LEMMA FurtherTypes ==
    ASSUME NEW r, IsGraph(r), NEW known \in SUBSET Pairs(r)
    PROVE  Further(r, known) \in SUBSET Pairs(r) /\ Least(Further(r, known)) \in SUBSET Pairs(r)
<1>1. ASSUME NEW a \in known, NEW e \in r.steps PROVE <<e[2], a[2] + e[3]>> \in Pairs(r)
  <2>1. a[2] \in Nat
      BY DEF Pairs
  <2>2. e[2] \in r.nodes /\ e[3] \in Nat
      BY DEF IsGraph
  <2> QED
      BY <2>1, <2>2 DEF Pairs
<1>2. Further(r, known) \in SUBSET Pairs(r)
    BY <1>1 DEF Further
<1> QED
    BY <1>2 DEF Least

RoundAfter(r, prior) == {Least(all) : all \in {Further(r, known) : known \in prior}}

LEMMA RoundsExist ==
    ASSUME NEW r, IsGraph(r)
    PROVE  \E K : IsRounds(r, K)
<1> DEFINE n == Cardinality(r.nodes)
           S == SUBSET Pairs(r)
           base == {<<r.start, 0>>}
           step == [k \in 1 .. n |-> [known \in S |-> Least(Further(r, known))]]
<1>0. n \in Nat
    BY DEF IsGraph
<1> HIDE DEF n
<1>1. Iterable(S, base, step, n)
  <2>1. base \in S
      BY DEF IsGraph, Pairs
  <2>2. [known \in S |-> Least(Further(r, known))] \in [S -> S]
      BY FurtherTypes
  <2> HIDE DEF S, base
  <2> QED
      BY <1>0, <2>1, <2>2 DEF Iterable
<1> HIDE DEF step
<1>2. PICK K : Iterates(K, S, base, step, n)
    BY <1>1, Recursion
<1>3. K \in [0 .. n -> S] /\ K[0] = base
    BY <1>2 DEF Iterates
<1>4. ASSUME NEW k \in 1 .. n PROVE K[k] = Least(Further(r, K[k - 1])) /\ K[k - 1] \in S
  <2>1. k - 1 \in 0 .. n /\ K[k] = step[k][K[k - 1]]
      BY <1>0, <1>2 DEF Iterates
  <2>2. K[k - 1] \in S
      BY <1>3, <2>1
  <2> HIDE DEF S
  <2> QED
      BY <2>1, <2>2 DEF step
<1> HIDE DEF S
<1> DEFINE f == [k \in 0 .. n |-> {K[k]}]
<1>5. f = [k \in 0 .. n |-> IF k = 0 THEN {base}
                            ELSE {Least(all) : all \in {Further(r, known) : known \in f[k - 1]}}]
  <2>1. ASSUME NEW k \in 0 .. n
        PROVE  f[k] = IF k = 0 THEN {base}
                      ELSE {Least(all) : all \in {Further(r, known) : known \in f[k - 1]}}
    <3>1. CASE k = 0
        BY <1>3, <3>1
    <3>2. CASE k # 0
      <4>1. k \in 1 .. n /\ k - 1 \in 0 .. n
          BY <1>0, <3>2
      <4>2. f[k - 1] = {K[k - 1]}
          BY <4>1
      <4>3. {Least(all) : all \in {Further(r, known) : known \in f[k - 1]}} = {K[k]}
          BY <1>4, <4>1, <4>2
      <4> QED
          BY <3>2, <4>3
    <3> QED
        BY <3>1, <3>2
  <2> QED
      BY <2>1
<1> DEFINE F == Rounds(r)
<1>6. F = [k \in 0 .. n |-> IF k = 0 THEN {base}
                            ELSE {Least(all) : all \in {Further(r, known) : known \in F[k - 1]}}]
    BY <1>5 DEF Rounds, n
<1> HIDE DEF F, f, base
<1>61. F[0] = {base} /\ \A k \in 1 .. n : F[k] = RoundAfter(r, F[k - 1])
  <2>1. F = [k \in 0 .. n |-> IF k = 0 THEN {base} ELSE RoundAfter(r, F[k - 1])]
      BY <1>6 DEF RoundAfter
  <2>2. 0 \in 0 .. n /\ \A k \in 1 .. n : k \in 0 .. n /\ k # 0
      BY <1>0
  <2>3. F[0] = {base}
      BY <2>1, <2>2
  <2>4. ASSUME NEW k \in 1 .. n PROVE F[k] = RoundAfter(r, F[k - 1])
      BY <2>1, <2>2
  <2> QED
      BY <2>3, <2>4
<1> DEFINE T == {k \in Nat : k <= n => F[k] = {K[k]}}
<1>7. 0 \in T
    BY <1>3, <1>61
<1>8. ASSUME NEW k \in T PROVE k + 1 \in T
  <2> SUFFICES ASSUME k + 1 <= n PROVE F[k + 1] = {K[k + 1]}
      OBVIOUS
  <2>1. F[k] = {K[k]} /\ k + 1 \in 1 .. n /\ (k + 1) - 1 = k
      BY <1>0
  <2>2. F[k + 1] = RoundAfter(r, F[k])
      BY <1>61, <2>1
  <2> QED
      BY <1>4, <2>1, <2>2 DEF RoundAfter
<1>9. T \subseteq Nat
    OBVIOUS
<1> HIDE DEF T
<1>10. T = Nat
    BY <1>7, <1>8, <1>9, NatInd
<1>11. F[n] = {K[n]}
    BY <1>0, <1>10 DEF T
<1>12. LeastCosts(r) = K[n]
    BY <1>11 DEF LeastCosts, F, n
<1>13. IsRounds(r, K)
    BY <1>3, <1>4, <1>12 DEF IsRounds, n, S, base
<1> QED
    BY <1>13

(* The least of the costs that are known of a node is kept.                *)
LEMMA LeastHas ==
    ASSUME NEW r, NEW all \in SUBSET Pairs(r), NEW a \in all
    PROVE  \E x \in Nat : <<a[1], x>> \in Least(all) /\ x <= a[2]
<1> DEFINE C == {b[2] : b \in {d \in all : d[1] = a[1]}}
<1>1. \A b \in all : b = <<b[1], b[2]>> /\ b[2] \in Nat
    BY DEF Pairs
<1>2. C \subseteq Nat /\ a[2] \in C
    BY <1>1
<1>3. PICK x \in C : \A m \in C : x <= m
    BY <1>2, LeastNat
<1>4. <<a[1], x>> \in all
    BY <1>1, <1>3
<1>5. \A b \in all : a[1] = b[1] => x <= b[2]
    BY <1>3
<1> QED
    BY <1>2, <1>3, <1>4, <1>5 DEF Least

LEMMA NextRound ==
    ASSUME NEW r, IsGraph(r), NEW known \in SUBSET Pairs(r), NEW a \in known
    PROVE  /\ \E x \in Nat : <<a[1], x>> \in Least(Further(r, known)) /\ x <= a[2]
           /\ \A e \in r.steps : e[1] = a[1] =>
                 \E x \in Nat : <<e[2], x>> \in Least(Further(r, known)) /\ x <= a[2] + e[3]
<1> DEFINE all == Further(r, known)
<1>1. all \in SUBSET Pairs(r)
    BY FurtherTypes
<1>2. a \in all
    BY DEF Further
<1>3. ASSUME NEW e \in r.steps, e[1] = a[1] PROVE <<e[2], a[2] + e[3]>> \in all
    BY <1>3 DEF Further
<1> HIDE DEF all
<1>4. \E x \in Nat : <<a[1], x>> \in Least(all) /\ x <= a[2]
    BY <1>1, <1>2, LeastHas
<1>5. ASSUME NEW e \in r.steps, e[1] = a[1]
      PROVE  \E x \in Nat : <<e[2], x>> \in Least(all) /\ x <= a[2] + e[3]
  <2> DEFINE b == <<e[2], a[2] + e[3]>>
  <2>1. b \in all
      BY <1>3, <1>5
  <2>2. b[1] = e[2] /\ b[2] = a[2] + e[3]
      OBVIOUS
  <2> HIDE DEF b
  <2>3. \E x \in Nat : <<b[1], x>> \in Least(all) /\ x <= b[2]
      BY <1>1, <2>1, LeastHas
  <2> QED
      BY <2>2, <2>3
<1> QED
    BY <1>4, <1>5 DEF all

(* Where a pair of a round comes from.                                     *)
LEMMA PairComesFrom ==
    ASSUME NEW r, NEW known, NEW a \in Least(Further(r, known))
    PROVE  \/ a \in known
           \/ \E b \in known, e \in r.steps : e[1] = b[1] /\ a = <<e[2], b[2] + e[3]>>
    BY DEF Least, Further

-----------------------------------------------------------------------------
(* The search against the reference.                                       *)

(* r asks the same as p, without the estimate and the order of the heap.   *)
SameGraph(r, p) ==
    /\ r.nodes = p.nodes /\ r.steps = p.steps
    /\ r.start = p.start /\ r.goal = p.goal

LEMMA GraphOfProblem ==
    ASSUME NEW p, IsProblem(p), NEW r, SameGraph(r, p)
    PROVE  IsGraph(r)
    BY FS_CardinalityType DEF IsProblem, IsGraph, SameGraph

(* No walk to v is cheaper than x, as far as the search has looked.        *)
Beyond(p, s, v, x) ==
    \/ v \in DOMAIN s.cost /\ s.cost[v] <= x
    \/ s.cost[p.goal] <= x + p.guess[v]

LEMMA BeyondStep ==
    ASSUME NEW p, IsProblem(p), Consistent(p), NEW s, IsMemory(p, s), StoppedInv(p, s),
           NEW e \in p.steps, NEW x \in Nat, Beyond(p, s, e[1], x)
    PROVE  Beyond(p, s, e[2], x + e[3])
<1> DEFINE u == e[1]
           v == e[2]
           c == e[3]
           best == s.cost[p.goal]
<1>1. c \in Nat /\ p.guess[u] \in Nat /\ p.guess[v] \in Nat /\ p.guess[u] <= c + p.guess[v]
    BY StepTypes DEF IsProblem, Consistent
<1>2. p.goal \in DOMAIN s.cost /\ best \in Nat
    BY DEF StoppedInv, IsMemory
<1>3. CASE best <= x + p.guess[u]
  <2> HIDE DEF best, c, u, v
  <2>1. best <= (x + c) + p.guess[v]
      BY <1>1, <1>2, <1>3
  <2> QED
      BY <2>1 DEF Beyond, best, c, v
<1>4. CASE u \in DOMAIN s.cost /\ s.cost[u] <= x
  <2>1. s.cost[u] \in Nat /\ Key(p, s, u) = s.cost[u] + p.guess[u]
      BY <1>4, KeyIsNat
  <2>2. CASE Key(p, s, u) < best
    <3>1. Settled(p, s, u)
        BY <1>4, <2>2 DEF StoppedInv
    <3>2. v \in DOMAIN s.cost /\ s.cost[v] <= s.cost[u] + c
        BY <3>1 DEF Settled
    <3>3. s.cost[v] \in Nat
        BY <3>2, KeyIsNat
    <3> HIDE DEF u, v, c
    <3>4. s.cost[v] <= x + c
        BY <1>1, <1>4, <2>1, <3>2, <3>3
    <3> QED
        BY <3>2, <3>4 DEF Beyond, v, c
  <2>3. CASE ~(Key(p, s, u) < best)
    <3> HIDE DEF best, c, u, v
    <3>1. best <= (x + c) + p.guess[v]
        BY <1>1, <1>2, <1>4, <2>1, <2>3
    <3> QED
        BY <3>1 DEF Beyond, best, c, v
  <2> QED
      BY <2>2, <2>3
<1> QED
    BY <1>3, <1>4 DEF Beyond

LEMMA BeyondGoal ==
    ASSUME NEW p, IsProblem(p), Consistent(p), NEW s, NEW x \in Nat, Beyond(p, s, p.goal, x)
    PROVE  s.cost[p.goal] <= x
    BY DEF Beyond, Consistent

LEMMA BeyondStart ==
    ASSUME NEW p, NEW s, Rooted(p, s)
    PROVE  Beyond(p, s, p.start, 0)
    BY DEF Beyond, Rooted

(* The rounds find no less than the search ...                             *)
LEMMA RoundsAreBeyond ==
    ASSUME NEW p, IsProblem(p), Consistent(p), NEW s, Rooted(p, s), StoppedInv(p, s),
           NEW r, SameGraph(r, p), NEW K, IsRounds(r, K), NEW a \in LeastCosts(r)
    PROVE  Beyond(p, s, a[1], a[2])
<1> DEFINE n == Cardinality(r.nodes)
           T == {k \in Nat : k <= n => \A c \in K[k] : Beyond(p, s, c[1], c[2])}
<1>1. n \in Nat /\ IsGraph(r) /\ IsMemory(p, s)
    BY GraphOfProblem DEF IsGraph, Rooted
<1>2. /\ K[0] = {<<p.start, 0>>} /\ LeastCosts(r) = K[n]
      /\ \A k \in 1 .. n : K[k] = Least(Further(r, K[k - 1]))
      /\ \A k \in 0 .. n : K[k] \subseteq Pairs(r)
    BY DEF IsRounds, SameGraph
<1>3. 0 \in T
    BY <1>2, BeyondStart
<1> HIDE DEF n
<1>4. ASSUME NEW k \in T PROVE k + 1 \in T
  <2> SUFFICES ASSUME k + 1 <= n, NEW c \in K[k + 1] PROVE Beyond(p, s, c[1], c[2])
      OBVIOUS
  <2>1. k + 1 \in 1 .. n /\ k \in 0 .. n /\ (k + 1) - 1 = k
      BY <1>1
  <2>2. \A d \in K[k] : Beyond(p, s, d[1], d[2]) /\ d[2] \in Nat
      BY <1>2, <2>1 DEF Pairs
  <2>3. c \in Least(Further(r, K[k]))
      BY <1>2, <2>1
  <2>4. CASE c \in K[k]
      BY <2>2, <2>4
  <2>5. CASE \E d \in K[k], e \in r.steps : e[1] = d[1] /\ c = <<e[2], d[2] + e[3]>>
    <3>1. PICK d \in K[k], e \in p.steps : e[1] = d[1] /\ c = <<e[2], d[2] + e[3]>>
        BY <2>5 DEF SameGraph
    <3>2. Beyond(p, s, e[1], d[2]) /\ d[2] \in Nat
        BY <2>2, <3>1
    <3>3. Beyond(p, s, e[2], d[2] + e[3])
        BY <1>1, <3>2, BeyondStep
    <3>4. c[1] = e[2] /\ c[2] = d[2] + e[3]
        BY <3>1
    <3> QED
        BY <3>3, <3>4
  <2> QED
      BY <2>3, <2>4, <2>5, PairComesFrom
<1>5. T \subseteq Nat
    OBVIOUS
<1> HIDE DEF T
<1>6. T = Nat
    BY <1>3, <1>4, <1>5, NatInd
<1>7. \A c \in K[n] : Beyond(p, s, c[1], c[2])
    BY <1>1, <1>6 DEF T
<1> QED
    BY <1>2, <1>7

(* ... and no more: a node at depth k has its cost after k rounds.         *)
LEMMA RoundsReach ==
    ASSUME NEW p, IsProblem(p), NEW s, Rooted(p, s), NEW v \in DOMAIN s.cost,
           NEW r, SameGraph(r, p), NEW K, IsRounds(r, K)
    PROVE  \E x \in Nat : <<v, x>> \in LeastCosts(r) /\ x <= s.cost[v]
<1> DEFINE n == Cardinality(r.nodes)
           D == DOMAIN s.cost
           Has(k, w) == \E x \in Nat : <<w, x>> \in K[k] /\ x <= s.cost[w]
<1>1. n \in Nat /\ IsGraph(r) /\ IsMemory(p, s) /\ n = Cardinality(p.nodes)
    BY GraphOfProblem DEF IsGraph, Rooted, SameGraph
<1>2. PICK R : Depths(p, s, R)
    BY DepthsExist
<1>3. \A w \in D : R[w] \in 0 .. n
    BY <1>1, <1>2 DEF Depths
<1>4. \A w \in D : w # p.start => s.came[w] \in D /\ R[s.came[w]] < R[w]
    BY <1>1, <1>2 DEF Depths, IsMemory
<1>5. /\ K[0] = {<<p.start, 0>>} /\ LeastCosts(r) = K[n]
      /\ \A k \in 1 .. n : K[k] = Least(Further(r, K[k - 1]))
      /\ \A k \in 0 .. n : K[k] \in SUBSET Pairs(r)
    BY DEF IsRounds, SameGraph
<1>6. \A w \in D : s.cost[w] \in Nat
    BY <1>1 DEF IsMemory
<1> HIDE DEF n
<1> DEFINE T == {k \in Nat : k <= n => \A w \in D : R[w] <= k => Has(k, w)}
<1>7. 0 \in T
  <2> SUFFICES ASSUME NEW w \in D, R[w] <= 0 PROVE Has(0, w)
      OBVIOUS
  <2>1. w = p.start
      BY <1>1, <1>3, <1>4
  <2>2. s.cost[w] = 0
      BY <2>1 DEF Rooted
  <2> QED
      BY <1>5, <2>1, <2>2
<1>8. ASSUME NEW k \in T PROVE k + 1 \in T
  <2> SUFFICES ASSUME k + 1 <= n, NEW w \in D, R[w] <= k + 1 PROVE Has(k + 1, w)
      OBVIOUS
  <2>1. k + 1 \in 1 .. n /\ k \in 0 .. n /\ (k + 1) - 1 = k
      BY <1>1
  <2>2. K[k] \in SUBSET Pairs(r) /\ K[k + 1] = Least(Further(r, K[k]))
      BY <1>5, <2>1
  <2>3. CASE R[w] <= k
    <3>1. PICK x \in Nat : <<w, x>> \in K[k] /\ x <= s.cost[w]
        BY <2>1, <2>3
    <3> DEFINE a == <<w, x>>
    <3>2. a \in K[k] /\ a[1] = w /\ a[2] = x
        BY <3>1
    <3> HIDE DEF a
    <3>3. PICK y \in Nat : <<w, y>> \in K[k + 1] /\ y <= x
        BY <1>1, <2>2, <3>2, NextRound
    <3>4. y <= s.cost[w]
        BY <1>6, <3>1, <3>3
    <3> QED
        BY <3>3, <3>4
  <2>4. CASE ~(R[w] <= k)
    <3> DEFINE u == s.came[w]
    <3>1. R[w] \in Nat
        BY <1>1, <1>3
    <3>2. CASE w = p.start
      <4>1. R[w] = 0
          BY <1>2, <3>2 DEF Depths
      <4> QED
          BY <2>1, <2>4, <4>1
    <3>3. CASE w # p.start
      <4>1. u \in D /\ R[u] \in Nat /\ R[u] < R[w]
          BY <1>1, <1>3, <1>4, <3>3
      <4>2. R[u] <= k
          BY <2>1, <3>1, <4>1
      <4>3. PICK x \in Nat : <<u, x>> \in K[k] /\ x <= s.cost[u]
          BY <2>1, <4>1, <4>2
      <4>4. PICK e \in p.steps : e[1] = u /\ e[2] = w /\ s.cost[u] + e[3] <= s.cost[w]
          BY <3>3 DEF Rooted
      <4> DEFINE a == <<u, x>>
      <4>5. a \in K[k] /\ a[1] = u /\ a[2] = x /\ e \in r.steps
          BY <4>3 DEF SameGraph
      <4> HIDE DEF a
      <4>6. PICK y \in Nat : <<e[2], y>> \in K[k + 1] /\ y <= a[2] + e[3]
          BY <1>1, <2>2, <4>4, <4>5, NextRound
      <4>7. e[3] \in Nat /\ s.cost[u] \in Nat /\ s.cost[w] \in Nat
          BY <1>6, <4>1, StepTypes
      <4> HIDE DEF u
      <4>8. y <= s.cost[w]
          BY <4>3, <4>4, <4>5, <4>6, <4>7
      <4> QED
          BY <4>4, <4>6, <4>8
    <3> QED
        BY <3>2, <3>3
  <2> QED
      BY <2>3, <2>4
<1>9. T \subseteq Nat
    OBVIOUS
<1> HIDE DEF T
<1>10. T = Nat
    BY <1>7, <1>8, <1>9, NatInd
<1>11. Has(n, v)
    BY <1>1, <1>3, <1>10 DEF T
<1> QED
    BY <1>5, <1>11

-----------------------------------------------------------------------------
(* The cost of a walk.                                                     *)

(* Of parallel steps the cheapest one counts.                              *)
LEMMA StepCostIs ==
    ASSUME NEW r, IsGraph(r), NEW e \in r.steps
    PROVE  /\ StepCost(r, e[1], e[2]) \in Nat /\ StepCost(r, e[1], e[2]) <= e[3]
           /\ \E f \in r.steps : f[1] = e[1] /\ f[2] = e[2] /\ f[3] = StepCost(r, e[1], e[2])
<1> DEFINE C == {f[3] : f \in {g \in r.steps : g[1] = e[1] /\ g[2] = e[2]}}
<1>1. \A f \in r.steps : f[3] \in Nat
    BY DEF IsGraph
<1>2. C \subseteq Nat /\ e[3] \in C
    BY <1>1
<1>3. Min(C) \in C /\ Min(C) <= e[3]
    BY <1>2, MinIsLeast
<1>4. StepCost(r, e[1], e[2]) = Min(C)
    BY DEF StepCost
<1> QED
    BY <1>2, <1>3, <1>4

(* W are the costs of walking along q.                                     *)
IsWalkCosts(r, q, W) ==
    /\ W \in [0 .. Len(q) - 1 -> Nat]
    /\ W[0] = 0
    /\ \A i \in 1 .. Len(q) - 1 : W[i] = W[i - 1] + StepCost(r, q[i], q[i + 1])
    /\ WalkCost(r, q) = W[Len(q) - 1]

LEMMA WalkCostsExist ==
    ASSUME NEW r, IsGraph(r), NEW q, Len(q) \in Nat, Len(q) > 0, Joined(r.steps, q)
    PROVE  \E W : IsWalkCosts(r, q, W)
<1> DEFINE n == Len(q) - 1
           price(i) == StepCost(r, q[i], q[i + 1])
           step == [i \in 1 .. n |-> [c \in Nat |-> c + price(i)]]
<1>1. n \in Nat
    OBVIOUS
<1>2. ASSUME NEW i \in 1 .. n PROVE price(i) \in Nat
  <2>1. PICK e \in r.steps : e[1] = q[i] /\ e[2] = q[i + 1]
      BY DEF Joined
  <2>2. StepCost(r, e[1], e[2]) \in Nat
      BY StepCostIs
  <2> QED
      BY <2>1, <2>2
<1> HIDE DEF price
<1>3. Iterable(Nat, 0, step, n)
  <2>1. ASSUME NEW i \in 1 .. n PROVE [c \in Nat |-> c + price(i)] \in [Nat -> Nat]
    <3>1. price(i) \in Nat
        BY <1>2
    <3> QED
        BY <3>1
  <2>2. step \in [1 .. n -> [Nat -> Nat]]
      BY <2>1
  <2> HIDE DEF step, n
  <2> QED
      BY <1>1, <2>2 DEF Iterable
<1> HIDE DEF step, n
<1>4. PICK W : Iterates(W, Nat, 0, step, n)
    BY <1>3, Recursion
<1>5. W \in [0 .. n -> Nat] /\ W[0] = 0
    BY <1>4 DEF Iterates
<1>6. ASSUME NEW i \in 1 .. n PROVE W[i] = W[i - 1] + price(i)
  <2>1. i - 1 \in 0 .. n /\ W[i] = step[i][W[i - 1]]
      BY <1>1, <1>4 DEF Iterates
  <2>2. W[i - 1] \in Nat
      BY <1>5, <2>1
  <2> QED
      BY <2>1, <2>2 DEF step
<1>7. W = [i \in 0 .. n |-> IF i = 0 THEN 0 ELSE W[i - 1] + price(i)]
  <2>1. \A i \in 0 .. n : W[i] = IF i = 0 THEN 0 ELSE W[i - 1] + price(i)
      BY <1>1, <1>5, <1>6
  <2> QED
      BY <1>5, <2>1
<1> DEFINE F == WalkCosts(r, q)
<1>8. F = [i \in 0 .. n |-> IF i = 0 THEN 0 ELSE F[i - 1] + price(i)]
    BY <1>7 DEF WalkCosts, n, price
<1> HIDE DEF F
<1>9. F[0] = 0 /\ \A i \in 1 .. n : F[i] = F[i - 1] + price(i)
  <2>1. 0 \in 0 .. n /\ \A i \in 1 .. n : i \in 0 .. n /\ i # 0
      BY <1>1
  <2> QED
      BY <1>8, <2>1
<1> DEFINE T == {i \in Nat : i <= n => F[i] = W[i]}
<1>10. 0 \in T
    BY <1>5, <1>9
<1>11. ASSUME NEW i \in T PROVE i + 1 \in T
  <2> SUFFICES ASSUME i + 1 <= n PROVE F[i + 1] = W[i + 1]
      OBVIOUS
  <2>1. F[i] = W[i] /\ i + 1 \in 1 .. n /\ (i + 1) - 1 = i
      BY <1>1
  <2> QED
      BY <1>6, <1>9, <2>1
<1>12. T \subseteq Nat
    OBVIOUS
<1> HIDE DEF T
<1>13. T = Nat
    BY <1>10, <1>11, <1>12, NatInd
<1>14. WalkCost(r, q) = W[n]
    BY <1>1, <1>13 DEF T, WalkCost, F, n
<1>15. IsWalkCosts(r, q, W)
    BY <1>5, <1>6, <1>14 DEF IsWalkCosts, n, price
<1> QED
    BY <1>15

(* Walking the way back costs what the search says, no less ...            *)
LEMMA WalkIsBeyond ==
    ASSUME NEW p, IsProblem(p), Consistent(p), NEW s, Rooted(p, s), StoppedInv(p, s),
           NEW r, SameGraph(r, p), NEW q, IsWalk(p, q)
    PROVE  WalkCost(r, q) \in Nat /\ s.cost[p.goal] <= WalkCost(r, q)
<1> DEFINE n == Len(q) - 1
<1>1. IsGraph(r) /\ IsMemory(p, s) /\ Joined(r.steps, q)
    BY GraphOfProblem DEF Rooted, IsWalk, SameGraph
<1>2. Len(q) \in Nat /\ Len(q) > 0 /\ n \in Nat /\ n + 1 = Len(q)
    BY DEF IsWalk
<1>3. PICK W : IsWalkCosts(r, q, W)
    BY <1>1, <1>2, WalkCostsExist
<1>4. /\ W \in [0 .. n -> Nat] /\ W[0] = 0 /\ WalkCost(r, q) = W[n]
      /\ \A i \in 1 .. n : W[i] = W[i - 1] + StepCost(r, q[i], q[i + 1])
    BY <1>3 DEF IsWalkCosts
<1>5. q[1] = p.start /\ q[n + 1] = p.goal
    BY <1>2 DEF IsWalk
<1> HIDE DEF n
<1> DEFINE T == {i \in Nat : i <= n => Beyond(p, s, q[i + 1], W[i])}
<1>6. 0 \in T
    BY <1>4, <1>5, BeyondStart
<1>7. ASSUME NEW i \in T PROVE i + 1 \in T
  <2> SUFFICES ASSUME i + 1 <= n PROVE Beyond(p, s, q[(i + 1) + 1], W[i + 1])
      OBVIOUS
  <2> DEFINE j == i + 1
  <2>1. j \in 1 .. n /\ i \in 0 .. n /\ j - 1 = i /\ Beyond(p, s, q[j], W[i])
      BY <1>2
  <2> HIDE DEF j
  <2>2. PICK e \in r.steps : e[1] = q[j] /\ e[2] = q[j + 1]
      BY <1>1, <2>1 DEF Joined, n
  <2>3. PICK f \in r.steps : /\ f[1] = e[1] /\ f[2] = e[2]
                             /\ f[3] = StepCost(r, e[1], e[2])
      BY <1>1, StepCostIs
  <2>4. W[j] = W[i] + f[3] /\ W[i] \in Nat
      BY <1>4, <2>1, <2>2, <2>3
  <2>5. f \in p.steps /\ Beyond(p, s, f[1], W[i])
      BY <2>1, <2>2, <2>3 DEF SameGraph
  <2>6. Beyond(p, s, f[2], W[i] + f[3])
      BY <1>1, <2>4, <2>5, BeyondStep
  <2>7. Beyond(p, s, q[j + 1], W[j])
      BY <2>2, <2>3, <2>4, <2>6
  <2> QED
      BY <2>7 DEF j
<1>8. T \subseteq Nat
    OBVIOUS
<1> HIDE DEF T
<1>9. T = Nat
    BY <1>6, <1>7, <1>8, NatInd
<1>10. n \in T /\ n \in 0 .. n
    BY <1>2, <1>9
<1>11. Beyond(p, s, q[n + 1], W[n])
    BY <1>2, <1>10 DEF T
<1>12. W[n] \in Nat
    BY <1>4, <1>10
<1>13. Beyond(p, s, p.goal, W[n])
    BY <1>5, <1>11
<1> QED
    BY <1>4, <1>12, <1>13, BeyondGoal

(* ... and no more.                                                        *)
LEMMA ChainCosts ==
    ASSUME NEW p, IsProblem(p), NEW s, Rooted(p, s),
           NEW r, SameGraph(r, p), NEW q, Chain(p, s, p.goal, q)
    PROVE  WalkCost(r, q) <= s.cost[p.goal]
<1> DEFINE n == Len(q) - 1
           D == DOMAIN s.cost
<1>1. IsGraph(r) /\ IsMemory(p, s) /\ Joined(r.steps, q)
    BY GraphOfProblem, ChainIsWalk DEF Rooted, IsWalk, SameGraph
<1>2. /\ Len(q) \in Nat /\ Len(q) > 0 /\ n \in Nat /\ n + 1 = Len(q)
      /\ q \in Seq(D) /\ q[1] = p.start /\ q[n + 1] = p.goal
      /\ \A i \in 1 .. n : q[i + 1] # p.start /\ s.came[q[i + 1]] = q[i]
    BY DEF Chain
<1>3. PICK W : IsWalkCosts(r, q, W)
    BY <1>1, <1>2, WalkCostsExist
<1>4. /\ W \in [0 .. n -> Nat] /\ W[0] = 0 /\ WalkCost(r, q) = W[n]
      /\ \A i \in 1 .. n : W[i] = W[i - 1] + StepCost(r, q[i], q[i + 1])
    BY <1>3 DEF IsWalkCosts
<1>5. \A i \in 1 .. n : q[i] \in D /\ q[i + 1] \in D
    BY <1>2, ChainElement
<1>6. \A v \in D : s.cost[v] \in Nat
    BY <1>1 DEF IsMemory
<1> HIDE DEF n
<1> DEFINE T == {i \in Nat : i <= n => W[i] <= s.cost[q[i + 1]]}
<1>7. 0 \in T
  <2>1. s.cost[p.start] = 0
      BY DEF Rooted
  <2> QED
      BY <1>2, <1>4, <2>1
<1>8. ASSUME NEW i \in T PROVE i + 1 \in T
  <2> SUFFICES ASSUME i + 1 <= n PROVE W[i + 1] <= s.cost[q[(i + 1) + 1]]
      OBVIOUS
  <2> DEFINE j == i + 1
             v == q[j + 1]
  <2>1. j \in 1 .. n /\ i \in 0 .. n /\ j - 1 = i /\ W[i] <= s.cost[q[j]]
      BY <1>2
  <2>2. v \in D /\ v # p.start /\ s.came[v] = q[j] /\ q[j] \in D
      BY <1>2, <1>5, <2>1
  <2>3. PICK e \in p.steps : /\ e[1] = s.came[v] /\ e[2] = v
                             /\ s.cost[s.came[v]] + e[3] <= s.cost[v]
      BY <2>2 DEF Rooted
  <2> HIDE DEF j, v
  <2>4. e \in r.steps /\ e[1] = q[j] /\ e[2] = v /\ s.cost[q[j]] + e[3] <= s.cost[v]
      BY <2>2, <2>3 DEF SameGraph
  <2>5. StepCost(r, q[j], v) \in Nat /\ StepCost(r, q[j], v) <= e[3]
      BY <1>1, <2>4, StepCostIs
  <2>6. W[j] = W[i] + StepCost(r, q[j], v) /\ W[i] \in Nat
      BY <1>4, <2>1 DEF v
  <2>7. s.cost[q[j]] \in Nat /\ s.cost[v] \in Nat /\ e[3] \in Nat
      BY <1>6, <2>2, StepTypes
  <2>8. W[j] <= s.cost[v]
      BY <2>1, <2>4, <2>5, <2>6, <2>7
  <2> QED
      BY <2>8 DEF j, v
<1>9. T \subseteq Nat
    OBVIOUS
<1> HIDE DEF T
<1>10. T = Nat
    BY <1>7, <1>8, <1>9, NatInd
<1>11. W[n] <= s.cost[q[n + 1]]
    BY <1>2, <1>10 DEF T
<1> QED
    BY <1>2, <1>4, <1>11

-----------------------------------------------------------------------------
(* The search succeeds exactly if the goal can be reached.                 *)
LEMMA SearchHasEnd ==
    ASSUME NEW p, IsProblem(p), Consistent(p)
    PROVE  \E s \in Search(p) : Exact(p, s) /\ Finished(s) /\ Rooted(p, s)
<1> DEFINE S == {t \in Memories(p) : Rooted(p, t)}
<1>1. Kept(p, S)
  <2>1. \A t : Rooted(p, t) => t \in S
      BY MemoriesAre DEF Rooted
  <2> QED
      BY <2>1, StartedIsRooted, TurnIsRooted DEF Kept
<1> HIDE DEF S
<1>2. PICK g : Runs(p, S, g)
    BY <1>1, TurnsAreNat, TurnsStay
<1>3. g[MaxTurns(p)] \in Search(p)
    BY <1>2 DEF Runs
<1> QED
    BY <1>3, SearchEnds, SearchIsRooted

LEMMA FoundGoal ==
    ASSUME NEW p, IsProblem(p), NEW s, Exact(p, s), Finished(s), p.goal \in DOMAIN s.cost
    PROVE  StoppedInv(p, s)
<1>1. CASE s.found
  <2>1. s.found = TRUE
      BY <1>1, Zenon DEF Exact, Rooted, IsMemory
  <2> QED
      BY <2>1 DEF Exact
<1>2. CASE ~s.found
  <2>1. s.found = FALSE
      BY <1>2, Zenon DEF Exact, Rooted, IsMemory
  <2>2. s.frontier = {}
      BY <1>2 DEF Finished
  <2>3. p.goal \in Waiting(p, s)
      BY <2>1 DEF Exact
  <2> QED
      BY <2>2, <2>3 DEF Waiting, Waits
<1> QED
    BY <1>1, <1>2

LEMMA LostGoal ==
    ASSUME NEW p, IsProblem(p), NEW s, Exact(p, s), Finished(s), p.goal \notin DOMAIN s.cost,
           NEW v \in DOMAIN s.cost
    PROVE  Settled(p, s, v)
<1>1. s.found = FALSE
  <2>1. s.found \in BOOLEAN
      BY DEF Exact, Rooted, IsMemory
  <2>2. s.found # TRUE
      BY DEF Exact, StoppedInv
  <2> QED
      BY <2>1, <2>2
<1>2. s.frontier = {}
    BY <1>1 DEF Finished
<1>3. v \notin Waiting(p, s)
    BY <1>2 DEF Waiting, Waits
<1> QED
    BY <1>1, <1>3 DEF Exact, LevelInv

LEMMA RoundsStayInside ==
    ASSUME NEW p, IsProblem(p), NEW s, Rooted(p, s),
           \A v \in DOMAIN s.cost : Settled(p, s, v),
           NEW r, SameGraph(r, p), NEW a \in LeastCosts(r)
    PROVE  a[1] \in DOMAIN s.cost
<1> DEFINE n == Cardinality(r.nodes)
           D == DOMAIN s.cost
<1>1. n \in Nat /\ IsGraph(r)
    BY GraphOfProblem DEF IsGraph
<1>2. PICK K : IsRounds(r, K)
    BY <1>1, RoundsExist
<1>3. /\ K[0] = {<<p.start, 0>>} /\ LeastCosts(r) = K[n]
      /\ \A k \in 1 .. n : K[k] = Least(Further(r, K[k - 1]))
    BY <1>2 DEF IsRounds, SameGraph
<1>4. p.start \in D
    BY DEF Rooted
<1> HIDE DEF n
<1> DEFINE T == {k \in Nat : k <= n => \A c \in K[k] : c[1] \in D}
<1>5. 0 \in T
    BY <1>3, <1>4
<1>6. ASSUME NEW k \in T PROVE k + 1 \in T
  <2> SUFFICES ASSUME k + 1 <= n, NEW c \in K[k + 1] PROVE c[1] \in D
      OBVIOUS
  <2>1. k + 1 \in 1 .. n /\ (k + 1) - 1 = k /\ \A d \in K[k] : d[1] \in D
      BY <1>1
  <2>2. c \in Least(Further(r, K[k]))
      BY <1>3, <2>1
  <2>3. CASE \E d \in K[k], e \in r.steps : e[1] = d[1] /\ c = <<e[2], d[2] + e[3]>>
    <3>1. PICK d \in K[k], e \in p.steps : e[1] = d[1] /\ c = <<e[2], d[2] + e[3]>>
        BY <2>3 DEF SameGraph
    <3>2. Settled(p, s, d[1])
        BY <2>1
    <3>3. e[2] \in D /\ c[1] = e[2]
        BY <3>1, <3>2 DEF Settled
    <3> QED
        BY <3>3
  <2> QED
      BY <2>1, <2>2, <2>3, PairComesFrom
<1>7. T \subseteq Nat
    OBVIOUS
<1> HIDE DEF T
<1>8. T = Nat
    BY <1>5, <1>6, <1>7, NatInd
<1> QED
    BY <1>1, <1>3, <1>8 DEF T

(* The search returns a cheapest walk, and none only if there is none, for *)
(* every finite graph whose steps cost something and every estimate that   *)
(* is consistent: plan_route_graph and GridPlanner.plan keep stale entries *)
(* in their heap and stop when they first pop the goal.                    *)
THEOREM BestFirstIsOptimal ==
    ASSUME NEW p, IsProblem(p), Consistent(p), NEW r, SameGraph(r, p)
    PROVE  Optimal(r, BestFirst(p))
<1>1. ASSUME BestFirst(p) = {} PROVE r.goal \notin Reachable(r)
  <2>1. PICK s \in Search(p) : Exact(p, s) /\ Finished(s) /\ Rooted(p, s)
      BY SearchHasEnd
  <2>2. p.goal \notin DOMAIN s.came
    <3> SUFFICES ASSUME p.goal \in DOMAIN s.came PROVE FALSE
        OBVIOUS
    <3>1. [nodes |-> Back(p, s.came)[p.goal], cost |-> s.cost[p.goal]] \in BestFirst(p)
        BY DEF BestFirst
    <3> QED
        BY <1>1, <3>1
  <2>3. p.goal \notin DOMAIN s.cost
      BY <2>1, <2>2 DEF Rooted, IsMemory
  <2>4. \A v \in DOMAIN s.cost : Settled(p, s, v)
      BY <2>1, <2>3, LostGoal
  <2>5. \A a \in LeastCosts(r) : a[1] \in DOMAIN s.cost
      BY <2>1, <2>4, RoundsStayInside
  <2> QED
      BY <2>3, <2>5 DEF Reachable, SameGraph
<1>2. ASSUME NEW q \in BestFirst(p)
      PROVE  /\ q.nodes[1] = r.start /\ q.nodes[Len(q.nodes)] = r.goal
             /\ \A i \in 1 .. Len(q.nodes) - 1 :
                   \E e \in r.steps : e[1] = q.nodes[i] /\ e[2] = q.nodes[i + 1]
             /\ <<r.goal, q.cost>> \in LeastCosts(r)
             /\ WalkCost(r, q.nodes) = q.cost
  <2>1. PICK s \in Search(p) : /\ Rooted(p, s) /\ p.goal \in DOMAIN s.cost
                               /\ q = [nodes |-> Back(p, s.came)[p.goal], cost |-> s.cost[p.goal]]
                               /\ Chain(p, s, p.goal, q.nodes)
      BY PlanOfSearch
  <2>2. Exact(p, s) /\ Finished(s)
      BY SearchEnds
  <2>3. StoppedInv(p, s)
      BY <2>1, <2>2, FoundGoal
  <2>4. q.cost = s.cost[p.goal] /\ q.cost \in Nat
      BY <2>1 DEF Rooted, IsMemory
  <2> DEFINE w == q.nodes
  <2>5. IsWalk(p, w) /\ Chain(p, s, p.goal, w)
      BY PlansAreWalks, <2>1
  <2> HIDE DEF w
  <2>6. WalkCost(r, w) = q.cost
    <3>1. WalkCost(r, w) \in Nat /\ s.cost[p.goal] <= WalkCost(r, w)
        BY <2>1, <2>3, <2>5, WalkIsBeyond
    <3>2. WalkCost(r, w) <= s.cost[p.goal]
        BY <2>1, <2>5, ChainCosts
    <3> QED
        BY <2>4, <3>1, <3>2
  <2>7. <<p.goal, q.cost>> \in LeastCosts(r)
    <3>1. PICK K : IsRounds(r, K)
        BY GraphOfProblem, RoundsExist
    <3>2. PICK x \in Nat : <<p.goal, x>> \in LeastCosts(r) /\ x <= s.cost[p.goal]
        BY <2>1, <3>1, RoundsReach
    <3> DEFINE a == <<p.goal, x>>
    <3>3. a \in LeastCosts(r) /\ a[1] = p.goal /\ a[2] = x
        BY <3>2
    <3> HIDE DEF a
    <3>4. Beyond(p, s, p.goal, x)
        BY <2>1, <2>3, <3>1, <3>3, RoundsAreBeyond
    <3>5. s.cost[p.goal] <= x
        BY <3>4, BeyondGoal
    <3>6. x = q.cost
        BY <2>4, <3>2, <3>5
    <3> QED
        BY <3>2, <3>6
  <2>8. w[1] = r.start /\ w[Len(w)] = r.goal
        /\ \A i \in 1 .. Len(w) - 1 : \E e \in r.steps : e[1] = w[i] /\ e[2] = w[i + 1]
      BY <2>5 DEF IsWalk, Joined, SameGraph
  <2> QED
      BY <2>6, <2>7, <2>8 DEF w, SameGraph
<1> QED
    BY <1>1, <1>2 DEF Optimal
=============================================================================
