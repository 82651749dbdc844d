-------------------------- MODULE ObstacleDetector --------------------------
(***************************************************************************)
(* dynamic_obstacle_node.py and dynamic_obstacles.py: every point cloud is *)
(* answered with one advisory, computed from the points inside the driving *)
(* corridor, the closest distance of an earlier cloud, and a tracker that  *)
(* gives obstacles an identity across clouds.                              *)
(*                                                                         *)
(* Points lie on a grid of half metres in the frame of the vehicle, x      *)
(* ahead and y to the left.  A cloud is a set of points; "seen" says       *)
(* whether a point is finite and between z_min_m and z_max_m.  Time is     *)
(* counted in ticks of half a second, and a stamp of 0 is an unset stamp.  *)
(***************************************************************************)
EXTENDS Integers, FiniteSets, FiniteSetsExt

CONSTANTS
    HalfWidth,          \* corridor_half_width_m
    MinX,               \* min_x_m
    StopDistance,       \* stop_distance_m
    SlowDistance,       \* slow_distance_m
    MinPoints,          \* min_points
    ClosingStop,        \* closing_stop_mps, in tenths of a step per tick
    DetourLateral,      \* detour_lateral_m
    DetourForward,      \* detour_forward_m
    MatchDistance,      \* track_match_distance_m
    ForgetAfter         \* track_forget_after_s, in ticks

ASSUME DetectorAssumption ==
    /\ {HalfWidth, MinX, StopDistance, SlowDistance, MinPoints} \subseteq Nat
    /\ {ClosingStop, DetourLateral, DetourForward} \subseteq Nat
    /\ {MatchDistance, ForgetAfter} \subseteq Nat
    /\ MinPoints > 0 /\ StopDistance <= SlowDistance

VARIABLES
    clock,              \* get_clock().now() of the detector
    previous_closest,   \* self.previous_closest_m, a set of at most one
    previous_stamp,     \* self.previous_stamp_s, a set of at most one
    tracks,             \* self.tracker.tracks
    next_track_id,      \* self.tracker._next_track_id
    decision            \* the last advisory published, a set of at most one

detectorVars == <<previous_closest, previous_stamp, tracks, next_track_id, decision>>

(* _in_corridor. *)
Candidates(points) ==
    {p \in points : p.seen /\ MinX <= p.x /\ -HalfWidth <= p.y /\ p.y <= HalfWidth}

Xs(points) == MapThenSumSet(LAMBDA p : p.x, points)
Ys(points) == MapThenSumSet(LAMBDA p : p.y, points)
Closest(points) == Min({p.x : p \in points})

(* The centre of a set of points in quarter metres: exact up to two points. *)
Centre(points) == [x |-> (2 * Xs(points)) \div Cardinality(points),
                   y |-> (2 * Ys(points)) \div Cardinality(points)]

SqGap(a, b) == (a.x - b.x) * (a.x - b.x) + (a.y - b.y) * (a.y - b.y)

(* Plausible bug: the vehicle is sent to the side the obstacle is on.      *)
DetourSideToward(points) == IF Ys(points) >= 0 THEN DetourLateral ELSE -DetourLateral

(* _choose_detour_side: away from the middle of the obstacle.              *)
DetourSide(points) == IF Ys(points) >= 0 THEN -DetourLateral ELSE DetourLateral

(* A decision without a detour leaves both numbers None.                   *)
Plain(action) == [action |-> action, lateral |-> {}, forward |-> {}]

Detour(points) ==
    [action  |-> "detour",
     lateral |-> {DetourSide(points)},
     forward |-> {Max({DetourForward, Min({Closest(points), SlowDistance})})}]

(* The distance to the obstacle shrinks by closing_stop_mps or more.  The  *)
(* closing speed is zero without a distance before, when dt, a set of at   *)
(* most one, is not positive, and when the obstacle recedes.               *)
ClosingFast(closest, dt) ==
    \/ ClosingStop = 0
    \/ \E t \in dt, p \in previous_closest :
          t > 0 /\ 10 * (p - closest) >= ClosingStop * t

(* evaluate_dynamic_obstacle on the points inside the corridor.            *)
Evaluate(points, dt) ==
    IF Cardinality(points) < MinPoints THEN Plain("clear")
    ELSE IF \/ Closest(points) <= StopDistance
            \/ Closest(points) <= SlowDistance /\ ClosingFast(Closest(points), dt)
         THEN Plain("stop")
    ELSE IF Closest(points) <= SlowDistance THEN Detour(points)
    ELSE Plain("clear")

(* _drop_stale. *)
LiveTracks(stamp) == {t \in tracks : stamp - t.last_seen <= ForgetAfter}

(* _nearest_track: the nearest one, the oldest among equals, if it is near *)
(* enough; MatchDistance in steps is twice as much in quarter metres.      *)
Matching(live, centre) ==
    {t \in live :
        /\ \A u \in live : \/ SqGap(t, centre) < SqGap(u, centre)
                           \/ SqGap(t, centre) = SqGap(u, centre) /\ t.id <= u.id
        /\ SqGap(t, centre) <= (2 * MatchDistance) * (2 * MatchDistance)}

Track(id, centre, first, last) ==
    [id |-> id, x |-> centre.x, y |-> centre.y, first_seen |-> first, last_seen |-> last]

(* Plausible bug: the id of a track that was dropped is given out again.   *)
UpdateReusesIds(points, stamp) ==
    LET live == LiveTracks(stamp) IN
    IF Cardinality(points) < MinPoints
    THEN tracks' = live /\ UNCHANGED next_track_id
    ELSE LET centre == Centre(points)
             match == Matching(live, centre)
         IN  IF match = {}
             THEN /\ tracks' = live \cup {Track(Cardinality(live) + 1, centre, stamp, stamp)}
                  /\ next_track_id' = next_track_id + 1
             ELSE /\ tracks' = (live \ match) \cup
                        {Track(t.id, centre, t.first_seen, stamp) : t \in match}
                  /\ UNCHANGED next_track_id

(* DynamicObstacleTracker.update. *)
Update(points, stamp) ==
    LET live == LiveTracks(stamp) IN
    IF Cardinality(points) < MinPoints
    THEN tracks' = live /\ UNCHANGED next_track_id
    ELSE LET centre == Centre(points)
             match == Matching(live, centre)
         IN  IF match = {}
             THEN /\ tracks' = live \cup {Track(next_track_id, centre, stamp, stamp)}
                  /\ next_track_id' = next_track_id + 1
             ELSE /\ tracks' = (live \ match) \cup
                        {Track(t.id, centre, t.first_seen, stamp) : t \in match}
                  /\ UNCHANGED next_track_id

DetectorInit ==
    /\ clock = 1
    /\ previous_closest = {}
    /\ previous_stamp = {}
    /\ tracks = {}
    /\ next_track_id = 1
    /\ decision = {}

(* Plausible bug: an unset stamp is kept as the time of the cloud.         *)
OnCloudUnset(cloud) ==
    LET points == Candidates(cloud.points)
        dt == {cloud.stamp - p : p \in previous_stamp}
        stamp == IF cloud.stamp > 0 THEN cloud.stamp ELSE clock
    IN  /\ decision' = {Evaluate(points, dt)}
        /\ Update(points, stamp)
        /\ IF Cardinality(points) < MinPoints
           THEN UNCHANGED <<previous_closest, previous_stamp>>
           ELSE previous_closest' = {Closest(points)} /\ previous_stamp' = {cloud.stamp}

(* _on_cloud of a cloud that can be read.                                  *)
OnCloud(cloud) ==
    LET points == Candidates(cloud.points)
        dt == {cloud.stamp - p : p \in IF cloud.stamp > 0 THEN previous_stamp ELSE {}}
        stamp == IF cloud.stamp > 0 THEN cloud.stamp ELSE clock
    IN  /\ decision' = {Evaluate(points, dt)}
        /\ Update(points, stamp)
        /\ IF Cardinality(points) < MinPoints
           THEN UNCHANGED <<previous_closest, previous_stamp>>
           ELSE previous_closest' = {Closest(points)} /\ previous_stamp' = {stamp}

DetectorTypeOK ==
    /\ Cardinality(previous_closest) <= 1 /\ previous_closest \subseteq Nat
    /\ Cardinality(previous_stamp) <= 1 /\ previous_stamp \subseteq 1 .. clock
    /\ tracks \subseteq [id : 1 .. next_track_id - 1, x : Int, y : Int,
                         first_seen : 1 .. clock, last_seen : 1 .. clock]
    /\ Cardinality(decision) <= 1

(* An identity is given to one obstacle only: a track that appears has an  *)
(* id above every one given before, those of dropped tracks included.      *)
IdsNeverReused ==
    [][\A t \in tracks' : \/ \E u \in tracks : u.id = t.id /\ u.first_seen = t.first_seen
                          \/ t.id >= next_track_id /\ t.id < next_track_id']_detectorVars
=============================================================================
