---------------------------- MODULE Localization ----------------------------
(***************************************************************************)
(* aris_localization: a scan is matched against the known map around the   *)
(* odometry nearest to it in time, a gate accepts or refuses the           *)
(* correction, and the pose is published with the map->odom transform that *)
(* belongs to it.                                                          *)
(*                                                                         *)
(* Places are in steps of the search grid, headings in quarter turns, so   *)
(* that rotations are exact; errors are centimetres.  What the map and the *)
(* points of a scan amount to is an error for every candidate: small on    *)
(* the candidates the scan fits, and everywhere else the same.             *)
(***************************************************************************)
EXTENDS Integers, SequencesExt

CONSTANTS
    PriorXY, PriorYaw,  \* prior_weight, for a squared step of each kind
    MinImprovement,     \* min_improvement_m
    MaxTranslation,     \* the square of correction_max_translation_m
    MaxYaw,             \* correction_max_yaw_rad
    MaxMeanError,       \* correction_max_mean_error_m
    MinUsedPoints,      \* correction_min_used_points
    HistorySize,        \* 200
    OdomMessages,       \* what may come on /wheel_odom: stamp and pose
    Scans               \* what may come on /scan_cloud

VARIABLES
    up,                 \* the node runs
    odom_history,       \* self.odom_history
    filtered,           \* the last /odometry/filtered, a set of at most one
    map_to_odom,        \* the last transform sent, a set of at most one
    used,               \* history: the odometry and the scan they came from
    received            \* history: all odometry

vars == <<up, odom_history, filtered, map_to_odom, used, received>>

-----------------------------------------------------------------------------
(* localization_core.py.                                                   *)

Cos(yaw) == IF yaw = 0 THEN 1 ELSE IF yaw = 2 THEN -1 ELSE 0
Sin(yaw) == IF yaw = 1 THEN 1 ELSE IF yaw = 3 THEN -1 ELSE 0

(* normalize_angle: the smaller of both ways around, in size.              *)
TurnSize(a) == Min({a % 4, (-a) % 4})

TransformPose(t, p) ==
    [x |-> t.x + Cos(t.yaw) * p.x - Sin(t.yaw) * p.y,
     y |-> t.y + Sin(t.yaw) * p.x + Cos(t.yaw) * p.y,
     yaw |-> (t.yaw + p.yaw) % 4]

(* Plausible bug: the translation is negated and not turned back.          *)
InversePoseTransformUnturned(p) == [x |-> -p.x, y |-> -p.y, yaw |-> (-p.yaw) % 4]

InversePoseTransform(p) ==
    LET c == Cos((-p.yaw) % 4)  s == Sin((-p.yaw) % 4) IN
    [x |-> -(c * p.x - s * p.y), y |-> -(s * p.x + c * p.y), yaw |-> (-p.yaw) % 4]

MapToOdomFromBasePoses(map_base, odom_base) ==
    TransformPose(map_base, InversePoseTransform(odom_base))

-----------------------------------------------------------------------------
(* scan_matching.py.                                                       *)

(* _symmetric_grid of one step and of two, and how its axes are nested.    *)
Grid == <<0, -1, 1>>
YawGrid == <<0, -1, 1, -2, 2>>
Candidates ==
    [k \in 1 .. 45 |-> [dx |-> Grid[((k - 1) \div 15) + 1],
                        dy |-> Grid[(((k - 1) \div 5) % 3) + 1],
                        dyaw |-> YawGrid[((k - 1) % 5) + 1]]]

(* scan_map_mean_error at a candidate, and its score with the prior.       *)
MeanError(scan, c) == IF c \in scan.fits THEN scan.error ELSE scan.elsewhere
Score(scan, c) == MeanError(scan, c)
                  + PriorXY * (c.dx * c.dx + c.dy * c.dy) + PriorYaw * c.dyaw * c.dyaw

Moved(pose, c) == [x |-> pose.x + c.dx, y |-> pose.y + c.dy, yaw |-> (pose.yaw + c.dyaw) % 4]

(* match_scan_to_map: the first candidate of the least score, if it is     *)
(* enough of an improvement on the odometry (the first candidate).         *)
MatchScanToMap(scan, pose) ==
    LET least == Min({Score(scan, Candidates[k]) : k \in DOMAIN Candidates})
        best == Candidates[Min({k \in DOMAIN Candidates : Score(scan, Candidates[k]) = least})]
        stay == MeanError(scan, Candidates[1])
    IN  IF stay - MeanError(scan, best) < MinImprovement
        THEN [pose |-> pose, mean_error |-> stay, used_points |-> scan.usable]
        ELSE [pose |-> Moved(pose, best), mean_error |-> MeanError(scan, best),
              used_points |-> scan.usable]

-----------------------------------------------------------------------------
(* fusion_gate.py.                                                         *)

TranslationDelta(p, q) == (p.x - q.x) * (p.x - q.x) + (p.y - q.y) * (p.y - q.y)

(* Plausible bug: one jump is allowed if the other is small.               *)
EvaluateEitherJump(pose, match) ==
    IF /\ match.used_points >= MinUsedPoints
       /\ match.mean_error <= MaxMeanError
       /\ \/ TranslationDelta(match.pose, pose) <= MaxTranslation
          \/ TurnSize(match.pose.yaw - pose.yaw) <= MaxYaw
    THEN match.pose ELSE pose

(* evaluate_lidar_correction: the pose of the decision; odometry stays     *)
(* when a correction is refused.                                           *)
Evaluate(pose, match) ==
    IF /\ match.used_points >= MinUsedPoints
       /\ match.mean_error <= MaxMeanError
       /\ TranslationDelta(match.pose, pose) <= MaxTranslation
       /\ TurnSize(match.pose.yaw - pose.yaw) <= MaxYaw
    THEN match.pose ELSE pose

-----------------------------------------------------------------------------
(* lidar_localization_node.py.                                             *)

Init ==
    /\ up = TRUE
    /\ odom_history = << >>
    /\ filtered = {} /\ map_to_odom = {}
    /\ used = {} /\ received = {}

(* Plausible bug: the first messages are kept, not the last ones.          *)
OnOdomKeepsFirst(msg) ==
    /\ up
    /\ odom_history' = SubSeq(Append(odom_history, msg), 1,
                              Min({HistorySize, Len(odom_history) + 1}))
    /\ received' = received \cup {msg}
    /\ UNCHANGED <<up, filtered, map_to_odom, used>>

OnOdom(msg) ==
    /\ up
    /\ LET all == Append(odom_history, msg) IN
       odom_history' = IF Len(all) > HistorySize THEN Tail(all) ELSE all
    /\ received' = received \cup {msg}
    /\ UNCHANGED <<up, filtered, map_to_odom, used>>

Apart(s, t) == IF s < t THEN t - s ELSE s - t

(* _odom_for_stamp: the first of the nearest, however far away it is.      *)
OdomForStamp(stamp) ==
    LET gap == Min({Apart(odom_history[i].stamp, stamp) : i \in DOMAIN odom_history})
    IN  odom_history[Min({i \in DOMAIN odom_history :
                            Apart(odom_history[i].stamp, stamp) = gap})]

(* _on_scan: without odometry, or without a point in the cloud, nothing    *)
(* happens; ...                                                            *)
OnScan(scan) ==
    /\ up /\ odom_history # << >> /\ scan.usable > 0
    /\ LET odom == OdomForStamp(scan.stamp)
           pose == Evaluate(odom.pose, MatchScanToMap(scan, odom.pose))
       IN  /\ filtered' = {[stamp |-> scan.stamp, pose |-> pose]}
           /\ map_to_odom' = {MapToOdomFromBasePoses(pose, odom.pose)}
           /\ used' = {[odom |-> odom, scan |-> scan, known |-> received,
                        oldest |-> odom_history[1].stamp]}
    /\ UNCHANGED <<up, odom_history, received>>

(* ... but points none of which is finite raise ValueError in the          *)
(* matcher, nobody catches it, and the node ends.                          *)
OnScanUnusable(scan) ==
    /\ up /\ odom_history # << >> /\ scan.usable = 0
    /\ up' = FALSE
    /\ UNCHANGED <<odom_history, filtered, map_to_odom, used, received>>

(* One publisher sends the odometry, so it comes in order; scans need not. *)
Next ==
    \/ \E msg \in OdomMessages : (\A m \in received : m.stamp < msg.stamp) /\ OnOdom(msg)
    \/ \E scan \in Scans : OnScan(scan) \/ OnScanUnusable(scan)

Spec == Init /\ [][Next]_vars

-----------------------------------------------------------------------------
(* Properties.                                                             *)

(* The published transform is the one that carries the odometry it was     *)
(* computed from into the published pose: whoever composes it with that    *)
(* odometry gets /odometry/filtered back, whatever odometry came since.    *)
TransformAligns ==
    \A f \in filtered, t \in map_to_odom, u \in used :
       TransformPose(t, u.odom.pose) = f.pose

(* A pose that is not the odometry's own was worth it: it is within both   *)
(* limits, fits the scan well enough and better than staying by the        *)
(* required improvement, and moving less would not have scored better.     *)
CorrectionIsEarned ==
    \A f \in filtered, u \in used :
       \/ f.pose = u.odom.pose
       \/ \E c \in Range(Candidates) :
            /\ f.pose = Moved(u.odom.pose, c)
            /\ c.dx * c.dx + c.dy * c.dy <= MaxTranslation /\ TurnSize(c.dyaw) <= MaxYaw
            /\ MeanError(u.scan, c) <= MaxMeanError
            /\ MeanError(u.scan, Candidates[1]) - MeanError(u.scan, c) >= MinImprovement
            /\ \A d \in Range(Candidates) : Score(u.scan, d) >= Score(u.scan, c)

(* A scan that is late is not matched around the newest odometry: as long  *)
(* as it is no older than the history, no odometry received by then, the   *)
(* forgotten one included, is nearer to it in time than the one it is      *)
(* matched around.                                                         *)
NearestOdom ==
    \A u \in used :
       u.scan.stamp >= u.oldest =>
          \A msg \in u.known :
             Apart(msg.stamp, u.scan.stamp) >= Apart(u.odom.stamp, u.scan.stamp)

(* What is published is worth moving the vehicle for, was computed around  *)
(* the right odometry, and is consistent with it.                          *)
CorrectionsAreSound == TransformAligns /\ CorrectionIsEarned /\ NearestOdom
=============================================================================
