---------------------------- MODULE MCSideBySide ----------------------------
(***************************************************************************)
(* The nodes that share no state with another model, checked side by side: *)
(* the variable part says which of them a behaviour is about, and only its *)
(* variables move.  Each stands for a run of its own.                      *)
(***************************************************************************)
EXTENDS VehicleSim, SerialStream, TLC

CONSTANTS
    Lexical, Base, ChangeThreshold, ConfirmationThreshold,  \* SemanticMap
    HighRisk, Observations, CloudCells, RouteFiles, MinMetricCells, MinRouteNodes,
    MinReviewQueue, MinHighRisk, MinOverlap, MaxDelta, MaxInputs,
    Spacing, Positions, MaxRows, MaxTears,                  \* PathRecorder
    PriorXY, PriorYaw, MinImprovement, MaxTranslation,      \* Localization
    MaxYaw, MaxMeanError, MinUsedPoints, HistorySize, OdomMessages, Scans,
    MinDelta, Places                                        \* PoseSync

VARIABLES
    part,
    gz_estop, latest_twist, gz_command_age, cmd_vel,        \* GazeboCmdDriveBridge
    phase, hd_map, file, torn, baseline, inputs, saved, died_saving, seen, file_seen,
    baseline_seen,
    recording, last_xy, recorded_points, position, header, rows, open, count, tears,
    up, odom_history, filtered, map_to_odom, used, received,
    latest_odom, last_sent_pose, entity, pending, timed_out

Gazebo == INSTANCE GazeboCmdDriveBridge WITH estop <- gz_estop, command_age <- gz_command_age
Mapping == INSTANCE SemanticMap
Recorder == INSTANCE PathRecorder
Lidar == INSTANCE Localization
Sync == INSTANCE PoseSync

gazeboVars == <<gz_estop, latest_twist, gz_command_age, cmd_vel>>
mappingVars == <<phase, hd_map, file, torn, baseline, inputs, saved, died_saving, seen,
                 file_seen, baseline_seen>>
recorderVars == <<recording, last_xy, recorded_points, position, header, rows, open, count,
                  tears>>
lidarVars == <<up, odom_history, filtered, map_to_odom, used, received>>
syncVars == <<latest_odom, last_sent_pose, entity, pending, timed_out>>
mcVars == <<part, simVars, gazeboVars, serialVars, mappingVars, recorderVars, lidarVars,
            syncVars>>

-----------------------------------------------------------------------------
(* The last frame holds half a MAGIC in its payload and one in its CRC.    *)
MCPayload == <<0, 2, 3, 4>>
MCCrc == <<2, 3, 1, 5>>

(* Two labels that tie, one weak on its own, one too weak for both.        *)
MCLexical == <<"person", "road">>
MCBase == [person |-> 10, road |-> 1]
Observe(place, name, percent) == [cell |-> place, label |-> name, confidence |-> percent]
MCObservations ==
    {Observe(1, "road", 80), Observe(1, "road", 90), Observe(1, "person", 80),
     Observe(1, "person", 70), Observe(2, "person", 60)}

(* No route file, an unreadable one, routes without and with an edge.      *)
MCRouteFiles ==
    {[exists |-> FALSE, rows |-> {}], [exists |-> TRUE, rows |-> {}],
     [exists |-> TRUE, rows |-> {<<"a">>}], [exists |-> TRUE, rows |-> {<<"a", "b">>}]}

(* Odometry with gaps of different size, turning on the way.               *)
Pose(px, py, turns) == [x |-> px, y |-> py, yaw |-> turns]
Odom(time, where) == [stamp |-> time, pose |-> where]
MCOdomMessages ==
    {Odom(1, Pose(0, 0, 0)), Odom(3, Pose(1, 0, 0)), Odom(4, Pose(1, 2, 1)),
     Odom(5, Pose(0, -1, 3)), Odom(7, Pose(-2, 1, 2))}

(* Scans that fit best one step aside, at two places at once, turned       *)
(* little or too far, or where the vehicle is; well or badly; of few       *)
(* points, of none, and hardly better than staying.                        *)
Off(ox, oy, turns) == [dx |-> ox, dy |-> oy, dyaw |-> turns]
Scan(time, where, err) ==
    [stamp |-> time, fits |-> where, error |-> err, elsewhere |-> 60, usable |-> 20]
MCScans ==
    {Scan(time, where, 10) :
       time \in {1, 3, 5},
       where \in {{Off(1, 0, 0)}, {Off(1, 1, 0), Off(0, 1, 1)}, {Off(0, 0, -1)},
                  {Off(1, 0, 2)}, {Off(0, -1, 0), Off(0, 0, 0)}}}
    \cup {Scan(3, {Off(1, 0, 0)}, 50), Scan(3, {Off(0, 1, 0)}, 57),
          [Scan(3, {Off(0, 1, 0)}, 10) EXCEPT !.usable = 5],
          [Scan(3, {Off(0, 1, 0)}, 10) EXCEPT !.usable = 0]}

-----------------------------------------------------------------------------
Parts == {"vehicle", "gazebo", "serial", "mapping", "recorder", "lidar", "sync"}

MCInit ==
    /\ part \in Parts
    /\ Init /\ Gazebo!Init /\ SerialInit /\ Mapping!Init /\ Recorder!Init /\ Lidar!Init
    /\ Sync!Init /\ (part # "sync" => entity = 0)

(* A step of one part leaves the others alone. *)
Of(p, step, others) == part = p /\ step /\ UNCHANGED <<part, others>>

NotVehicle == <<gazeboVars, serialVars, mappingVars, recorderVars, lidarVars, syncVars>>
NotGazebo == <<simVars, serialVars, mappingVars, recorderVars, lidarVars, syncVars>>
NotSerial == <<simVars, gazeboVars, mappingVars, recorderVars, lidarVars, syncVars>>
NotMapping == <<simVars, gazeboVars, serialVars, recorderVars, lidarVars, syncVars>>
NotRecorder == <<simVars, gazeboVars, serialVars, mappingVars, lidarVars, syncVars>>
NotLidar == <<simVars, gazeboVars, serialVars, mappingVars, recorderVars, syncVars>>
NotSync == <<simVars, gazeboVars, serialVars, mappingVars, recorderVars, lidarVars>>

MCNext ==
    \/ Of("vehicle", Next, NotVehicle)
    \/ Of("gazebo", Gazebo!Next, NotGazebo)
    \/ Of("serial", SerialNext, NotSerial)
    \/ Of("mapping", Mapping!Next, NotMapping)
    \/ Of("recorder", Recorder!Next, NotRecorder)
    \/ Of("lidar", Lidar!Next, NotLidar)
    \/ Of("sync", Sync!Next, NotSync)

(* A localization node that has ended, and nothing else, stops.            *)
Ended == part = "lidar" /\ ~up /\ UNCHANGED mcVars

(* Timers keep firing and time goes on, the low pass reaches a target that *)
(* stays, and Gazebo answers now and then.                                 *)
MCSpec ==
    /\ MCInit /\ [][MCNext \/ Ended]_mcVars
    /\ WF_mcVars(Of("vehicle", Tick, NotVehicle))
    /\ WF_mcVars(Of("vehicle", TimePasses, NotVehicle))
    /\ WF_mcVars(Of("gazebo", Gazebo!Tick, NotGazebo))
    /\ WF_mcVars(Of("gazebo", Gazebo!TimePasses, NotGazebo))
    /\ Settles
    /\ SF_mcVars(Of("sync", \E p \in latest_odom : Sync!SyncPose(p), NotSync))

-----------------------------------------------------------------------------
(* The properties of the parts under names of their own; each is stated    *)
(* and explained in the module of its part.                                *)
CommandedSpec == Gazebo!CommandedSpec
BothComeToRest == ComesToRest /\ Gazebo!ComesToRest
MapKeepsInput == Mapping!MapKeepsInput
RepeatPassAgrees == Mapping!RepeatPassAgrees
RestartRestores == Mapping!RestartRestores
RouteIsDriven == Recorder!RouteIsDriven
CorrectionsAreSound == Lidar!CorrectionsAreSound
LastSentIsTrue == Sync!LastSentIsTrue
EntityFollows == Sync!EntityFollows
=============================================================================
