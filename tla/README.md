# Verification of the ARIS processing unit

TLA+ models, model-checking runs and machine-checked proofs for the ROS 2
software in `src/` (the ARIS embedded processing unit). Everything here is
translated from the Python and shell sources; line numbers are in `PROJECT.json`.

## 1. The system

ARIS is a set of ROS 2 nodes, each one Python process with a single-threaded
executor (`rclpy.spin`), so the callbacks of one node never overlap. The
nodes talk over topics whose subscriptions all use QoS depth 10 (reliable,
volatile, keep-last). Behind the contract topic `/cmd_drive` there is either
the simulator or the MCU bridge (the "HAL"). Beside the nodes there is a set of
scripts that run checks, write reports and judge from them whether a release is ready.

| Part | State it keeps | Operations | Talks to |
|---|---|---|---|
| `aris_mcu_bridge` (bridge node, link, transports, protocol) | last command, heartbeat time, last MCU report, last published `/estop`, sequence number, input buffer | `_on_cmd_drive`, `_control_tick` 50 Hz, `_state_tick` 20 Hz, `_publish_estop`; `write_frame`, `read_frame`, `_pop_frame_from_buffer`, `decode_frame` | reads `/cmd_drive`, writes `/estop`, `/vehicle/state`, the serial line |
| `aris_planning` local planner | path, e-stop flag, last obstacle advisory and its time | `_on_odom`, `_on_estop`, `_on_global_path`, `_on_dynamic_obstacle`, `_publish_path` | reads odometry, `/estop`, `/global_path`, advisory; writes `/cmd_drive` |
| `aris_planning` global planner, route graph, A* | map, pose, goal node | `_on_goal_pose`, `_on_odom`, `_publish_path` every 0.5 s, `plan_route_graph`, `GridPlanner.plan` | reads `/goal_pose`, odometry, a snapshot or a route file; writes `/global_path` |
| `aris_planning` path recorder, routes | last waypoint, recorded points, the CSV file | CSV header and append, `load_route_csv` | reads odometry; its file is read by the planners |
| `aris_vehicle_sim` HAL, Gazebo command bridge, LiDAR simulator | vehicle state, target, command time, e-stop flag | `_on_cmd_drive`, `_on_estop`, `_tick` | reads `/cmd_drive`, `/estop`; writes odometry |
| `aris_perception` obstacle detector and tracker, cloud adapter, segmentation | previous closest obstacle and its stamp, tracks | `_on_cloud`, `evaluate`, `with_track` | reads clouds; writes the advisory |
| `aris_localization` scan localization, correction gate, Gazebo pose sync | odometry history; last sent pose | `_on_odom`, `_on_scan`, `evaluate`; `_sync_pose` | writes `/odometry/filtered` and a transform; calls the `gz` CLI |
| `aris_mapping` semantic map | cells, labels, review queue, route, snapshot file | `_on_cloud`, `_on_semantic_observation`, `_publish_and_save`; validation and comparison of snapshots | reads observations; its snapshot is read by the global planner |
| `aris_bringup` operator API, teleop, launch files | none or little | goal request, `/cmd_vel` to `/cmd_drive` | writes `/goal_pose`, `/cmd_drive` |
| `scripts/` | timestamped reports, `latest_*` links, an index | checks, index, two audits, release candidate, validation, status | files and git |
| `aris_ai_semantics`, `aris_interfaces`, `aris_description`, `docker/`, `sim/` | files | advisory annotation, messages, URDF, containers | not in the control loop |

Three things keep the nodes of the control loop together. `/cmd_drive` carries steering,
speed and deceleration from whoever drives (planner or teleop) to every HAL. `/estop` is
one Boolean topic with several publishers (the MCU bridge's watchdog, an operator) and
several readers (planner, simulator), each of which keeps the last value it took.
Odometry paces the planner: it publishes exactly one command for each odometry
message. There are no locks and no threads, so what is hard lies elsewhere:

- *messages against timers*: a callback of one node runs between any two of another,
  queues drop their oldest message, and a verdict taken at one tick is used at the next;
- *two watchdogs* (0.2 s in the bridge, 0.5 s in the vehicle) over the same stream;
- *shared `/estop`*: only changes are published, and any publisher overwrites any other;
- *failure*: a serial line that fills up, disappears or damages bytes, a planner that
  crashes and restarts without remembering the e-stop, malformed advisories, calls that
  time out and still take effect;
- *files*: a snapshot rewritten in place, a route appended to behind a torn row, reports
  copied into an index that later reports do not reach;
- *stale values*: advisories, MCU reports, commands, labels and evidence outlive those
  who made them.

### What makes each part correct

| Part | Properties |
|---|---|
| MCU bridge | the watchdog answers within a period; an all-clear follows a written frame; every reader of `/estop` ends with the last value; silence is heard; frames are numbered in order |
| Frame parser | frames come out once and in order, none is lost on a clean line, damage stays local |
| Vehicles | speed moves toward a live command only, and toward zero under an e-stop; without commands they come to rest |
| Local planner | the e-stop always wins; a live advisory keeps the vehicle slow, none releases a full brake, a stale one is forgotten; a detour steers to its side |
| Drive loop | the startup alarm undoes itself, the vehicle arrives and stays at the goal; the bridge's watchdog is faster than the vehicle's; a restarted planner does not undo an alarm it never heard; a crashed planner means a vehicle at rest |
| Obstacle detector | what it decides reaches the planner with the right sign; identities of tracks are not reused |
| Global planner, A*, operator API | a plan is the cheapest walk over free edges; its path has no gaps; the last goal is followed |
| Path recorder | a route that loads holds driven points, plus at most one ghost line for each torn row; however slow the vehicle, its way is recorded |
| Semantic map | labels are the join of what was seen; conflicts are put to review; a restart goes on from the last whole save, or from nothing if a crash tore the file; a second pass agrees with the first |
| Localization | the published pose and transform agree; a correction was worth it; a late scan is matched around its own odometry |
| Gazebo pose sync | the node knows where the entity is unless a call timed out; the entity follows |
| Evidence scripts | the audits agree; no report gives permission to drive; the freshness and its reason agree; a release is judged on its own evidence |

## 2. The modules

```
RosTopics ---- McuBridge
    |              |
    |          DriveLoop --INSTANCE--> VehicleSim, PurePursuit
    |
    +------ ObstacleLoop --EXTENDS--> LocalPlanner, ObstacleDetector
    |                                     |
    |       PurePursuit ------------- LocalPlanner
    |                                     |
    +------ GoalNav ------EXTENDS--> LocalPlanner, RouteGraph ---- BestFirst

Hal <--refined by-- VehicleSim, GazeboCmdDriveBridge

SerialStream ---EXTENDS--> Protocol

SemanticMap, PathRecorder, Localization, PoseSync, EvidencePipeline

proofs about                                             are in
McuBridge, DriveLoop                                     DriveLoop_proofs
LocalPlanner, BestFirst                                  Planning_proofs
ObstacleLoop, ObstacleDetector                           ObstacleLoop_proofs
RouteGraph, GoalNav                                      GoalNav_proofs
VehicleSim, GazeboCmdDriveBridge, PathRecorder,          SideBySide_proofs
    PoseSync, Localization
SerialStream                                             SerialStream_proofs
SemanticMap                                              SemanticMap_proofs
EvidencePipeline                                         EvidencePipeline_proofs
```

| Module | Source | State | Actions |
|---|---|---|---|
| `RosTopics` | `rclpy` as the nodes use it | a queue per reader | `Publish`, `Take`, `Forget` (keep-last: the oldest is dropped) |
| `McuBridge` | `bridge_node.py`, `transport.py`, `protocol.py` | topics, node (`idle`, `writing`, `dead`), watchdog, link, line | `OnCmdDrive`, `ControlTick` up to the write, `ControlWritten`, `ControlWriteZero`, `ControlWriteRaises`, `StateTick`; the MCU, the publisher and time |
| `Protocol` | `protocol.py` (`encode_frame`, `decode_frame`) | none | operators only |
| `SerialStream` | `transport.py` (`read_frame`, `_pop_frame_from_buffer`) | wire, buffer, frames delivered | `McuSends`, `Damage`, `ReadFrame` |
| `Hal` | the contract every vehicle shares | e-stop, live command, speed | `TakeEstop`, `TakeCommand`, `CommandExpires`, `Move` |
| `VehicleSim` | `vehicle_sim_node.py`, `kinematic_bicycle.py` | e-stop, targets, age of the command, speed, steering | `OnEstop`, `OnCmdDrive`, `Tick`, `TimePasses` |
| `GazeboCmdDriveBridge` | `gazebo_cmd_drive_bridge*.py` | last command, its age, last twist | `OnCmdDrive`, `Tick`, `TimePasses` |
| `PurePursuit` | `pure_pursuit.py`, `dynamic_obstacle_advisory.py`, `cmd_drive.py` | none | operators only |
| `LocalPlanner` | `local_planner_node.py` | path, e-stop, advisory and its age, last command | `OnEstop`, `OnGlobalPath`, `OnDynamicObstacle`, `OnOdom`, `TimePasses` |
| `DriveLoop` | `bringup.launch.py` with `use_sim` | bridge, simulator, planner, odometry, operator | their handlers through the shared topics, `PlannerCrash`, `PlannerRestart`, `OperatorEstop`, `LoopTick` |
| `ObstacleDetector` | `dynamic_obstacle_node.py`, `dynamic_obstacles.py` | closest obstacle before, tracks, next identity | `OnCloud` |
| `ObstacleLoop` | detector and planner coupled by the advisory topic | both, the topic | `CloudArrives`, `ToolAdvises`, `PlannerAdvised`, `PlannerDrives`, `LoopTick` |
| `BestFirst` | the search of `route_graph.py` and of `astar.py` | none | `Search` as a function of its turns, `LeastCosts` as reference |
| `RouteGraph` | `route_graph.py`, the graphs of `global_planner_node.py`, `astar.py` | none | `PlanRouteGraph`, `PlanGrid`, `DensifyPath`, the graph of a route file |
| `GoalNav` | `operator_api_node.py`, `global_planner_node.py`, `_on_global_path` | map, goal, pose, plan, two topics, the planner's path | `OnGoalRequest`, `RvizGoal`, `OnGoalPose`, `OnNavOdom`, `PublishPlan`, `TakePath` |
| `SemanticMap` | `semantic_map.py`, `semantic_map_node.py`, the validation and comparison scripts | map, snapshot file, baseline | `Start`, `OnCloud`, `OnObservation`, `BeginSave`, `EndSave`, `Crash`, `Promote`, `NewPass`, `PutAway` |
| `PathRecorder` | `path_recorder_node.py`, `route.py` | header and rows of the file, last waypoint | `Prepare`, `PrepareTorn`, `OnOdom`, `OnOdomTorn`, `Stop` |
| `Localization` | `lidar_localization_node.py`, `lidar_correction.py`, `scan_matching.py`, `fusion_gate.py` | odometry history, published pose and transform | `OnOdom`, `OnScan`, `OnScanUnusable` |
| `PoseSync` | `gazebo_pose_sync*.py` | newest odometry, last sent pose, entity, request under way | `OnOdom`, `SyncPose`, `SyncFails`, `SyncTimesOut`, `TakesEffect` |
| `EvidencePipeline` | fifteen scripts of `scripts/` | newest report of each kind, links, index, audits, release run, work tree | `RunCheck`, `RunAudit`, `EditFiles`, `Commit`, `StartRelease`, `ReleaseStep`, `FinishRelease`, `Interrupt` |

`MCMcuBridge`, `MCDriveLoop`, `MCObstacleLoop`, `MCGoalNav`, `MCSideBySide` and
`MCEvidencePipeline` give constants their values. `MCSideBySide` and `MCGoalNav` check
parts that share no state *side by side*: a variable `part` says which of them a behaviour
is about, only that part moves, and the initial states offer every part.

Conventions. A callback is one action, because a node has one thread; two things that
take long are split where they can be interrupted: the control tick at its write, since a
full line may hold it up for ever, and the write of a snapshot, since a crash inside
`write_text` leaves half a file. An attribute that may be `None`, and a file that may be
missing, is a set of at most one value. Times are ages in ticks that stop one past the
timeout they are compared with. Definitions called a plausible bug are mutated forms of the
definition that follows; nothing in the specifications uses them, and each is there to
show that a property would notice.

`Hal` is the abstract specification. The simulator implements all of it (`VehicleSpec`),
the Gazebo adapter only with `/estop` taken for `FALSE` (`CommandedSpec`), because it
does not subscribe to it. The search has a functional one: `Optimal` compares what the
heap-based `Search` returns with the least costs of a relaxation over all edges.

Data that is abstracted: speeds, brakes and steering are levels; positions a half-metre
grid and quarter turns; `atan` of a curvature is the lateral offset it grows with; a
frame on the line is its sequence number, its command and whether it is whole; the CRC
is taken to tell every damaged frame from every sent one. `KinematicBicycleModel.step` is a
low pass over the time since the last tick: a tick moves speed and steering toward their
targets by any number of levels, none included, and level 0 stands for every speed below the
lowest that matters. In `DriveLoop` a moving vehicle reaches the next half metre in a tick or
does not; nothing is said about how many ticks or metres a stop takes. In `Localization` what map
and points amount to is one error for each candidate of the search. The edges of a map may run in
any direction. Costs of the route graph are in twentieths of a metre: a straight-line guess is
rounded down and the length of a segment up, both exact along the axes, and each point
that a segment is divided into is rounded down to the grid by itself. A field of a route file
remembers the waypoint it was written for and how much of its text is there. A commit is
the content of the runtime files and a count of changes to the others.

## 3. The runs

| Run | Module | What it shows | Bounds |
|---|---|---|---|
| `bridge_serial` | `MCMcuBridge` | `WatchdogBound`, `ReadersFollow`, `ClearOnlyAfterWrite`, `TypeOK` with every fault of the line | depth 2, one reader of `/estop`, timeout 1 period, one frame each way |
| `bridge_live` | `MCMcuBridge` | `SilenceIsHeard`, `AlarmShownInState`, `WireInOrder` on a line without faults | two readers, sequence modulo 3, two frames on the line, one report of the MCU waiting |
| `bridge_clears` | `MCMcuBridge` | finding: the watchdog's alarm is cleared by the next command, without an operator | as `bridge_live`, sequence modulo 2, no reports |
| `bridge_safe_stop` | `MCMcuBridge` | finding: the last command is still sent after the watchdog fired | as `bridge_serial`, no faults |
| `drive_loop` | `MCDriveLoop` | `Arrives`, `WatchdogStopsFirst`, `AlarmOutlivesPlanner`, `RestsWithoutPlanner`, `LoopTypeOK` with crashes, restarts and an operator | depth 1, goal after 2 half metres of 4, 2 levels of speed, timeouts 1 and 4 periods |
| `loop_latch` | `MCDriveLoop` | finding: an all-clear of the bridge releases the operator's e-stop | goal after 4 steps |
| `obstacle_loop` | `MCObstacleLoop` | `SteersAway`, `IdsNeverReused`, `LoopTypeOK` | depth 1, six clouds, three ticks, two tracks |
| `obstacle_stop` | `MCObstacleLoop` | finding: a `stop` of the detector is ignored by the planner | depth 2, two ticks |
| `goal_nav` | `MCGoalNav` | `EstopBrakes`, `AdvisoryBounds`, `AdvisoryHasLimits`, `DetourSteers` of the local planner; `PathIsSound`, `SearchIsCheapest`, `NavGoalIsFollowed` from the goal to the path; the grid planner | two paths and two too short ones, six poses, ten payloads; five maps (the demo graph, the graph of `test_planning.py` with its slanting way around, a snapshot with two slanting edges, one with blocked edges, a route file that ends on a slant), 56,391 states, two requests or goals, depth 1; grids of three by three cells with any of four blocked, up to two of them costly |
| `side_by_side` | `MCSideBySide` | seven parts: both vehicles (`VehicleSpec`, `CommandedSpec`, `HoldsTheWheel`, `BothComeToRest`), frame parser (`FramesSurvive`), semantic map (`MapKeepsInput`, `RepeatPassAgrees`, `RestartRestores`), recorder (`RouteIsDriven`), localization (`CorrectionsAreSound`), pose sync (`LastSentIsTrue`, `EntityFollows`) | 3 levels of speed, timeout 3 ticks; four frames, one damaged or lost byte; two cells, two labels, three messages a pass, two passes; four rows, two tears; five odometry messages, 19 scans, a history of two; four places |
| `evidence` | `MCEvidencePipeline` | `AuditsAgree`, `ReasonAgrees`, `ValidatedIsThisRun` | two contents of the runtime files, two edits or checks beside a release run, two measurements, 447,378 states |
| `evidence_tested` | `MCEvidencePipeline` | finding: a dry run whose protocol tests fail is accepted | as `evidence` |

Several properties are conjunctions of named parts, each with a mutant of its own
in `PROJECT.json`, of the code that part is about:

- `AdvisoryHasLimits`: `SlowerOnly`, `FullBrakeStays`, `ClearDoesNothing`, `StaleIsForgotten`;
- `PathIsSound`: the planner's types, `PathHasNoGaps`, `NeverThroughBlocked`;
  `SearchIsCheapest`: the route graph (`PlanIsCheapest`) and the grid (`GridPlanIsCheapest`);
- `BothComeToRest`: the simulator's and the Gazebo adapter's `ComesToRest`;
- `FramesSurvive`: `InOrder`, `CleanLineLossless`, `DamageStaysLocal`;
- `MapKeepsInput`: `MapTypeOK`, `LabelsAreJoin`, `ConflictIsReviewed`;
- `RouteIsDriven`: `LoadedIsDriven`, `CreepIsRecorded`;
- `CorrectionsAreSound`: `TransformAligns`, `CorrectionIsEarned`, `NearestOdom`;
- `AuditsAgree`: `ScopesAgree`, `NeverSafe`.

Why the bounds suffice. A queue of depth 1 or 2 already overflows, and what counts in one
is its last message. A timeout of one or two periods can be met, missed by one and
missed by more; in `drive_loop` the vehicle's timeout stays longer than the bridge's by
enough periods for a vehicle that ignored the bridge to gain speed. A sequence modulus
of 3 wraps with two frames on the line. `SerialStream` starts an
undamaged frame before and behind the damaged one, and its last frame holds the two
bytes of a magic, apart. Two levels of speed tell moving from
standing and a vehicle that gains speed from one that keeps it. The maps of `goal_nav` have a detour that costs more than the
straight way until a risk or a blocked edge makes it cheaper, ties, an unreachable node and
an edge both ways. In `SemanticMap` three messages suffice for a label, one that ties with
it and one that is weaker but later; two passes are what a comparison needs. Two tears
reach a ghost row behind a ghost row. The scans of `Localization` fit one candidate, two at
once, or one the gate refuses, and come before, between and after the odometry; a history of
two forgets. Two events beside a release run suffice to replace a report and move the
index between any two of its eleven steps. The proofs of section 5 remove the bounds for
what they cover.

The runs that end in a violation are disagreements between the code and its documents:

- `bridge_safe_stop`: `_control_tick` writes `last_command` before it asks the watchdog
  and never replaces it, so a lost heartbeat does not put a stop on the wire
  (`docs/safety.md:10`). The e-stop is published on `/estop` only.
- `bridge_clears`: `_control_tick` publishes what `safe_stop_required()` says at that tick, so
  the first command after a timeout ends the alarm (`bridge_node.py:95`). The documents have
  "fault report -> operator clear" after a heartbeat miss (`docs/workflows.md:255`, and
  `docs/FINAL_ARCHITECTURE_SPEC.md:354`, `docs/verification_plan.md:75` of fault latches), and the
  node has no input for a clear. `Arrives` rests on what the code does: under the
  documents' rule the alarm with which the loop starts would stay.
- `loop_latch`: `/estop` has one value for two reasons; the bridge's all-clear also
  releases an operator's e-stop (`docs/workflows.md:261`, "latch").
- `obstacle_stop`: the detector writes `null` for the detour numbers of a `stop`, the
  planner's parser raises `TypeError` and drops the message, so a stop does not stop
  (`docs/workflows.md:175`). A `detour` carries numbers and is obeyed.
- `evidence_tested`: in `check_embedded_dry_run.sh` both checks run in a group on the left
  of `||`, where bash ignores `set -e`; only the status of the second one counts, and the
  report still lists the protocol tests (`README.md:228`).

## 4. Fairness

`McuBridge!Fairness` is weak for timers, the write of a frame, the MCU's reading, the
readers of `/estop` and time; it is strong for `OnCmdDrive` only, since a control tick
disables it while it writes, and an `rclpy` executor serves every ready entity of a wait
set before it waits again. Nothing is assumed about publishers: a stream is live because
a property's hypothesis says so. The liveness run has no line faults, because a node
that died of an `OSError` keeps no promise.

The vehicles of `MCSideBySide` need their timer and time, and the simulator `Settles`: a low
pass is not above its target for ever, nor below it. It stands for weak fairness of the ticks
that slow the vehicle down and of those that speed it up, since a tick may leave the level as
it is. `DriveLoop!LoopFair` has the same of its vehicle and is weak otherwise, but for one
strong condition: a vehicle that can again and again reach the next half metre does so. It is a
consequence of a speed that stays above zero, which a tick that may also stay in its half
metre does not show. Planner crashes, restarts and the operator are never forced, so `Arrives`
and `RestsWithoutPlanner` state which of them is in the end the case. `GoalNav!NavFairness` is
weak for the delivery of a goal and of a path, odometry and the planning timer; nobody is
obliged to ask for anything. `EntityFollows` needs strong fairness of a call that succeeds:
Gazebo answers now and then, with failures and timeouts between. Everything else is a safety
property and assumes none; `evidence` lets the system stop, since reports are
made by hand.

`Prompt` and `KeepUp` are timing assumptions of safety properties: a callback takes much
less than the 20 ms of a period, and with `KeepUp` all messages of a period are taken
before the next one. The theorems on the loop's types and on `AlarmOutlivesPlanner` do without `KeepUp`.

## 5. Proofs

The theorems hold for every value of the constants that the named assumptions allow.
Where a theorem is about a part that `side_by_side` or `goal_nav` runs beside others, its
specification is the part's own `Spec`, and its property the one the run checks.

**Bridge** (`DriveLoop_proofs`): `TypeCorrect` (`[]TypeOK`), `WatchdogIsBounded`
(`[]WatchdogBound`), `ReadersAlwaysFollow` (`[]ReadersFollow`), `ClearNeedsWrite`
(`ClearOnlyAfterWrite`), `WireAlwaysInOrder` (`[]WireInOrder`) and `AlarmAlwaysShown`
(`AlarmShownInState`), for every set of readers, messages, reports and faults, every depth,
timeout, sequence modulus and buffer. `TypeOK` is inductive with lemmas on keep-last queues
and on polling the line. `WatchdogBound` is inductive together with `TypeOK`: time passes an
idle node only after its control tick, which compares the age with the timeout.
`ReadersFollow` is inductive because publishing puts the new value at the end of every queue,
also of one that overflows. `WireInOrder` needs `WireInv`: a frame being written is numbered
one after the last on the line, and an idle node has used up that number.
`AlarmShownInState` needs `AlarmInv`: as long as no write fails, an alarm that outlives the
control tick of its period is the watchdog's, so `_state_tick`, which computes the timeout
anew, agrees with it.

**Vehicles** (`SideBySide_proofs`): `SimTypeCorrect`, `SimImplementsHal`
(`VehicleSpec`), `SimHoldsTheWheel` (`HoldsTheWheel`), `GazeboTypeCorrect` and
`GazeboImplementsHal` (`CommandedSpec`). The refinement maps the live command to the target
velocity while its age is below the timeout; a tick is `Move` because the target of the
abstract vehicle is what `_active_command` returns, a step in time is `CommandExpires` exactly
when the age crosses the timeout and a stutter otherwise. It needs the type invariant.

**Drive loop** (`DriveLoop_proofs`), with the bridge in dry-run mode as `bringup.launch.py`
starts it beside the simulator. For every depth, both timeouts, every set of nodes that
keep up, every crash, restart and operator:

- `LoopTypesCorrect` (`[]LoopTypeOK`): no queue outgrows its depth, and every answer is a
  message the bridge's own specification allows. `LoopInv` says that the queues hold what their
  senders may send; that an answer of the planner asks for no more than the fastest level is
  proved through `PurePursuit.command` and `local_plan_to_ackermann`, because the simulator
  itself has no upper limit on a command.
- `AlarmAlwaysOutlives` (`AlarmOutlivesPlanner`), from `FollowInv`: until an operator acts, the
  bridge is the only publisher of `/estop`, so a vehicle with an empty queue holds what the
  bridge said last, whatever a restarted planner believes.

Under `Punctual`, that is when the three nodes take what is in their queues before the next
period (what `KeepUp` is in `drive_loop`), for every goal, speed limit, depth and pair of
timeouts, any crashes of the planner, and however the vehicle moves toward its target:

- `WatchdogAlwaysFirst` (`WatchdogStopsFirst`) from `Safety`, five invariants inductive
  together: messages of one round never meet those of the next and were computed for the place
  where the vehicle is (`RoundInv`); bridge and vehicle count the age of the same command
  (`AgeInv`); the watchdog's verdict is out before time goes on (`VerdictInv`) and is what the
  vehicle holds or has in its queue (`FollowInv`); so a vehicle about to tick with a command
  older than the watchdog allows holds the alarm (`LateInv`).

**Local planner** (`Planning_proofs`), for every path, pose, limit and timeout:
`EstopAlwaysBrakes` (`EstopBrakes`), `AdvisoriesSlowDown` (`AdvisoryBounds`, for a slow
speed that is not negative), `AdvisoriesHaveLimits` (`AdvisoryHasLimits`) and `DetoursSteer` (`DetourSteers`).
`AdvisoryHasLimits` has four parts: `slow` and `stop` only take speed away, add brake and leave
the steering alone (`SlowerOnly`); the full brake of an e-stop or at the goal is released by no
advisory (`FullBrakeStays`); `clear` does nothing (`ClearDoesNothing`); an advisory past its
timeout does nothing (`StaleIsForgotten`). A `detour` may steer, and may set a planner going that
brakes because its path lies behind it; `AdvisoryBounds` then keeps it slow.
The first three theorems follow speed and brake through
`PurePursuit.command`, `apply_dynamic_obstacle_advisory` and `local_plan_to_ackermann` and
never look at the geometry. The last one does: a bypass point that is put in front of the rest
of the path and lies a lookahead away or farther is the first point `PurePursuit` accepts, and
turning it into the map frame and back gives the lateral offset the advisory named, for each
heading. `AdvisoryInv` says that what is stored passed the parser, `PlannerInv` adds the
types of pose and path.

**Obstacle loop** (`ObstacleLoop_proofs`), for every cloud, stamp, route, pose, depth and
timeout:

- `DetoursSteerAway` (`SteersAway`) under `DetourReaches`: a detour lies beside the vehicle and
  no nearer than the lookahead. With a detour of no width or behind the lookahead the planner
  has nothing to steer at; the code's defaults are 1.0 m aside and 2.0 m ahead for a lookahead
  of 2.0 m. The invariant `SceneInv` ties the two nodes together: the detector's decision about
  the last cloud is the newest message on its way, or a detour the planner has stored. The sign
  turns over between the mean of the points' `y` and the steering, through two nodes.
- `NoIdIsReused` (`IdsNeverReused`, with `IdsIdentify`): a track that appears has an id above all
  earlier ones, dropped tracks included, and no two tracks share one (`DetectorInv`).
- `LoopKeepsTypes` (`[]LoopTypeOK`).

**Search** (`Planning_proofs`). `BestFirstIsOptimal`: for every finite problem with steps of
positive cost and an estimate that no step overtakes (`Consistent`), the loop that
`plan_route_graph` and `GridPlanner.plan` share returns a walk of the least cost, or none
exactly if the goal cannot be reached. Both loops leave stale entries in the heap and stop at
the first pop of the goal, so three things are to be shown:

- *The plan is a walk.* `Rooted`: predecessors form a tree of steps whose costs fall towards
  the start. This holds for any estimate, and the way back ends because it falls on every step.
- *The search ends*, within `MaxTurns`, a bound the model names: no node is expanded twice, so
  entries of the heap plus steps from nodes not yet expanded (`Work`) fall with every turn.
- *Nothing is cheaper.* The invariant `Exact`: an entry of the heap is at or above the current
  priority of its node (`EntryInv`), and a node with no current entry is settled, below every
  entry left (`LevelInv`). When the goal is popped, every node below it is settled; then each
  round of the reference, and each walk, is `Beyond` what the search found.

**Global planner and grid** (`GoalNav_proofs`).

- `RoutePlansAreCheapest`, `GridPlansAreCheapest`: the route graph of any map and a grid of any
  size are such problems. What makes the estimate consistent is geometry: by the triangle
  inequality the rounded-down distance to a point never falls by more than a step in any direction
  costs, if it costs its length (`GuessIsConsistent`).
- `SearchesAreCheapest` (`[]SearchIsCheapest`): all plans of all behaviours are the cheapest.
- `PathsAreSound` (`[]PathIsSound`): `NavInv` follows a plan from `plan_route_graph` through
  `densify_path` and the queue into the local planner, whatever is lost or late on the way.
  `densify_path` leaves no gap because each of its steps is rounded by less than the rounding up
  of their number makes room for (`DensePathHasNoGaps`).

Their hypotheses say what the code relies on. `NavAssumption`: the edges of a map join its nodes
and cost something (`IsMap`), and the spacing is positive (`densify_path` divides by it). Edges
run in any direction. `PricedByLength` and `SampledWell`, for the least cost only: an edge costs
its length or more, and its nine samples miss no greater risk than the cells under the edge
hold (`CellsUnder`, the cells the segment passes through, at whatever slant). No code checks either
when it loads a snapshot (`semantic_map.py:254` takes any number for a cost).
`RouteFilesAreHonest` proves both for the graph of every route file, which has no risks, and `ShortEdgesAreSampled`
the second for edges of up to four metres along an axis: on a slant, nine points may pass
by the corner of a cell on edges of any length. TLC evaluates all of them on the maps of
`goal_nav` (`HonestMaps`).

**Semantic map** (`SemanticMap_proofs`), for every set of labels, observations, clouds, route
files and thresholds that `MappingParameters` admits (names of labels differ, risks and
confidences are in range, the grid is finite, the confirmation threshold is not zero):
`MapAlwaysKeepsInput` (`MapKeepsInput`), `RepeatedPassesAgree` (`RepeatPassAgrees`) and
`RestartsRestore` (`RestartRestores`). The last says what the code does with a crash: a node that
starts again has the cells of its last whole save, and if a crash since then fell inside
`write_text`, nothing at all, however much was saved before. `MapInv` says of the map in memory, of the snapshot on
disk and of the baseline that each `Knows` the input it has taken:

- *Learnt*: the labels of a cell are the join of its strong observations, each at its best
  confidence, and none twice;
- *Settled*: a confirmed cell whose conflict no review reports has one strictly leading label,
  and a cost made of it.

Neither depends on the order of the labels. This is what makes them inductive: JSON writes
labels in alphabetical order, so a restart may permute them, and a property of the first label
would be lost. Two maps that know the same input then have the same cells, metric state and
leading labels, which is all the comparison of two passes looks at; the percentages it computes
are over equal sets.

**Path recorder and pose sync** (`SideBySide_proofs`). `RouteAlwaysDriven`
(`RouteIsDriven`), for every spacing and every drive on a line: `FileInv` says that a file with
an open end is a whole file and the beginning of one torn row, and that a whole file has every
row in a line of its own but for those that share a line with a torn one, which are no more
than the tears; `CreepInv` that the last recorded point is the vehicle's place but for less than
a spacing. What `load_route_csv` reads of a line made of a beginning and a row is worked out by
the number of fields of the beginning. `LastSentAlwaysTrue` (`LastSentIsTrue`), for every set of
places and every `MinDelta`, from: a request is under way only after a timeout.

**Localization** (`SideBySide_proofs`): `CorrectionsAlwaysSound` (`CorrectionsAreSound`),
for every window, every limit and natural stamps and errors (`Parameters`). The transform is
inverse to the odometry in the group of translations and quarter turns, case by case of the
heading; a correction is the first best of the candidates because a minimum over the naturals
exists (well-foundedness); the odometry is the nearest because of `HistoryInv`: the history is
in the order of its stamps, and what it forgot is older.

**Evidence** (`EvidencePipeline_proofs`): `ReasonAlwaysAgrees` and `AuditsAlwaysAgree` for all
reports and histories, and `ValidatedAlwaysThisRun`. The last needs `OwnEvidence`: for every
step a run has passed, the report of that step is the run's own, from the ninth on the index's
copy is too, and a check made meanwhile only puts current reports in their place.

**Frame parser** (`SerialStream_proofs`): `FramesAlwaysSurvive` (`FramesSurvive`), for every
number of frames, every payload and CRC byte and every way to cut the line into chunks. The
hypothesis about the CRC is `FrameAssumption` in `Protocol`, which TLC evaluates for the frames
of the run: when one byte of the line is changed or lost, what still reads as frame *i* lies
where frame *i* was. Nothing is assumed of a header that lies about its length, or of half a
`MAGIC` inside a payload. As in the run, at most one byte is damaged (`MaxNoise`).

- *The loop.* `_pop_frame_from_buffer` goes on only after it has taken a whole claimed frame out
  of the buffer, so it ends; `LoopExists` shows that the recursive function exists, `PopUnfolds`
  that it is what its turns say.
- *What it takes* (`PopTakes`): whatever the buffer holds, the parser takes bytes off its front,
  and a frame it returns is the last five bytes taken, or else it returns none.
- *The line.* `SerialInv`: there is a line with at most one damage (`OnLine`) and a number *d* of
  bytes taken from it, such that buffer and wire show the rest (`ToBeRead`), and what was
  returned came before it, in order (`Returned`). This alone gives `InOrder`, under any damage.
- *The loss.* As long as no damage moved the frames and no buffer was cut inside `MAGIC`
  (`Local`), *d* is where a frame begins or lies in the rest of the frame whose `MAGIC` was
  changed (`Aligned`), and all frames before it but that one were returned. A read keeps this by
  `ReadIntact`, `ReadBroken` and `ReadJunk`, the three things the buffer can begin with.

Where a proof goes over the length of a sequence or the size of a set, the induction is the
least-number principle on the naturals (`LeastNat`, `NatInd`), proved from well-foundedness.

### Only model-checked

- *Liveness* (`SilenceIsHeard`, `Arrives`, `RestsWithoutPlanner`,
  `BothComeToRest`, `EntityFollows`, `NavGoalIsFollowed`): the prover has neither `ENABLED` nor
  fairness here.

## 6. Behaviour that no run states

Reading the code for the models showed the following, which no property calls wrong. Most
of it the models contain.

Control loop:

- `os.write` may raise an `OSError` that is no `TransportError` (`transport.py:107`): the
  bridge node ends, without having published an alarm; the vehicle's own timeout and the
  MCU's have to stop it.
- An MCU that stops reading makes `write_frame` spin on `BlockingIOError`
  (`transport.py:108`): the watchdog, which runs on the same thread, is silent for as
  long. `WatchdogBound` speaks of an idle node for this reason.
- A chunk that ends between the two bytes of `MAGIC`, with nothing else in the buffer,
  loses that frame (`transport.py:209`); `magic_cut` records it.
- `/vehicle/state` ignores a transport error, and shows the last MCU report for ever.
- A fault report of the MCU is read and dropped (`transport.py:168`).
- A live `detour` gives a planner that would only brake (its path is behind it) a target
  ahead, so it drives at the slow speed. `AdvisoryHasLimits` allows it by name.
- A planner restarted in an alarm commands full speed at once; that the vehicle stays at rest is
  due to the vehicle's own copy of `/estop` (`AlarmOutlivesPlanner`). A vehicle behind the Gazebo
  adapter has no such copy.
- The Gazebo adapter has no `/estop` (`docs/workflows.md:103` relies on it).

Goals and routes:

- `NaN` is a number to `json.loads` and less than nothing, so a goal at `NaN` selects the
  first node of the map. A goal that cannot be reached is accepted, and the path before it
  stays in force; so does the path when the vehicle is already at the goal's nearest node.
- An edge longer than 4 m is sampled at points more than one cell apart
  (`route_graph.py:81`), so a risky cell between them costs nothing; in the maps of the runs no risk lies so.
- A full queue of `/goal_pose` could drop a goal in the map frame for one in another frame.
- A row appended behind a torn one may parse as a waypoint that nobody drove, and a torn
  header makes the file unreadable for ever.

Semantic map:

- `save_snapshot` empties the file before it fills it (`semantic_map.py:219`). A crash in between
  loses what every earlier save of the pass had put there, not only what is new, and the torn
  file keeps the node from starting until somebody removes it.
- The documents ask for more of the map than the code does. Confidence should "increase with
  repeated observations" and "decrease with stale observations", and change candidates "require
  review before driveability-changing publication" (`docs/verification_plan.md:85-87`,
  `docs/FINAL_ARCHITECTURE_SPEC.md:425-428`). The code keeps the best confidence of each label for
  ever, repeats change a count only, and a change is applied in the call that asks for its
  review (`semantic_map.py:130-144`). `LabelsAreJoin` and `ConflictIsReviewed` state the rule of the
  code: the order of messages, repeats and restarts make no difference to the labels, and no
  conflict goes without a review. They do not state the rule of the documents, which fails.
- An observation at `Infinity` raises `OverflowError`, which `semantic_map_node.py:70` does
  not catch: the node ends.
- Labels that tie may change places at a restart, since JSON sorts them, and no review asks.
- The first route that is not empty stays (`semantic_map.py:299`). Route overlap compares
  the names of the nodes, `route_0000` and so on, so other routes of equal length overlap
  fully. The comparison does not look at blocked flags, counts high-risk cells without
  asking which, and takes a cell that is gone for no change of label.
- Validation demands a pending review, so a map without doubt is not valid; the review
  queue only grows (`semantic_map.py:144`).

Localization and pose sync:

- Nothing limits the time between a scan and the odometry it is matched around, and a late
  scan sends `/odometry/filtered` back in time.
- With the default window (0.2 m, 0.08 rad) the gate's limits on jumps (0.5 m, 0.25 rad)
  can never refuse. A scan with infinite points only ends the node.
- A call that timed out and takes effect when the vehicle is back near `last_sent_pose`
  leaves the entity elsewhere until the vehicle moves again.

Evidence:

- Freshness looks at the commit of the readiness log only (`summarize_headless_status.py:58`),
  the README says all evidence is "generated from the current Git HEAD"; when git cannot
  tell what changed, nothing has (`:380`).
- Audits prefer the index's copy to a newer report that failed. Margins that are `None`
  count as kept, and `v3_compare` is skipped without a baseline.
- `latest_` links do not move when a check of flow, repeatability, field, bootstrap or
  branch fails, while what is newest by time is the failing report.
- In reuse mode a release run records every step as passed. A status that is not ready ends
  the release script (`set -e`) before its validation runs.

## 7. Not modelled

- *LiDAR simulator*: ray casting over boxes in floating point, without control state.
- *Gazebo cloud adapter and simulated segmentation*: the conversion of a message field by
  field and a scripted source; what comes out is an input of `ObstacleDetector` and
  `SemanticMap`.
- *Teleop*: a conversion without state; its range, reverse included, is what `VehicleSim`
  takes as commands.
- *AI semantics*: text classification without authority over control.
- *Launch files, interfaces, description, containers*: wiring and data.
- Of the modelled parts: summaries, counters and display paths that are published for people;
  the decoding of `PointCloud2`; velocity, age and persistence of a track as reported;
  `MemoryTransport`, `write_route_csv` and `select_lookahead_waypoint`, which no node calls;
  the teleop mode of the launch file; hashes, wording and the checks of host, branches and
  documents among the scripts, whose outcome is a choice.

A scan whose points are all infinite ends the localization node (`OnScanUnusable`), and a
fault report of the MCU is dropped: these two hazards are in the models and have no property,
because nothing in the repository restarts the one or reads the other.
