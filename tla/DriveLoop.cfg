SPECIFICATION LoopFair
CONSTANTS
    Depth = 1
    EstopReaders = {"planner", "vehicle"}
    CmdReaders = {"bridge", "vehicle"}
    DriveMsgs <- MCDriveMsgs
    HeartbeatTimeout = 1
    AgeCap = 3
    SeqMod = 1
    Transport = "dry-run"
    TxCap = 1
    RxCap = 0
    McuReports = {}
    Faults = {}
    GoalX = 2
    RoadEnd = 4
    MaxSpeed = 2
    CommandTimeout = 4
    KeepUp = {"bridge", "planner", "vehicle"}
    OperatorActs = TRUE
    PlannerFails = TRUE
    PlannerRestarts = TRUE
INVARIANTS
    LoopTypeOK
PROPERTIES
    Arrives
    WatchdogStopsFirst
    AlarmOutlivesPlanner
    RestsWithoutPlanner
