SPECIFICATION LoopSpec
CONSTANTS
    Depth = 2
    EstopReaders = {"planner", "vehicle"}
    CmdReaders = {"bridge", "vehicle"}
    DriveMsgs <- MCDriveMsgs
    HeartbeatTimeout = 2
    AgeCap = 4
    SeqMod = 1
    Transport = "dry-run"
    TxCap = 1
    RxCap = 0
    McuReports = {}
    Faults = {}
    GoalX = 4
    RoadEnd = 7
    MaxSpeed = 2
    CommandTimeout = 5
    KeepUp = {"bridge", "planner", "vehicle"}
    OperatorActs = TRUE
    PlannerFails = FALSE
    PlannerRestarts = FALSE
PROPERTIES
    EstopLatched
