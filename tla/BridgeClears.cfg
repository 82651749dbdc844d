SPECIFICATION FairSpec
CONSTANTS
    Depth = 2
    EstopReaders = {"planner", "vehicle_sim"}
    CmdReaders = {"bridge"}
    DriveMsgs <- MCOneDriveMsg
    HeartbeatTimeout = 1
    AgeCap = 3
    SeqMod = 2
    Transport = "serial"
    TxCap = 2
    RxCap = 0
    McuReports <- MCLatchedReport
    Faults = {}
PROPERTIES
    OperatorClears
