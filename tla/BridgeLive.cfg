SPECIFICATION FairSpec
CONSTANTS
    Depth = 2
    EstopReaders = {"planner", "vehicle_sim"}
    CmdReaders = {"bridge"}
    DriveMsgs <- MCOneDriveMsg
    HeartbeatTimeout = 1
    AgeCap = 3
    SeqMod = 3
    Transport = "serial"
    TxCap = 2
    RxCap = 1
    McuReports <- MCLatchedReport
    Faults = {}
INVARIANTS
    WireInOrder
PROPERTIES
    SilenceIsHeard
    
