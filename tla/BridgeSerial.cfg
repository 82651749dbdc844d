SPECIFICATION Spec
CONSTANTS
    Depth = 2
    EstopReaders = {"planner"}
    CmdReaders = {"bridge"}
    DriveMsgs <- MCOneDriveMsg
    HeartbeatTimeout = 1
    AgeCap = 3
    SeqMod = 2
    Transport = "serial"
    TxCap = 1
    RxCap = 1
    McuReports <- MCLatchedReport
    Faults = {"zero", "oserror", "full", "badsize"}
INVARIANTS
    TypeOK
    WatchdogBound
    ReadersFollow
PROPERTIES
    ClearOnlyAfterWrite
