SPECIFICATION LoopSpec
CONSTANTS
    Lookahead = 4
    GoalTolerance = 3
    SlowSpeed = 4
    DefaultLateral = 2
    MinForward = 1
    MergeForward = 8
    InitialPath <- MCRoute
    GlobalPaths <- MCRoutes
    OdomPoses <- MCPoses
    Payloads <- MCTool
    AdvisoryTimeout = 1
    HalfWidth = 1
    MinX = 1
    StopDistance = 2
    SlowDistance = 8
    MinPoints = 1
    ClosingStop = 12
    DetourLateral = 2
    DetourForward = 4
    MatchDistance = 2
    ForgetAfter = 1
    Depth = 1
    Clouds <- MCClouds
    MaxClock = 3
    MaxTracks = 2
INVARIANTS
    LoopTypeOK
PROPERTIES
    SteersAway
    IdsNeverReused
