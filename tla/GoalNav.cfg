SPECIFICATION MCSpec
CONSTANTS
    Lookahead = 4
    GoalTolerance = 3
    SlowSpeed = 4
    DefaultLateral = 2
    MinForward = 1
    MergeForward = 8
    InitialPath <- MCStraight
    GlobalPaths <- MCGlobalPaths
    OdomPoses <- MCOdomPoses
    Payloads <- MCPayloads
    AdvisoryTimeout = 1
    Depth = 1
    Lexical <- MCLexical
    SemanticWeight = 200
    Spacing = 4
    Maps <- MCMaps
    StartGoals <- MCStartGoals
    Requests <- MCRequests
    RvizGoals <- MCRvizGoals
    MaxGoals = 2
INVARIANTS
    PathIsSound
PROPERTIES
    SearchIsCheapest
    EstopBrakes
    AdvisoryBounds
    AdvisoryHasLimits
    DetourSteers
    NavGoalIsFollowed
