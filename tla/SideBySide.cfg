SPECIFICATION MCSpec
CONSTANTS
    MaxSpeed = 3
    MaxSteer = 2
    CommandTimeout = 3
    MaxSent = 4
    MaxNoise = 1
    Payload <- MCPayload
    Crc <- MCCrc
    Lexical <- MCLexical
    Base <- MCBase
    ChangeThreshold = 65
    ConfirmationThreshold = 75
    HighRisk = 800
    Observations <- MCObservations
    CloudCells = {2}
    RouteFiles <- MCRouteFiles
    MinMetricCells = 1
    MinRouteNodes = 2
    MinReviewQueue = 1
    MinHighRisk = 1
    MinOverlap = 95
    MaxDelta = 0
    MaxInputs = 3
    Spacing = 2
    Positions = {0, 1, 2, 3}
    MaxRows = 4
    MaxTears = 2
    PriorXY = 20
    PriorYaw = 3
    MinImprovement = 5
    MaxTranslation = 1
    MaxYaw = 1
    MaxMeanError = 35
    MinUsedPoints = 10
    HistorySize = 2
    OdomMessages <- MCOdomMessages
    Scans <- MCScans
    MinDelta = 2
    Places = {0, 1, 2, 3}
INVARIANTS
    TypeOK
    FramesSurvive
    MapKeepsInput
    RepeatPassAgrees
    RouteIsDriven
    CorrectionsAreSound
    LastSentIsTrue
PROPERTIES
    VehicleSpec
    HoldsTheWheel
    BothComeToRest
    CommandedSpec
    RestartRestores
    EntityFollows
