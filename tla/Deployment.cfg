SPECIFICATION DeploymentSpec
CONSTANTS
    Cell = {c1, c2}
    Link = Link
    Null = Null
    Wild = Wild
    NoCell = NoCell
    MacLen = 1
    Mac <- TwoMacs
    OwnMac <- CameraMac
    Info = {i1}
    CheckCycle = 3
    ListDelay = 0
    MaxLate = 0
    Build <- OnlyV2
    Signal = {SIGTERM}
    HeartbeatCycle = 1
    CameraLate = 0
    NumLimit = 1
    MaxDelay = 0
    MaxLoss = 1
    MaxTime = 7
    MaxTimers = 2
CONSTRAINT Few
VIEW View
SYMMETRY CellSymmetry
INVARIANTS DeploymentTypeOK OnlineIsShown EndedIsNotShown
