SPECIFICATION Spec
CONSTANTS
    Cell = {c1, c2}
    Link = Link
    Null = Null
    Wild = Wild
    NoCell = NoCell
    MacLen = 2
    Mac <- TwoMacs
    Info = {i1}
    CheckCycle = 2
    ListDelay = 1
    MaxLate = 1
    MaxTime = 6
    MaxTimers = 3
CONSTRAINT Bounds
SYMMETRY CellSymmetry
CHECK_DEADLOCK FALSE
INVARIANTS TypeOK NoDuplicateRows OneWatchTimer NoFalseDeath DeathNoticed
PROPERTIES TimersFollowService LogoutRemovesOwn FailuresHaveCause
