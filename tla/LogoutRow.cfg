SPECIFICATION Spec
CONSTANTS
    Cell = {c1, c2, c3}
    Link = Link
    Null = Null
    Wild = Wild
    NoCell = NoCell
    MacLen = 2
    Mac <- TwoMacs
    Info = {i1}
    CheckCycle = 2
    ListDelay = 1
    MaxLate = 1
    MaxTime = 8
    MaxTimers = 3
CONSTRAINT Bounds
CHECK_DEADLOCK FALSE
PROPERTIES LogoutRemoves
