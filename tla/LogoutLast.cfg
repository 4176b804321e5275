SPECIFICATION Spec
CONSTANTS
    Build <- OnlyV1
    Signal = {SIGINT, SIGTERM}
    HeartbeatCycle = 2
    MaxLate = 1
    NumLimit = 3
    MaxTime = 9
CONSTRAINT Bounds
PROPERTIES LogoutIsLast
