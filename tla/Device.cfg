SPECIFICATION Spec
CONSTANTS
    Build <- BothBuilds
    Signal = {SIGINT, SIGTERM}
    HeartbeatCycle = 2
    MaxLate = 1
    NumLimit = 3
    MaxTime = 8
SYMMETRY SignalSymmetry
CONSTRAINT Bounds
INVARIANTS TypeOK
PROPERTIES ImplementsCamera
