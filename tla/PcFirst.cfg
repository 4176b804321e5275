SPECIFICATION Spec
CONSTANTS
    MacLen = 1
    Mac <- Cameras
    CheckCycle = 1
    SearchSleep = 1
    MaxLate = 1
    MaxCmds = 2
VIEW View
INVARIANTS TypeOK FaultHasCause
PROPERTIES QueueUntilFault
