SPECIFICATION FairSpec
CONSTANTS
    Silence = 2
    NumLimit = 1
    MinSilence = 6
    MaxSilence = 7
    MaxDelay = 1
    MaxLoss = 1
INVARIANTS TypeOK OnlineIsAlive GoneIsNoticed AliveHasSpoken
PROPERTIES EventuallyAlive EventuallyNotAlive
