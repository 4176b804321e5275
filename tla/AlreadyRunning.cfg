SPECIFICATION FairSpec
CONSTANTS
    Process = {p1, p2, p3}
    Path = {x1, x2}
    NoPid = NoPid
INVARIANTS TypeOK OneInstance
PROPERTIES FileKeepsPid RefusedForInstance SomeoneRuns
