SPECIFICATION Spec
CONSTANTS
    Fd = {console, net}
    Delay = {3, 5}
    Second = 3
    MaxWork = 2
    MaxTime = 12
    MaxTimers = 3
CONSTRAINT Bounds
SYMMETRY FdSymmetry
INVARIANTS TypeOK LateBound
PROPERTIES OncePerPass ImplementsService
