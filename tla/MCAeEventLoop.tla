--------------------------- MODULE MCAeEventLoop ---------------------------
(***************************************************************************)
(* Values for model checking AeEventLoop.                                  *)
(***************************************************************************)
EXTENDS AeEventLoop, TLC

CONSTANTS
    MaxTime,     \* bound of the clock
    MaxTimers    \* bound of timeEventNextId

Bounds == now <= MaxTime /\ nextId <= MaxTimers

FdSymmetry == Permutations(Fd)

=============================================================================
