------------------------------ MODULE MCDevice ------------------------------
(***************************************************************************)
(* Values for model checking Device.                                       *)
(***************************************************************************)
EXTENDS Device, TLC

CONSTANT MaxTime    \* bound of the clock

BothBuilds == {"v1", "v2"}
OnlyV1 == {"v1"}

(* The two signals are handled alike. *)
SignalSymmetry == Permutations(Signal)

Bounds == now <= MaxTime

=============================================================================
