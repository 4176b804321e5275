------------------------------ MODULE MCPcTool ------------------------------
(***************************************************************************)
(* Values for model checking PcTool.                                       *)
(***************************************************************************)
EXTENDS PcTool, TLC

CONSTANTS
    MaxTime,     \* bound of the clock
    MaxTimers    \* bound of timeEventNextId

(* Addresses of two bytes. *)
TwoMacs == {<<1, 1>>, <<1, 2>>}

(* Addresses that agree up to a zero byte, as in 00:1a:... and 00:2b:... *)
ZeroByteMacs == {<<0, 1>>, <<0, 2>>}

Bounds == now <= MaxTime /\ nextId <= MaxTimers

(* Blocks are interchangeable. *)
CellSymmetry == Permutations(Cell)

=============================================================================
