----------------------------- MODULE MacAddress -----------------------------
(***************************************************************************)
(* The MAC address that is the key of a row of the device list, and how    *)
(* ipcam_list.c compares two of them when it deletes a row: with strncmp,  *)
(* as if they were strings.                                                *)
(***************************************************************************)
EXTENDS Integers

CONSTANTS
    MacLen,    \* sizeof(node_info.mac), 6 in the code
    Mac        \* the MAC addresses in use, byte tuples

(* A MAC is an array of MacLen bytes. *)
ASSUME MacAssumption ==
    /\ MacLen \in Nat \ {0}
    /\ Mac \subseteq [1..MacLen -> 0..255]

(* strncmp finds no difference: it stops after a zero byte that both have. *)
StrncmpEq(a, b) ==
    \A i \in 1..MacLen : (\A j \in 1..(i - 1) : a[j] # 0) => a[i] = b[i]

=============================================================================
