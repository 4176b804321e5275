---------------------------- MODULE DeviceQueue ----------------------------
(***************************************************************************)
(* What the PC tool promises about its queue of online cameras             *)
(* (ipcam_search_protocol.txt, l.11-30), without lists, flags or timers:   *)
(* a camera that announces itself is in the queue and alive, one that logs *)
(* out is removed, and one that stays silent is marked dead, not before    *)
(* MinSilence and at the latest when it has been silent for MaxSilence.    *)
(***************************************************************************)
EXTENDS Integers

CONSTANTS Mac, MinSilence, MaxSilence

VARIABLES
    now,     \* the time
    row,     \* what the queue says of each camera
    heard    \* when each camera was last heard

queueVars == <<now, row, heard>>

QueueInit ==
    /\ now = 0
    /\ row = [m \in Mac |-> "absent"]
    /\ heard = [m \in Mac |-> 0]

(* A login message, a heartbeat or an answer to a query. *)
Announce(m) ==
    /\ row' = [row EXCEPT ![m] = "alive"]
    /\ heard' = [heard EXCEPT ![m] = now]
    /\ UNCHANGED now

(* A logout message. *)
Leave(m) ==
    /\ row' = [row EXCEPT ![m] = "absent"]
    /\ UNCHANGED <<now, heard>>

(* The user renews the queue. *)
Forget ==
    /\ row' = [m \in Mac |-> "absent"]
    /\ UNCHANGED <<now, heard>>

(* Cameras that have been silent for MinSilence are marked dead. *)
Expire ==
    /\ row' \in [Mac -> {"absent", "alive", "dead"}]
    /\ \A m \in Mac :
          row'[m] # row[m] =>
             row[m] = "alive" /\ row'[m] = "dead" /\ now - heard[m] >= MinSilence
    /\ UNCHANGED <<now, heard>>

(* Time passes, but never so far that a camera silent for longer than
   MaxSilence is still alive in the queue. *)
Tick ==
    /\ \A m \in Mac : row[m] = "alive" => now + 1 - heard[m] <= MaxSilence
    /\ now' = now + 1
    /\ UNCHANGED <<row, heard>>

QueueNext ==
    \/ \E m \in Mac : Announce(m) \/ Leave(m)
    \/ Forget
    \/ Expire
    \/ Tick

QueueSpec == QueueInit /\ [][QueueNext]_queueVars

=============================================================================
