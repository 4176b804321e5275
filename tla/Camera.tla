------------------------------- MODULE Camera -------------------------------
(***************************************************************************)
(* What a camera promises to the network (ipcam_search_protocol.txt,       *)
(* l.14-30): it says LOGIN before anything that puts it on a list, keeps   *)
(* the MAC it then has, numbers its heartbeats, is never silent for longer *)
(* than Silence while online, and says LOGOUT last.  A trailing camera may *)
(* still say something after its LOGOUT, until it is gone.  The process    *)
(* that has forked the camera's may say LOGOUT too, before it exits.       *)
(***************************************************************************)
EXTENDS Integers

CONSTANTS
    Silence,     \* how long an online camera is silent at most
    NumLimit     \* heartbeat numbers are below this

VARIABLES
    now,         \* the time
    phase,       \* "starting", "online", "leaving" or "gone"
    last,        \* the last message
    spoke,       \* when it was sent
    beats,       \* number of the next heartbeat
    named,       \* whether its messages carry its own MAC
    trailing,    \* whether messages may follow a LOGOUT
    parent       \* whether the process that has forked the camera's is there

cameraVars == <<now, phase, last, spoke, beats, named, trailing, parent>>

(* Sending: a message of a type, with the camera's own MAC or none, and with
   a number when it is a heartbeat. *)
Sends(type, num) ==
    /\ last' = [type |-> type, own |-> named, num |-> num]
    /\ spoke' = now
    /\ UNCHANGED <<now, named, trailing, parent>>

CameraInit ==
    /\ now = 0 /\ spoke = 0 /\ beats = 0
    /\ phase = "starting"
    /\ last.type = "none" /\ named = FALSE
    /\ trailing \in BOOLEAN /\ parent = FALSE

(* It learns its MAC before it is online, or not at all. *)
Name ==
    /\ phase = "starting"
    /\ named' \in BOOLEAN
    /\ UNCHANGED <<now, phase, last, spoke, beats, trailing, parent>>

(* It forks and goes on as the child.  While the parent is there, it may say
   LOGOUT for a camera that does not leave. *)
Fork ==
    /\ phase = "starting"
    /\ parent' = TRUE
    /\ UNCHANGED <<now, phase, last, spoke, beats, named, trailing>>

ParentLogout ==
    /\ parent
    /\ last' = [type |-> "LOGOUT", own |-> named, num |-> 0]
    /\ UNCHANGED <<now, phase, spoke, beats, named, trailing, parent>>

ParentExit ==
    /\ parent /\ parent' = FALSE
    /\ UNCHANGED <<now, phase, last, spoke, beats, named, trailing>>

Login ==
    /\ phase = "starting" /\ phase' = "online"
    /\ Sends("LOGIN", 0)
    /\ UNCHANGED beats

Talks == phase = "online" \/ (phase = "leaving" /\ trailing)

Beat ==
    /\ Talks
    /\ Sends("HEARTBEAT", beats)
    /\ beats' = (beats + 1) % NumLimit
    /\ UNCHANGED phase

Answer ==
    /\ Talks
    /\ Sends("ACK_ALIVE", 0)
    /\ UNCHANGED <<phase, beats>>

Leave ==
    /\ phase # "gone" /\ phase' = "leaving"
    /\ Sends("LOGOUT", 0)
    /\ UNCHANGED beats

Vanish ==
    /\ phase # "gone" /\ phase' = "gone"
    /\ UNCHANGED <<now, last, spoke, beats, named, trailing, parent>>

Start ==
    /\ phase = "gone" /\ phase' = "starting"
    /\ ~parent
    /\ beats' = 0 /\ named' = FALSE
    /\ UNCHANGED <<now, last, spoke, trailing, parent>>

Tick ==
    /\ phase = "online" => now + 1 <= spoke + Silence
    /\ now' = now + 1
    /\ UNCHANGED <<phase, last, spoke, beats, named, trailing, parent>>

CameraNext ==
    \/ Name \/ Login \/ Beat \/ Answer \/ Leave
    \/ Fork \/ ParentLogout \/ ParentExit
    \/ Vanish \/ Start
    \/ Tick

CameraSpec == CameraInit /\ [][CameraNext]_cameraVars

=============================================================================
