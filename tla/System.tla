------------------------------- MODULE System -------------------------------
(***************************************************************************)
(* A camera, the network and the PC tool together.  The camera is what     *)
(* Camera promises and the tool what DeviceQueue promises, both of which   *)
(* the programs implement; here their steps are joined by a network that   *)
(* carries datagrams with a delay, in any order, twice, or not at all.     *)
(* Cameras have a row each and do not disturb one another, so one is       *)
(* enough.                                                                 *)
(*                                                                         *)
(* Times are counted back from the present, which is always 0: a tick      *)
(* moves every time one step into the past, and what lies further back     *)
(* than Horizon stays there.  So the state space is finite, and the        *)
(* liveness properties can be checked without a bound on the clock.        *)
(***************************************************************************)
EXTENDS Integers

CONSTANTS
    Silence,       \* how long an online camera is silent at most
    NumLimit,      \* heartbeat numbers are below this
    MinSilence,    \* the tool marks no camera dead before this silence
    MaxSilence,    \* and every camera at this silence
    MaxDelay,      \* how long a datagram travels at most
    MaxLoss        \* how many messages in a row the network loses at most

(* The silence between two messages that arrive, with MaxLoss lost between
   them. *)
Gap == (MaxLoss + 1) * Silence

(* A check takes longer than that: with a heartbeat every 10 s and a check
   every 30 s, one message in a row may be lost. *)
ASSUME SystemAssumption ==
    /\ Silence \in Nat \ {0} /\ NumLimit \in Nat \ {0}
    /\ MinSilence \in Nat /\ MaxSilence \in Nat
    /\ MaxDelay \in Nat /\ MaxLoss \in Nat
    /\ Gap + MaxDelay < MinSilence
    /\ MinSilence <= MaxSilence

VARIABLES
    phase, spoke, beats, named, trailing, parent,    \* the camera, see Camera
    last,          \* its last message, until something else happens
    row, heard,    \* the tool, see DeviceQueue
    net,           \* datagrams under way
    missed,        \* how many of the last messages of this life were lost
    calm           \* history: since when the camera has been in this phase
                   \* and, while it is online, its row was not removed

cameraVars == <<phase, spoke, beats, named, trailing, parent>>
toolVars == <<row, heard>>
systemVars == <<cameraVars, last, toolVars, net, missed, calm>>

(* The camera's row; messages without the camera's own MAC have another. *)
Own == "own"

Cam == INSTANCE Camera WITH now <- 0
Queue == INSTANCE DeviceQueue WITH Mac <- {Own}, now <- 0

Horizon == MaxDelay + MaxSilence + 1
Time == (-Horizon)..0

Type == {"LOGIN", "HEARTBEAT", "ACK_ALIVE", "LOGOUT"}

(* Of a datagram counts whether it is a LOGOUT, and when it was sent. *)
Datagram == [leaves : BOOLEAN, sent : (-MaxDelay)..0]

TypeOK ==
    /\ phase \in {"starting", "online", "leaving", "gone"}
    /\ last \in [type : Type \cup {"none"}, own : BOOLEAN, num : 0..(NumLimit - 1)]
    /\ beats \in 0..(NumLimit - 1)
    /\ named \in BOOLEAN /\ trailing \in BOOLEAN /\ parent \in BOOLEAN
    /\ spoke \in Time /\ calm \in Time
    /\ row \in [{Own} -> {"absent", "alive", "dead"}]
    /\ heard \in [{Own} -> Time]
    /\ net \subseteq Datagram
    /\ missed \in 0..MaxLoss

-----------------------------------------------------------------------------
(* Between the camera's messages. *)
NoMessage == [type |-> "none", own |-> FALSE, num |-> 0]

Init ==
    /\ last = NoMessage
    /\ Cam!CameraInit
    /\ Queue!QueueInit
    /\ net = {} /\ missed = 0 /\ calm = 0

(* Faulty variant of Transmit: the network loses any number in a row. *)
TransmitOrNot ==
    /\ \/ ~last'.own /\ UNCHANGED <<net, missed>>
       \/ /\ last'.own
          /\ net' = net \cup {[leaves |-> last'.type = "LOGOUT", sent |-> 0]}
          /\ missed' = 0
       \/ last'.own /\ missed' = missed + 1 /\ UNCHANGED net
    /\ calm' = IF phase' = phase THEN calm ELSE 0
    /\ UNCHANGED toolVars

(* What happens to the message the camera sends: it is put on its way or
   lost; not more than MaxLoss are lost in a row while the camera is online. *)
Transmit ==
    /\ \/ ~last'.own /\ UNCHANGED <<net, missed>>
       \/ /\ last'.own
          /\ net' = net \cup {[leaves |-> last'.type = "LOGOUT", sent |-> 0]}
          /\ missed' = 0
       \/ /\ last'.own
          /\ phase' = "online" => missed < MaxLoss
          /\ missed' = IF phase' = "online" THEN missed + 1 ELSE missed
          /\ UNCHANGED net
    /\ calm' = IF phase' = phase THEN calm ELSE 0
    /\ UNCHANGED toolVars

Login == Cam!Login /\ Transmit
Beat == Cam!Beat /\ Transmit
Answer == Cam!Answer /\ Transmit
Leave == Cam!Leave /\ Transmit

(* The camera's first process says LOGOUT while the camera goes on: it is no
   sign of life, and whether it is lost does not count. *)
ParentLogout ==
    /\ Cam!ParentLogout
    /\ \/ UNCHANGED net
       \/ last'.own /\ net' = net \cup {[leaves |-> TRUE, sent |-> 0]}
    /\ UNCHANGED <<toolVars, missed, calm>>

(* The camera learns its MAC, forks, loses its power, is switched on again. *)
Name == Cam!Name /\ UNCHANGED <<toolVars, net, missed, calm>>
Fork == Cam!Fork /\ UNCHANGED <<toolVars, net, missed, calm>>
ParentExit == Cam!ParentExit /\ UNCHANGED <<toolVars, net, missed, calm>>
Vanish == Cam!Vanish /\ calm' = 0 /\ UNCHANGED <<toolVars, net, missed>>
Start == Cam!Start /\ calm' = 0 /\ missed' = 0 /\ UNCHANGED <<toolVars, net>>

(* The row is taken from a camera that may be online: calm starts over. *)
Removed == calm' = IF phase = "online" THEN 0 ELSE calm

(* Faulty variant of Receive: a message does not revive a dead row. *)
ReceiveUnlessDead(d) ==
    \/ d.leaves /\ Queue!Leave(Own) /\ Removed
    \/ ~d.leaves /\ row[Own] # "dead" /\ Queue!Announce(Own) /\ UNCHANGED calm
    \/ ~d.leaves /\ row[Own] = "dead" /\ UNCHANGED <<toolVars, calm>>

(* Faulty variant of Receive: a LOGOUT is a sign of life, too. *)
ReceiveAsLife(d) == Queue!Announce(Own) /\ UNCHANGED calm

(* The tool handles a datagram. *)
Receive(d) ==
    \/ d.leaves /\ Queue!Leave(Own) /\ Removed
    \/ ~d.leaves /\ Queue!Announce(Own) /\ UNCHANGED calm

(* A datagram arrives, any one of those under way; a copy may follow. *)
Deliver(d) ==
    /\ d \in net
    /\ Receive(d)
    /\ net' = net \ {d}
    /\ last' = NoMessage
    /\ UNCHANGED <<cameraVars, missed>>

DeliverCopy(d) ==
    /\ d \in net
    /\ Receive(d)
    /\ last' = NoMessage
    /\ UNCHANGED <<cameraVars, net, missed>>

(* The user renews the queue, or quits the tool and starts it again. *)
Renew ==
    /\ Queue!Forget
    /\ Removed
    /\ last' = NoMessage
    /\ UNCHANGED <<cameraVars, net, missed>>

(* Faulty variant of MarkDead: a row is only marked
   while its camera is online. *)
MarkDeadOnline ==
    /\ Queue!Expire
    /\ row' # row /\ phase = "online"
    /\ last' = NoMessage
    /\ UNCHANGED <<cameraVars, net, missed, calm>>

(* The watch marks the camera dead. *)
MarkDead ==
    /\ Queue!Expire
    /\ row' # row
    /\ last' = NoMessage
    /\ UNCHANGED <<cameraVars, net, missed, calm>>

(* One step further back, as far as the horizon. *)
Earlier(t) == IF t = -Horizon THEN t ELSE t - 1

(* Faulty variant of Tick: the watch does not come round. *)
TickWithoutWatch ==
    /\ phase = "online" => 1 - spoke <= Silence
    /\ \A d \in net : 1 - d.sent <= MaxDelay
    /\ spoke' = Earlier(spoke) /\ calm' = Earlier(calm)
    /\ heard' = [m \in {Own} |-> Earlier(heard[m])]
    /\ net' = {[d EXCEPT !.sent = @ - 1] : d \in net}
    /\ last' = NoMessage
    /\ UNCHANGED <<phase, beats, named, trailing, parent, row, missed>>

(* Time passes, within what the camera, the network and the tool promise. *)
Tick ==
    /\ phase = "online" => 1 - spoke <= Silence
    /\ \A d \in net : 1 - d.sent <= MaxDelay
    /\ row[Own] = "alive" => 1 - heard[Own] <= MaxSilence
    /\ spoke' = Earlier(spoke) /\ calm' = Earlier(calm)
    /\ heard' = [m \in {Own} |-> Earlier(heard[m])]
    /\ net' = {[d EXCEPT !.sent = @ - 1] : d \in net}
    /\ last' = NoMessage
    /\ UNCHANGED <<phase, beats, named, trailing, parent, row, missed>>

Next ==
    \/ Login \/ Beat \/ Answer \/ Leave
    \/ Name \/ Fork \/ ParentLogout \/ ParentExit
    \/ Vanish \/ Start
    \/ \E d \in net : Deliver(d) \/ DeliverCopy(d)
    \/ Renew \/ MarkDead
    \/ Tick

(* What goes on by itself: an online camera sends its heartbeats, its first
   process exits, what is under way arrives, the watch marks what it has to, and time passes.  The
   user, the power switch and further copies are not relied on. *)
Fairness ==
    /\ WF_systemVars(Beat)
    /\ WF_systemVars(ParentExit)
    /\ \A d \in Datagram : WF_systemVars(Deliver(d))
    /\ WF_systemVars(MarkDead)
    /\ WF_systemVars(Tick)

Spec == Init /\ [][Next]_systemVars
FairSpec == Spec /\ Fairness

-----------------------------------------------------------------------------
(* Properties *)

(* A camera that has been online for longer than its messages can fail to
   come through is alive in the queue, unless its row was removed as
   recently: neither a lost message nor a late LOGOUT of its former life
   keeps it out, and the watch does not declare it dead. *)
OnlineIsAlive ==
    phase = "online" /\ named /\ -calm > Gap + MaxDelay
        => row[Own] = "alive"

(* A camera that is gone is not alive in the queue when the longest delay
   and the longest silence have passed, also when its LOGOUT was lost, or
   arrived before an older heartbeat, or when it sent none. *)
GoneIsNoticed ==
    phase = "gone" /\ -calm > MaxDelay + MaxSilence => row[Own] # "alive"

(* A camera that is alive in the queue has spoken itself within the longest
   delay and the longest silence: neither a row that nobody marks nor the
   LOGOUT of its first process nor a late datagram keeps it alive longer. *)
AliveHasSpoken == row[Own] = "alive" => -spoke <= MaxDelay + MaxSilence

(* A camera that stays online is alive for good, once the user no longer
   renews the queue, although any of its messages may be lost. *)
EventuallyAlive ==
    <>[](phase = "online" /\ named) /\ <>[][~Renew]_systemVars => <>[](row[Own] = "alive")

(* A camera that is switched off for good is eventually not alive. *)
EventuallyNotAlive == <>[](phase = "gone") => <>[](row[Own] # "alive")

=============================================================================
