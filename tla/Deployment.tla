----------------------------- MODULE Deployment -----------------------------
(***************************************************************************)
(* The programs themselves, end to end: the PC tool as it is in PcTool and *)
(* a camera that runs Device, joined by a network, on one clock.  What     *)
(* System says of the promises of both sides is shown here of the list     *)
(* that the user sees.                                                     *)
(*                                                                         *)
(* The camera is one of many.  The others send what they like and when     *)
(* they like, as long as the tool was meant for it (SpecMeant): no LOGIN   *)
(* overruns the stack, and every LOGOUT, those of the camera too, concerns *)
(* the sender's own first row.  What the code does with other messages is  *)
(* no promise, and nothing here says that it does not meet them.           *)
(***************************************************************************)
EXTENDS PcTool

CONSTANTS
    Build, Signal, HeartbeatCycle, NumLimit,    \* of the camera, see Device
    CameraLate,    \* its MaxLate
    OwnMac,        \* its MAC
    MaxDelay,      \* how long a datagram travels at most
    MaxLoss        \* how many of its messages in a row the network loses at most

(* How long the camera is silent while it is online, also when the network
   loses what it may lose, and how long the tool shows a silent camera. *)
Silence == HeartbeatCycle + 2 * CameraLate
Gap == (MaxLoss + 1) * Silence
LongestSilence == 2 * (CheckCycle + MaxLate)

(* A check takes longer than the camera's messages can fail to come through. *)
ASSUME DeploymentAssumption ==
    /\ Build \subseteq {"v1", "v2"}
    /\ HeartbeatCycle \in Nat \ {0} /\ CameraLate \in Nat
    /\ NumLimit \in Nat \ {0}
    /\ OwnMac \in Mac
    /\ MaxDelay \in Nat /\ MaxLoss \in Nat
    /\ Gap + MaxDelay < CheckCycle

VARIABLES
    build, alive, main, receiver, handler, taken, open, knowsMac, heartbeatNum,
    beatAt, last, spoke, left, parent,    \* the camera's program, see Device
    net,       \* its datagrams under way
    missed,    \* how many of its last messages in this life were lost
    calm,      \* history: since when the camera has been in its phase and,
               \* while it is online, its row was not removed
    fresh      \* history: nothing has happened since its last message

cameraState == <<build, alive, main, receiver, handler, taken, open, knowsMac,
                 heartbeatNum, beatAt, last, spoke, left, parent>>
toolState == <<next, mac, mode, flag, info, timers, nextId, heard>>
deploymentVars == <<now, cameraState, toolState, net, missed, calm, fresh>>

Dev == INSTANCE Device WITH MaxLate <- CameraLate

Datagram == [type : {"LOGIN", "HEARTBEAT", "ACK_ALIVE", "LOGOUT"}, sent : Nat]

DeploymentTypeOK ==
    /\ TypeOK
    /\ Dev!TypeOK
    /\ net \subseteq Datagram /\ \A d \in net : d.sent <= now
    /\ missed \in 0..MaxLoss
    /\ calm \in 0..now
    /\ fresh \in BOOLEAN

DeploymentInit ==
    /\ Init
    /\ Dev!Init
    /\ net = {} /\ missed = 0 /\ calm = 0 /\ fresh = FALSE

-----------------------------------------------------------------------------
(* The camera sends, and its message is put on its way or lost; not more
   than MaxLoss are lost in a row while it is online.  A message without its
   MAC is one of the other cameras' to the tool. *)
PutOnItsWay == net' = net \cup {[type |-> last'.type, sent |-> now]}

(* Faulty variant of Transmit: the network loses any number in a row. *)
TransmitOrNot ==
    \/ ~last'.own /\ UNCHANGED <<net, missed>>
    \/ last'.own /\ PutOnItsWay /\ missed' = 0
    \/ last'.own /\ missed' = missed + 1 /\ UNCHANGED net

Transmit ==
    \/ ~last'.own /\ UNCHANGED <<net, missed>>
    \/ last'.own /\ PutOnItsWay /\ missed' = 0
    \/ /\ last'.own /\ UNCHANGED net
       /\ Dev!phase' = "online" => missed < MaxLoss
       /\ missed' = IF Dev!phase' = "online" THEN missed + 1 ELSE missed

CameraSends ==
    /\ \/ Dev!BroadcastLogin
       \/ Dev!SendHeartbeat \/ Dev!HeartbeatEvent
       \/ Dev!ReplayAlive
       \/ \E t \in Dev!Thread : Dev!SendLogout(t)
    /\ Transmit
    /\ calm' = IF Dev!phase' = Dev!phase THEN calm ELSE now
    /\ fresh' = TRUE
    /\ UNCHANGED toolState

(* The LOGOUT of the camera's first process; whether it is lost does not count. *)
ParentSends ==
    /\ Dev!ParentLogout
    /\ UNCHANGED net \/ (last'.own /\ PutOnItsWay)
    /\ fresh' = TRUE
    /\ UNCHANGED <<toolState, missed, calm>>

(* The camera's steps without a message. *)
CameraWorks ==
    /\ \/ Dev!GetMac \/ Dev!Fork \/ Dev!InitSocket
       \/ Dev!CreateReceiver \/ Dev!EnterLoop
       \/ Dev!RecvQuery
       \/ \E t \in Dev!Process, s \in Signal : Dev!TakeSignal(t, s)
       \/ \E t \in Dev!Thread : Dev!CloseSockets(t)
       \/ Dev!ParentExit
    /\ UNCHANGED <<toolState, net, missed, calm, fresh>>

CameraEnds ==
    /\ Dev!Crash \/ \E t \in Dev!Thread : Dev!Exit(t)
    /\ calm' = now
    /\ UNCHANGED <<toolState, net, missed, fresh>>

CameraStarts ==
    /\ Dev!Restart
    /\ calm' = now /\ missed' = 0
    /\ UNCHANGED <<toolState, net, fresh>>

-----------------------------------------------------------------------------
(* The tool handles a datagram of the camera: deal_msg_func.  The camera's
   LOGIN is shorter than a node: its buffer is no block of the list. *)
Handle(d) ==
    \/ /\ d.type = "LOGIN"
       /\ \E i \in Info : Login(OwnMac, i, NoCell)
    \/ /\ d.type = "HEARTBEAT"
       /\ \E i \in Info, buf \in Buffers : Heartbeat(OwnMac, i, buf)
    \/ /\ d.type = "ACK_ALIVE"
       /\ \E i \in Info, buf \in Buffers : AckAlive(OwnMac, i, buf)
    \/ /\ d.type = "LOGOUT"
       /\ \E buf \in Buffers : LogoutOfNewest(OwnMac, buf)

(* The row is taken from a camera that may be online: calm starts over. *)
Removed == calm' = IF Dev!phase = "online" THEN now ELSE calm

(* A datagram arrives, any one of those under way; a copy may follow. *)
Deliver(d) ==
    /\ Handle(d)
    /\ net' \in {net, net \ {d}}
    /\ IF d.type = "LOGOUT" THEN Removed ELSE UNCHANGED calm
    /\ fresh' = FALSE
    /\ UNCHANGED <<cameraState, missed>>

(* Any message that the tool was meant for, of any other camera. *)
OthersSend ==
    /\ \E m \in Mac \ {OwnMac} :
          \/ \E i \in Info, buf \in Buffers :
                Login(m, i, buf) \/ Heartbeat(m, i, buf) \/ AckAlive(m, i, buf)
          \/ \E buf \in Buffers : LogoutOfNewest(m, buf)
    /\ UNCHANGED <<cameraState, net, missed, calm, fresh>>

(* The watch, which may mark the camera dead. *)
Watch ==
    /\ \E t \in timers : WatchTest(t)
    /\ fresh' = (fresh /\ row'[OwnMac] = row[OwnMac])
    /\ UNCHANGED <<cameraState, net, missed, calm>>

(* Steps of the tool that leave the rows as they are. *)
ToolWorks ==
    /\ \/ \E t \in timers : WatchClear(t) \/ ListLater(t)
       \/ CmdSearch \/ CmdList \/ CmdQuit
    /\ UNCHANGED <<cameraState, net, missed, calm, fresh>>

RenewList ==
    /\ CmdRenew
    /\ Removed
    /\ fresh' = FALSE
    /\ UNCHANGED <<cameraState, net, missed>>

(* A tool that was quit is started again, at once: main, as in Init. *)
StartTool ==
    /\ mode = "exited" /\ mode' = "running"
    /\ next' = [p \in Cell \cup {Link} |-> Null]
    /\ mac' = [c \in Cell |-> NoMac]
    /\ flag' = [c \in Cell |-> 0]
    /\ info' \in {[c \in Cell |-> i] : i \in Info}
    /\ timers' = {[id |-> 0, proc |-> "clear", when |-> now + CheckCycle]}
    /\ nextId' = 1
    /\ Removed
    /\ fresh' = FALSE
    /\ UNCHANGED <<now, heard, cameraState, net, missed>>

(* Time passes for all; no datagram is under way for longer than MaxDelay. *)
TimePasses ==
    /\ Dev!Tick
    /\ Tick
    /\ \A d \in net : now + 1 - d.sent <= MaxDelay
    /\ fresh' = FALSE
    /\ UNCHANGED <<net, missed, calm>>

DeploymentNext ==
    \/ CameraSends \/ ParentSends
    \/ CameraWorks \/ CameraEnds \/ CameraStarts
    \/ \E d \in net : Deliver(d)
    \/ OthersSend
    \/ Watch \/ ToolWorks \/ RenewList \/ StartTool
    \/ TimePasses

DeploymentSpec == DeploymentInit /\ [][DeploymentNext]_deploymentVars

-----------------------------------------------------------------------------
(* Properties *)

Shown == \E c \in Listed : mac[c] = OwnMac /\ Online(flag[c])

(* A camera whose program has been online for longer than its messages can
   fail to come through is shown online in the list, unless its row was
   removed as recently: neither signals nor threads, lost messages, other
   cameras' rows, late timer procedures nor a LOGOUT of its former life keep
   it out. *)
OnlineIsShown ==
    Dev!phase = "online" /\ knowsMac /\ now - calm > Gap + MaxDelay => Shown

(* A camera whose program has ended, however it ended, is not shown online
   when the longest delay and the longest silence have passed. *)
EndedIsNotShown ==
    ~alive /\ now - calm > MaxDelay + LongestSilence => ~Shown

(* A camera that is shown online has spoken itself within these times. *)
ShownHasSpoken == Shown => now - spoke <= MaxDelay + LongestSilence

(* How System sees them: times are counted back, one row and one camera are
   looked at, and a message counts until something else happens. *)
Horizon == MaxDelay + LongestSilence + 1
Ago(t) == IF now - t > Horizon THEN -Horizon ELSE t - now

seenRow == [m \in {"own"} |-> row[OwnMac]]
seenHeard == [m \in {"own"} |-> Ago(heard[OwnMac])]
seenLast == IF fresh THEN last ELSE [type |-> "none", own |-> FALSE, num |-> 0]
seenNet == {[leaves |-> d.type = "LOGOUT", sent |-> d.sent - now] : d \in net}

Sys == INSTANCE System
          WITH MinSilence <- CheckCycle, MaxSilence <- LongestSilence,
               phase <- Dev!phase, spoke <- Ago(spoke), beats <- heartbeatNum,
               named <- knowsMac, trailing <- (build = "v1"), last <- seenLast,
               row <- seenRow, heard <- seenHeard, net <- seenNet, calm <- Ago(calm)

(* The two programs and the network do what System does with the promises of
   a camera and of the tool: one camera and times counted back from the
   present are enough to know how the programs behave together. *)
ImplementsSystem == Sys!Spec

=============================================================================
