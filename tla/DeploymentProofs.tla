-------------------------- MODULE DeploymentProofs --------------------------
(***************************************************************************)
(* The camera's program, the network and the tool's program together are a *)
(* System, and the list that the user sees keeps what System promises.     *)
(*                                                                         *)
(* Each step of the two programs has been related to the promise of its    *)
(* side in DeviceProofs and PcToolProofs; here the steps are joined.       *)
(***************************************************************************)
EXTENDS Deployment, PcToolProofs

DevP == INSTANCE DeviceProofs WITH MaxLate <- CameraLate

SysP == INSTANCE SystemProofs
          WITH MinSilence <- CheckCycle, MaxSilence <- LongestSilence,
               phase <- Dev!phase, spoke <- Ago(spoke), beats <- heartbeatNum,
               named <- knowsMac, trailing <- (build = "v1"), last <- seenLast,
               row <- seenRow, heard <- seenHeard, net <- seenNet, calm <- Ago(calm)

(* The tool's part: its types, and what the theorems about it rest on. *)
ToolInv ==
    /\ TypeOK /\ NoDuplicateRows
    /\ OneWatchTimer /\ TimingInv
    /\ SoundInv

(* The network's part, and the times at which things began. *)
NetInv ==
    /\ net \subseteq Datagram /\ \A d \in net : d.sent <= now
    /\ missed \in 0..MaxLoss
    /\ calm \in 0..now
    /\ fresh \in BOOLEAN

DeploymentInv == DevP!DeviceInv /\ ToolInv /\ NetInv

-----------------------------------------------------------------------------
(* The constants *)

(* The lengths of time are numbers, and a check is longer than a gap between
   messages that arrive. *)
LEMMA Lengths ==
    /\ CheckCycle \in Nat /\ MaxLate \in Nat /\ MaxDelay \in Nat /\ MaxLoss \in Nat
    /\ Silence \in Nat \ {0} /\ LongestSilence \in Nat /\ Horizon \in Nat
    /\ Gap \in Nat /\ Silence <= Gap
    /\ Gap + MaxDelay < CheckCycle /\ CheckCycle <= LongestSilence
    /\ Horizon = MaxDelay + LongestSilence + 1
  <1> USE DeploymentAssumption, PeriodAssumption
  <1>1. Silence \in Nat \ {0} /\ MaxLoss \in Nat
    BY DEF Silence
  <1>2. Gap = MaxLoss * Silence + Silence /\ MaxLoss * Silence \in Nat
    BY <1>1 DEF Gap
  <1> QED
    BY <1>1, <1>2 DEF LongestSilence, Horizon

(* The camera, and the system as it is seen, have the constants they need. *)
LEMMA CameraAssumption == DevP!DeviceAssumption
  BY DeploymentAssumption DEF DevP!DeviceAssumption

LEMMA SystemsAssumption == SysP!SystemAssumption
  BY DeploymentAssumption, Lengths DEF SysP!SystemAssumption, SysP!Gap, Gap

-----------------------------------------------------------------------------
(* The camera's program is the one of DeviceProofs. *)
LEMMA SameProgram ==
    /\ Dev!phase = DevP!phase /\ Dev!phase' = DevP!phase'
    /\ Dev!Thread = DevP!Thread /\ Dev!Process = DevP!Process
    /\ Dev!GetMac = DevP!GetMac /\ Dev!Fork = DevP!Fork
    /\ Dev!InitSocket = DevP!InitSocket
    /\ Dev!BroadcastLogin = DevP!BroadcastLogin
    /\ Dev!CreateReceiver = DevP!CreateReceiver /\ Dev!EnterLoop = DevP!EnterLoop
    /\ Dev!SendHeartbeat = DevP!SendHeartbeat
    /\ Dev!HeartbeatEvent = DevP!HeartbeatEvent
    /\ Dev!RecvQuery = DevP!RecvQuery /\ Dev!ReplayAlive = DevP!ReplayAlive
    /\ \A t, s : Dev!TakeSignal(t, s) = DevP!TakeSignal(t, s)
    /\ \A t : /\ Dev!SendLogout(t) = DevP!SendLogout(t)
              /\ Dev!CloseSockets(t) = DevP!CloseSockets(t)
              /\ Dev!Exit(t) = DevP!Exit(t)
    /\ Dev!ParentLogout = DevP!ParentLogout /\ Dev!ParentExit = DevP!ParentExit
    /\ Dev!Crash = DevP!Crash /\ Dev!Restart = DevP!Restart
    /\ Dev!Tick = DevP!Tick
  BY DEF
     Dev!phase, Dev!Thread, Dev!Process, Dev!Threads, Dev!Receiving, Dev!Lives, Dev!Runs,
     Dev!NextNum, Dev!Send, Dev!Beat, Dev!GetMac, Dev!Fork, Dev!InitSocket,
     Dev!BroadcastLogin, Dev!CreateReceiver, Dev!EnterLoop, Dev!SendHeartbeat,
     Dev!HeartbeatEvent, Dev!RecvQuery, Dev!ReplayAlive, Dev!TakeSignal,
     Dev!SendLogout, Dev!CloseSockets, Dev!Exit, Dev!ParentLogout, Dev!ParentExit,
     Dev!Crash, Dev!Restart, Dev!Tick,
     DevP!phase, DevP!Thread, DevP!Process, DevP!Threads, DevP!Receiving, DevP!Lives,
     DevP!Runs, DevP!NextNum, DevP!Send, DevP!Beat, DevP!GetMac, DevP!Fork,
     DevP!InitSocket, DevP!BroadcastLogin, DevP!CreateReceiver, DevP!EnterLoop,
     DevP!SendHeartbeat, DevP!HeartbeatEvent, DevP!RecvQuery, DevP!ReplayAlive,
     DevP!TakeSignal, DevP!SendLogout, DevP!CloseSockets, DevP!Exit,
     DevP!ParentLogout, DevP!ParentExit, DevP!Crash, DevP!Restart, DevP!Tick

-----------------------------------------------------------------------------
(* Whose steps they are: the camera's leave the tool alone and the tool's
   the camera; both are steps of their programs. *)

CameraStep == CameraSends \/ ParentSends \/ CameraWorks \/ CameraEnds \/ CameraStarts
ToolStep == (\E d \in net : Deliver(d)) \/ OthersSend \/ Watch \/ ToolWorks \/ RenewList

(* The camera's steps. *)
LEMMA CameraIsDevice ==
    ASSUME CameraStep
    PROVE  DevP!Next /\ UNCHANGED <<now, toolState>>
  <1>1. UNCHANGED toolState
    BY DEF CameraStep, CameraSends, ParentSends, CameraWorks, CameraEnds, CameraStarts
  <1>2. \/ DevP!GetMac \/ DevP!Fork \/ DevP!InitSocket \/ DevP!BroadcastLogin
        \/ DevP!CreateReceiver \/ DevP!SendHeartbeat
        \/ DevP!EnterLoop \/ DevP!HeartbeatEvent
        \/ DevP!RecvQuery \/ DevP!ReplayAlive
        \/ \E t \in DevP!Process, s \in Signal : DevP!TakeSignal(t, s)
        \/ \E t \in DevP!Thread :
              DevP!SendLogout(t) \/ DevP!CloseSockets(t) \/ DevP!Exit(t)
        \/ DevP!ParentLogout \/ DevP!ParentExit
        \/ DevP!Crash \/ DevP!Restart
    BY SameProgram
    DEF CameraStep, CameraSends, ParentSends, CameraWorks, CameraEnds, CameraStarts
  <1>3. UNCHANGED now
    BY <1>2
    DEF DevP!Beat, DevP!GetMac, DevP!Fork, DevP!InitSocket, DevP!BroadcastLogin,
        DevP!CreateReceiver, DevP!EnterLoop, DevP!SendHeartbeat, DevP!HeartbeatEvent,
        DevP!RecvQuery, DevP!ReplayAlive, DevP!TakeSignal, DevP!SendLogout,
        DevP!CloseSockets, DevP!Exit, DevP!ParentLogout, DevP!ParentExit,
        DevP!Crash, DevP!Restart
  <1> QED
    BY <1>1, <1>2, <1>3 DEF DevP!Next

(* A datagram of the camera is handled as those of any camera. *)
LEMMA HandleIsTool ==
    ASSUME NEW d, Handle(d)
    PROVE  NextMeant
  <1>1. NoCell \in Buffers /\ OwnMac \in Mac
    BY DeploymentAssumption DEF Buffers
  <1> QED
    BY <1>1 DEF Handle, NextMeant, NextButLogout

(* The tool's steps are those of SpecMeant. *)
LEMMA ToolIsTool ==
    ASSUME ToolStep
    PROVE  NextMeant /\ UNCHANGED <<now, cameraState>>
  <1>1. ASSUME NEW d, Deliver(d)
        PROVE  NextMeant
    BY <1>1, HandleIsTool DEF Deliver
  <1>2. ASSUME OthersSend
        PROVE  NextMeant
    BY <1>2 DEF OthersSend, NextMeant, NextButLogout
  <1>3. ASSUME Watch \/ ToolWorks \/ RenewList
        PROVE  NextMeant
    BY <1>3 DEF Watch, ToolWorks, RenewList, NextMeant, NextButLogout
  <1>4. NextMeant
    BY <1>1, <1>2, <1>3 DEF ToolStep
  <1>5. UNCHANGED now
    BY DEF ToolStep, Deliver, Handle, OthersSend, Watch, ToolWorks, RenewList,
           Login, Heartbeat, AckAlive, Announce, LogoutOfNewest, Logout,
           WatchTest, WatchClear, ListLater, CmdSearch, CmdList, CmdQuit, CmdRenew
  <1>6. UNCHANGED cameraState
    BY DEF ToolStep, Deliver, OthersSend, Watch, ToolWorks, RenewList
  <1> QED
    BY <1>4, <1>5, <1>6

(* There are no other steps but a restart of the tool and a tick. *)
LEMMA NextSteps ==
    ASSUME [DeploymentNext]_deploymentVars
    PROVE  CameraStep \/ ToolStep \/ StartTool \/ TimePasses \/ UNCHANGED deploymentVars
  BY DEF DeploymentNext, CameraStep, ToolStep

-----------------------------------------------------------------------------
(* The parts of the invariant *)

(* The camera's program keeps its invariant: what it does is a step of its
   own specification, and all other steps leave its variables alone. *)
LEMMA DeviceKept ==
    ASSUME DeploymentInv, [DeploymentNext]_deploymentVars
    PROVE  DevP!DeviceInv' /\ [DevP!Next]_(DevP!deviceVars)
  <1>1. [DevP!Next]_(DevP!deviceVars)
    <2>1. CASE CameraStep
      BY <2>1, CameraIsDevice
    <2>2. CASE ToolStep \/ StartTool \/ UNCHANGED deploymentVars
      <3>1. UNCHANGED <<now, cameraState>>
        BY <2>2, ToolIsTool DEF StartTool, deploymentVars
      <3> QED
        BY <3>1 DEF cameraState, DevP!deviceVars
    <2>3. CASE TimePasses
      BY <2>3, SameProgram DEF TimePasses, DevP!Next
    <2> QED
      BY <2>1, <2>2, <2>3, NextSteps
  <1> QED
    BY <1>1, CameraAssumption, DevP!InvStep DEF DeploymentInv

(* All but the restart are steps of the tool that SpecMeant allows. *)
LEMMA ToolSteps ==
    ASSUME [DeploymentNext]_deploymentVars, ~StartTool
    PROVE  [NextMeant]_toolVars
  <1>1. CASE CameraStep \/ UNCHANGED deploymentVars
    <2>1. UNCHANGED <<now, toolState>>
      BY <1>1, CameraIsDevice DEF deploymentVars
    <2> QED
      BY <2>1 DEF toolState, toolVars
  <1>2. CASE ToolStep
    BY <1>2, ToolIsTool
  <1>3. CASE TimePasses
    BY <1>3 DEF TimePasses, NextMeant, NextButLogout
  <1> QED
    BY <1>1, <1>2, <1>3, NextSteps

(* What main makes when it is called again is what it makes at first. *)
LEMMA EmptyList == ListInit' => (ListTypeOK /\ NoDuplicateRows /\ SoundInv)'
  <1>1. ListInit => ListTypeOK /\ NoDuplicateRows /\ SoundInv
    BY ListStart, SoundStart
  <1> QED
    BY <1>1, PTL

(* A tool that was started again is as at its first start, but for the clock. *)
LEMMA StartKept ==
    ASSUME ToolInv, StartTool
    PROVE  ToolInv'
  <1> DEFINE w == [id |-> 0, proc |-> "clear", when |-> now + CheckCycle]
  <1>1. /\ timers' = {w} /\ now' = now /\ heard' = heard /\ mode' = "running"
        /\ now \in Nat /\ CheckCycle \in Nat \ {0} /\ MaxLate \in Nat
    BY PeriodAssumption DEF StartTool, ToolInv, TypeOK
  <1>2. ListInit'
    BY DEF StartTool, ListInit
  <1>3. Listed' = {}
    BY <1>2 DEF ListInit, Listed, InUse
  <1>4. w \in Timer /\ w.proc \in WatchProcs /\ w.when = now + CheckCycle
    BY <1>1 DEF Timer, Procs, WatchProcs
  <1> HIDE DEF w
  <1>5. TypeOK'
    <2>1. flag' \in [Cell -> 0..3] /\ info' \in [Cell -> Info] /\ nextId' = 1
      BY DEF StartTool
    <2> QED
      BY <1>1, <1>2, <1>4, <2>1, EmptyList DEF ToolInv, TypeOK
  <1>6. OneWatchTimer'
    BY <1>1, <1>4 DEF OneWatchTimer
  <1>7. TimingInv'
    BY <1>1, <1>3, <1>4 DEF TimingInv, WatchTiming
  <1> QED
    BY <1>1, <1>2, <1>5, <1>6, <1>7, EmptyList DEF ToolInv

(* The tool keeps its invariants with the messages it was meant for. *)
LEMMA ToolKept ==
    ASSUME DeploymentInv, [DeploymentNext]_deploymentVars
    PROVE  ToolInv'
  <1>0. ToolInv
    BY DEF DeploymentInv
  <1>1. CASE StartTool
    BY <1>0, <1>1, StartKept
  <1>2. CASE ~StartTool
    <2>1. [NextMeant]_toolVars /\ [Next]_toolVars
      BY <1>2, ToolSteps, MeantIsNext
    <2>2. TypeOK' /\ NoDuplicateRows'
      BY <1>0, <2>1, TypeStep, ToolKeepsList DEF ToolInv, TypeOK
    <2>3. OneWatchTimer' /\ TimingInv'
      BY <1>0, <2>1, WatchStep, TimingStep DEF ToolInv
    <2>4. SoundInv'
      BY <1>0, <2>1, <2>2, MeantStep DEF ToolInv
    <2> QED
      BY <2>2, <2>3, <2>4 DEF ToolInv
  <1> QED
    BY <1>1, <1>2

(* What the camera says has one of the four types. *)
LEMMA Says ==
    ASSUME CameraSends \/ ParentSends
    PROVE  last'.type \in {"LOGIN", "HEARTBEAT", "ACK_ALIVE", "LOGOUT"}
  <1>1. \/ DevP!BroadcastLogin \/ DevP!SendHeartbeat \/ DevP!HeartbeatEvent
        \/ DevP!ReplayAlive \/ \E t \in DevP!Thread : DevP!SendLogout(t)
        \/ DevP!ParentLogout
    BY SameProgram DEF CameraSends, ParentSends
  <1> QED
    BY <1>1
    DEF DevP!Send, DevP!Beat, DevP!BroadcastLogin, DevP!SendHeartbeat,
        DevP!HeartbeatEvent, DevP!ReplayAlive, DevP!SendLogout, DevP!ParentLogout

(* Datagrams have a type and a past, and no more are lost than may be. *)
LEMMA NetKept ==
    ASSUME DeploymentInv, [DeploymentNext]_deploymentVars
    PROVE  NetInv'
  <1>0. /\ NetInv /\ now \in Nat /\ MaxLoss \in Nat /\ 0 \in 0..MaxLoss
        /\ 0 \in 0..now /\ now \in 0..now
    BY Lengths DEF DeploymentInv, ToolInv, TypeOK
  <1>1. CASE CameraSends \/ ParentSends
    <2>1. now' = now
      BY <1>1, CameraIsDevice DEF CameraStep
    <2>2. [type |-> last'.type, sent |-> now] \in Datagram
      BY <1>0, <1>1, Says DEF Datagram
    <2>3. net' = net \/ net' = net \cup {[type |-> last'.type, sent |-> now]}
      BY <1>1 DEF CameraSends, ParentSends, Transmit, PutOnItsWay
    <2>4. missed' \in 0..MaxLoss
      BY <1>0, <1>1 DEF CameraSends, ParentSends, Transmit, PutOnItsWay, NetInv
    <2>5. calm' \in 0..now /\ fresh' \in BOOLEAN
      BY <1>0, <1>1 DEF CameraSends, ParentSends, NetInv
    <2> QED
      BY <1>0, <2>1, <2>2, <2>3, <2>4, <2>5 DEF NetInv
  <1>2. CASE CameraWorks \/ CameraEnds \/ CameraStarts
    <2>1. now' = now
      BY <1>2, CameraIsDevice DEF CameraStep
    <2> QED
      BY <1>0, <1>2, <2>1 DEF CameraWorks, CameraEnds, CameraStarts, NetInv
  <1>3. CASE ToolStep \/ StartTool
    <2>1. now' = now
      BY <1>3, ToolIsTool DEF StartTool
    <2>2. net' \subseteq net /\ missed' = missed
      BY <1>3 DEF ToolStep, StartTool, Deliver, OthersSend, Watch, ToolWorks, RenewList
    <2>3. calm' \in {calm, now}
      BY <1>3 DEF ToolStep, StartTool, Deliver, OthersSend, Watch, ToolWorks, RenewList,
                  Removed
    <2>4. fresh' \in BOOLEAN
      BY <1>0, <1>3 DEF ToolStep, StartTool, Deliver, OthersSend, Watch, ToolWorks,
                        RenewList, NetInv
    <2> QED
      BY <1>0, <2>1, <2>2, <2>3, <2>4 DEF NetInv
  <1>4. CASE TimePasses
    <2>1. now' = now + 1 /\ UNCHANGED <<net, missed, calm>> /\ fresh' = FALSE
      BY <1>4 DEF TimePasses, Tick
    <2>2. \A d \in net : d.sent <= now + 1
      BY <1>0 DEF NetInv, Datagram
    <2>3. calm \in 0..(now + 1)
      BY <1>0 DEF NetInv
    <2> QED
      BY <1>0, <2>1, <2>2, <2>3 DEF NetInv
  <1>5. CASE UNCHANGED deploymentVars
    BY <1>0, <1>5 DEF deploymentVars, NetInv
  <1> QED
    BY <1>1, <1>2, <1>3, <1>4, <1>5, NextSteps DEF CameraStep

(* Both programs start in their invariants. *)
LEMMA DeploymentStart == ASSUME DeploymentInit PROVE DeploymentInv
  <1>1. Dev!Init = DevP!Init
    BY DEF Dev!Init, DevP!Init, Dev!Process, DevP!Process, Dev!Thread, DevP!Thread
  <1>2. DevP!DeviceInv
    BY <1>1, CameraAssumption, DevP!InitDevice DEF DeploymentInit
  <1>3. ToolInv
    <2>1. Init
      BY DEF DeploymentInit
    <2>2. TypeOK /\ NoDuplicateRows
      BY <2>1, TypeStart, ListStart DEF Init
    <2>3. OneWatchTimer
      BY <2>1 DEF Init, OneWatchTimer, WatchProcs
    <2> QED
      BY <2>1, <2>2, <2>3, TimingStart, MeantStart DEF ToolInv
  <1>4. NetInv
    <2>1. now = 0 /\ net = {} /\ missed = 0 /\ calm = 0 /\ fresh = FALSE
      BY DEF DeploymentInit, Init
    <2>2. 0 \in 0..MaxLoss /\ 0 \in 0..0
      BY Lengths
    <2> QED
      BY <2>1, <2>2 DEF NetInv
  <1> QED
    BY <1>2, <1>3, <1>4 DEF DeploymentInv

(* Both programs keep their invariants also when they run together. *)
LEMMA DeploymentKept ==
    DeploymentInv /\ [DeploymentNext]_deploymentVars => DeploymentInv'
  BY DeviceKept, ToolKept, NetKept DEF DeploymentInv

(* The invariant behind the theorems of this module. *)
LEMMA DeploymentAlways == DeploymentSpec => []DeploymentInv
  BY DeploymentStart, DeploymentKept, PTL DEF DeploymentSpec

(* The variables of the two programs and of the network keep their types, and
   the rows of the list stay unique. *)
THEOREM DeploymentTypes ==
    DeploymentSpec => []DeploymentTypeOK /\ []NoDuplicateRows
  <1>1. DevP!TypeOK => Dev!TypeOK
    BY DEF DevP!TypeOK, Dev!TypeOK, DevP!Message, Dev!Message, DevP!Process, Dev!Process,
           DevP!Thread, Dev!Thread
  <1>2. DeploymentInv => DeploymentTypeOK /\ NoDuplicateRows
    BY <1>1 DEF DeploymentInv, ToolInv, NetInv, DevP!DeviceInv, DeploymentTypeOK
  <1> QED
    BY <1>2, DeploymentAlways, PTL

-----------------------------------------------------------------------------
(* How the system sees a step *)

(* A step at one time leaves what was at another time as long ago. *)
LEMMA AgoSame ==
    ASSUME now' = now, now \in Nat
    PROVE  /\ UNCHANGED spoke => Ago(spoke)' = Ago(spoke)
           /\ UNCHANGED calm => Ago(calm)' = Ago(calm)
           /\ spoke' = now => Ago(spoke)' = 0
           /\ calm' = now => Ago(calm)' = 0
           /\ UNCHANGED heard => seenHeard' = seenHeard
           /\ UNCHANGED net => seenNet' = seenNet
  <1>1. now - now = 0 /\ ~(0 > Horizon)
    BY Lengths
  <1> QED
    BY <1>1 DEF Ago, Horizon, seenHeard, seenNet

(* The row looks the same when the list and the flags are. *)
LEMMA ToolSame ==
    ASSUME UNCHANGED toolState, now' = now, now \in Nat
    PROVE  seenRow' = seenRow /\ seenHeard' = seenHeard
  <1>1. row' = row
    BY DEF toolState, row, RowOf, Listed, InUse
  <1> QED
    BY <1>1, AgoSame DEF toolState, seenRow

(* A datagram that is put on its way is seen as one that was sent just now. *)
LEMMA NetGrows ==
    ASSUME PutOnItsWay, now' = now, now \in Nat, fresh' = TRUE
    PROVE  seenNet' = seenNet \cup {[leaves |-> seenLast'.type = "LOGOUT", sent |-> 0]}
  <1> DEFINE See(d) == [leaves |-> d.type = "LOGOUT", sent |-> d.sent - now]
             d0 == [type |-> last'.type, sent |-> now]
  <1>1. net' = net \cup {d0}
    BY DEF PutOnItsWay
  <1>2. seenNet = {See(d) : d \in net} /\ seenNet' = {See(d) : d \in net'}
    BY DEF seenNet
  <1>3. See(d0) = [leaves |-> seenLast'.type = "LOGOUT", sent |-> 0]
    BY DEF seenLast
  <1> HIDE DEF See, d0
  <1> QED
    BY <1>1, <1>2, <1>3

(* What happens to a message of the camera happens in the system. *)
LEMMA SeesTransmit ==
    ASSUME CameraSends, now' = now, now \in Nat
    PROVE  SysP!Transmit
  <1>1. seenRow' = seenRow /\ seenHeard' = seenHeard
    BY ToolSame DEF CameraSends
  <1>2. Ago(calm)' = IF Dev!phase' = Dev!phase THEN Ago(calm) ELSE 0
    BY AgoSame DEF CameraSends
  <1>3. seenLast' = last' /\ fresh' = TRUE
    BY DEF CameraSends, seenLast
  <1>4. \/ ~last'.own /\ seenNet' = seenNet /\ missed' = missed
        \/ /\ last'.own
           /\ seenNet' = seenNet \cup {[leaves |-> seenLast'.type = "LOGOUT", sent |-> 0]}
           /\ missed' = 0
        \/ /\ last'.own
           /\ Dev!phase' = "online" => missed < MaxLoss
           /\ missed' = IF Dev!phase' = "online" THEN missed + 1 ELSE missed
           /\ seenNet' = seenNet
    BY <1>3, NetGrows, AgoSame DEF CameraSends, Transmit
  <1> QED
    BY <1>1, <1>2, <1>3, <1>4 DEF SysP!Transmit, SysP!toolVars

(* The camera's messages *)
LEMMA SendsIsSystem ==
    ASSUME DeploymentInv, CameraSends
    PROVE  SysP!Login \/ SysP!Beat \/ SysP!Answer \/ SysP!Leave
  <1>0. now \in Nat /\ now' = now /\ DevP!DeviceInv
    BY CameraIsDevice DEF CameraStep, DeploymentInv, ToolInv, TypeOK
  <1>1. SysP!Transmit
    BY <1>0, SeesTransmit
  <1>2. seenLast' = last'
    BY DEF CameraSends, seenLast
  <1>3. spoke' = now => Ago(spoke)' = 0
    BY <1>0, AgoSame
  <1> USE CameraAssumption
  <1>4. CASE DevP!BroadcastLogin
    <2>1. DevP!Promise!Login
      BY <1>0, <1>4, DevP!LoginStep
    <2>2. SysP!Cam!Login
      BY <1>2, <1>3, <2>1, SameProgram
      DEF DevP!Promise!Login, DevP!Promise!Sends, SysP!Cam!Login, SysP!Cam!Sends
    <2> QED
      BY <1>1, <2>2 DEF SysP!Login
  <1>5. CASE DevP!SendHeartbeat \/ DevP!HeartbeatEvent
    <2>1. DevP!Promise!Beat
      BY <1>0, <1>5, DevP!BeatStep
    <2>2. SysP!Cam!Beat
      BY <1>2, <1>3, <2>1, SameProgram
      DEF DevP!Promise!Beat, DevP!Promise!Talks, DevP!Promise!Sends,
          SysP!Cam!Beat, SysP!Cam!Talks, SysP!Cam!Sends
    <2> QED
      BY <1>1, <2>2 DEF SysP!Beat
  <1>6. CASE DevP!ReplayAlive
    <2>1. DevP!Promise!Answer
      BY <1>0, <1>6, DevP!AnswerStep
    <2>2. SysP!Cam!Answer
      BY <1>2, <1>3, <2>1, SameProgram
      DEF DevP!Promise!Answer, DevP!Promise!Talks, DevP!Promise!Sends,
          SysP!Cam!Answer, SysP!Cam!Talks, SysP!Cam!Sends
    <2> QED
      BY <1>1, <2>2 DEF SysP!Answer
  <1>7. ASSUME NEW t \in DevP!Thread, DevP!SendLogout(t)
        PROVE  SysP!Leave
    <2>1. DevP!Promise!Leave
      BY <1>0, <1>7, DevP!LeaveStep
    <2>2. SysP!Cam!Leave
      BY <1>2, <1>3, <2>1, SameProgram
      DEF DevP!Promise!Leave, DevP!Promise!Sends, SysP!Cam!Leave, SysP!Cam!Sends
    <2> QED
      BY <1>1, <2>2 DEF SysP!Leave
  <1> QED
    BY <1>4, <1>5, <1>6, <1>7, SameProgram DEF CameraSends

(* The LOGOUT of the first process *)
LEMMA ParentIsSystem ==
    ASSUME DeploymentInv, ParentSends
    PROVE  SysP!ParentLogout
  <1>0. now \in Nat /\ now' = now /\ DevP!DeviceInv /\ DevP!ParentLogout
    BY CameraIsDevice, SameProgram
    DEF CameraStep, ParentSends, DeploymentInv, ToolInv, TypeOK
  <1>1. DevP!Promise!ParentLogout
    BY <1>0, CameraAssumption, DevP!ParentLogoutStep
  <1>2. seenLast' = last' /\ last'.type = "LOGOUT"
    BY <1>0 DEF ParentSends, seenLast, DevP!ParentLogout
  <1>3. seenRow' = seenRow /\ seenHeard' = seenHeard
    BY <1>0, ToolSame DEF ParentSends
  <1>4. Ago(calm)' = Ago(calm) /\ missed' = missed
    BY <1>0, AgoSame DEF ParentSends
  <1>5. Ago(spoke)' = Ago(spoke)
    BY <1>0, <1>1, AgoSame DEF DevP!Promise!ParentLogout
  <1>6. SysP!Cam!ParentLogout
    BY <1>1, <1>2, <1>5, SameProgram DEF DevP!Promise!ParentLogout, SysP!Cam!ParentLogout
  <1>7. \/ seenNet' = seenNet
        \/ last'.own /\ seenNet' = seenNet \cup {[leaves |-> TRUE, sent |-> 0]}
    <2>1. CASE UNCHANGED net
      BY <1>0, <2>1, AgoSame
    <2>2. CASE last'.own /\ PutOnItsWay
      <3>1. fresh' = TRUE /\ (seenLast'.type = "LOGOUT") = TRUE
        BY <1>2 DEF ParentSends
      <3> QED
        BY <1>0, <2>2, <3>1, NetGrows
    <2> QED
      BY <2>1, <2>2 DEF ParentSends
  <1> QED
    BY <1>2, <1>3, <1>4, <1>6, <1>7 DEF SysP!ParentLogout, SysP!toolVars

(* The steps of the camera without a message: naming, forking, ending and
   starting are seen. *)
LEMMA WorksIsSystem ==
    ASSUME DeploymentInv, CameraWorks \/ CameraEnds \/ CameraStarts
    PROVE  \/ SysP!Name \/ SysP!Fork \/ SysP!ParentExit \/ SysP!Vanish \/ SysP!Start
           \/ UNCHANGED SysP!systemVars
  <1>0. now \in Nat /\ now' = now /\ DevP!DeviceInv
    BY CameraIsDevice DEF CameraStep, DeploymentInv, ToolInv, TypeOK
  <1>1. UNCHANGED <<toolState, net, fresh>>
    BY DEF CameraWorks, CameraEnds, CameraStarts
  <1>2. /\ seenRow' = seenRow /\ seenHeard' = seenHeard /\ seenNet' = seenNet
        /\ UNCHANGED last => seenLast' = seenLast
        /\ UNCHANGED spoke => Ago(spoke)' = Ago(spoke)
    BY <1>0, <1>1, ToolSame, AgoSame DEF seenLast
  <1>3. /\ CameraWorks => Ago(calm)' = Ago(calm) /\ missed' = missed
        /\ CameraEnds => Ago(calm)' = 0 /\ missed' = missed
        /\ CameraStarts => Ago(calm)' = 0 /\ missed' = 0
    BY <1>0, AgoSame DEF CameraWorks, CameraEnds, CameraStarts
  <1> USE CameraAssumption
  <1>4. ASSUME CameraWorks, DevP!GetMac \/ DevP!InitSocket
        PROVE  SysP!Name
    <2>1. DevP!Promise!Name
      BY <1>0, <1>4, DevP!NameStep
    <2> QED
      BY <1>2, <1>3, <1>4, <2>1, SameProgram
      DEF DevP!Promise!Name, SysP!Name, SysP!Cam!Name, SysP!toolVars
  <1>5. ASSUME CameraWorks, DevP!Fork
        PROVE  SysP!Fork
    <2>1. DevP!Promise!Fork
      BY <1>0, <1>5, DevP!ForkStep
    <2> QED
      BY <1>2, <1>3, <1>5, <2>1, SameProgram
      DEF DevP!Promise!Fork, SysP!Fork, SysP!Cam!Fork, SysP!toolVars
  <1>6. ASSUME CameraWorks, DevP!ParentExit
        PROVE  SysP!ParentExit
    <2>1. DevP!Promise!ParentExit
      BY <1>0, <1>6, DevP!ParentExitStep
    <2> QED
      BY <1>2, <1>3, <1>6, <2>1, SameProgram
      DEF DevP!Promise!ParentExit, SysP!ParentExit, SysP!Cam!ParentExit, SysP!toolVars
  <1>7. ASSUME CameraWorks, DevP!Unseen
        PROVE  UNCHANGED SysP!systemVars
    <2>1. UNCHANGED DevP!Promise!cameraVars
      BY <1>7, DevP!UnseenStep
    <2> QED
      BY <1>2, <1>3, <1>7, <2>1, SameProgram
      DEF DevP!Promise!cameraVars, SysP!systemVars, SysP!cameraVars, SysP!toolVars
  <1>8. CASE CameraWorks
    <2>1. \/ DevP!GetMac \/ DevP!InitSocket \/ DevP!Fork \/ DevP!ParentExit
          \/ DevP!Unseen
      BY <1>8, SameProgram DEF CameraWorks, DevP!Unseen
    <2> QED
      BY <1>4, <1>5, <1>6, <1>7, <1>8, <2>1
  <1>9. CASE CameraEnds
    <2>1. DevP!Promise!Vanish
      BY <1>0, <1>9, SameProgram, DevP!VanishStep DEF CameraEnds
    <2> QED
      BY <1>2, <1>3, <1>9, <2>1, SameProgram
      DEF DevP!Promise!Vanish, SysP!Vanish, SysP!Cam!Vanish, SysP!toolVars
  <1>10. CASE CameraStarts
    <2>1. DevP!Promise!Start
      BY <1>0, <1>10, SameProgram, DevP!StartStep DEF CameraStarts
    <2> QED
      BY <1>2, <1>3, <1>10, <2>1, SameProgram
      DEF DevP!Promise!Start, SysP!Start, SysP!Cam!Start, SysP!toolVars
  <1> QED
    BY <1>8, <1>9, <1>10

-----------------------------------------------------------------------------
(* The queue of the tool and the row that the system looks at *)

(* Of the queue's steps the system sees those that concern the camera. *)
LEMMA SeesQueue ==
    ASSUME ToolInv, NEW m \in Mac
    PROVE  /\ Queue!Announce(m) /\ m = OwnMac => SysP!Queue!Announce("own")
           /\ Queue!Leave(m) /\ m = OwnMac => SysP!Queue!Leave("own")
           /\ (Queue!Announce(m) \/ Queue!Leave(m)) /\ m # OwnMac
                  => seenRow' = seenRow /\ seenHeard' = seenHeard
  <1>0. OwnMac \in Mac /\ now \in Nat /\ heard \in [Mac -> Nat] /\ row = [n \in Mac |-> RowOf(n)]
    BY DeploymentAssumption DEF ToolInv, TypeOK, row
  <1>1. ASSUME Queue!Announce(m)
        PROVE  /\ row' = [row EXCEPT ![m] = "alive"] /\ heard' = [heard EXCEPT ![m] = now]
               /\ now' = now
    BY <1>1 DEF Queue!Announce
  <1>2. ASSUME Queue!Leave(m)
        PROVE  row' = [row EXCEPT ![m] = "absent"] /\ heard' = heard /\ now' = now
    BY <1>2 DEF Queue!Leave
  <1>3. ASSUME now' = now, heard'[OwnMac] = now
        PROVE  seenHeard' = [seenHeard EXCEPT !["own"] = 0]
    <2>1. now - now = 0 /\ ~(0 > Horizon)
      BY <1>0, Lengths
    <2> QED
      BY <1>3, <2>1 DEF seenHeard, Ago
  <1>4. ASSUME now' = now, heard'[OwnMac] = heard[OwnMac]
        PROVE  seenHeard' = seenHeard
    BY <1>4 DEF seenHeard, Ago, Horizon
  <1>5. ASSUME Queue!Announce(m), m = OwnMac
        PROVE  SysP!Queue!Announce("own")
    <2>1. row'[OwnMac] = "alive" /\ heard'[OwnMac] = now
      BY <1>0, <1>1, <1>5
    <2>2. seenRow' = [seenRow EXCEPT !["own"] = "alive"]
      BY <2>1 DEF seenRow
    <2> QED
      BY <1>1, <1>3, <1>5, <2>1, <2>2 DEF SysP!Queue!Announce
  <1>6. ASSUME Queue!Leave(m), m = OwnMac
        PROVE  SysP!Queue!Leave("own")
    <2>1. row'[OwnMac] = "absent"
      BY <1>0, <1>2, <1>6
    <2>2. seenRow' = [seenRow EXCEPT !["own"] = "absent"]
      BY <2>1 DEF seenRow
    <2> QED
      BY <1>2, <1>4, <1>6, <2>2 DEF SysP!Queue!Leave
  <1>7. ASSUME Queue!Announce(m) \/ Queue!Leave(m), m # OwnMac
        PROVE  seenRow' = seenRow /\ seenHeard' = seenHeard
    <2>1. row'[OwnMac] = row[OwnMac] /\ heard'[OwnMac] = heard[OwnMac] /\ now' = now
      BY <1>0, <1>1, <1>2, <1>7
    <2> QED
      BY <1>4, <2>1 DEF seenRow
  <1> QED
    BY <1>5, <1>6, <1>7

(* What a message of a camera is to the queue. *)
LEMMA MessageQueue ==
    ASSUME ToolInv, TypeOK', NEW m \in Mac
    PROVE  /\ \A i \in Info, buf \in Buffers :
                 Login(m, i, buf) \/ Heartbeat(m, i, buf) \/ AckAlive(m, i, buf)
                     => Queue!Announce(m)
           /\ \A buf \in Buffers : LogoutOfNewest(m, buf) => Queue!Leave(m)
  <1>0. TypeOK /\ SoundInv
    BY DEF ToolInv
  <1>1. ASSUME NEW i \in Info, NEW buf \in Buffers,
               Login(m, i, buf) \/ Heartbeat(m, i, buf) \/ AckAlive(m, i, buf)
        PROVE  Queue!Announce(m)
    BY <1>0, <1>1, AnnounceQueue DEF Login, Heartbeat, AckAlive
  <1>3. ASSUME NEW buf \in Buffers, LogoutOfNewest(m, buf)
        PROVE  Queue!Leave(m)
    BY <1>0, <1>3, LogoutQueue DEF LogoutOfNewest, Logout
  <1> QED
    BY <1>1, <1>3

(* A datagram of the camera arrives, once or with a copy to follow. *)
LEMMA DeliverIsSystem ==
    ASSUME DeploymentInv, TypeOK', NEW d \in net, Deliver(d)
    PROVE  \E e \in seenNet : SysP!Deliver(e) \/ SysP!DeliverCopy(e)
  <1> DEFINE See(x) == [leaves |-> x.type = "LOGOUT", sent |-> x.sent - now]
  <1>0. /\ ToolInv /\ OwnMac \in Mac /\ now \in Nat /\ now' = now
        /\ UNCHANGED <<cameraState, missed>> /\ fresh' = FALSE
    BY DeploymentAssumption, ToolIsTool DEF ToolStep, Deliver, DeploymentInv, ToolInv, TypeOK
  <1>1. seenNet = {See(x) : x \in net} /\ seenNet' = {See(x) : x \in net'}
    BY <1>0 DEF seenNet
  <1>2. See(d) \in seenNet /\ See(d).leaves = (d.type = "LOGOUT")
    BY <1>1
  <1>3. SysP!Receive(See(d))
    <2>1. CASE d.type = "LOGOUT"
      <3>1. SysP!Queue!Leave("own")
        BY <1>0, <2>1, MessageQueue, SeesQueue DEF Deliver, Handle
      <3>2. Ago(calm)' = IF Dev!phase = "online" THEN 0 ELSE Ago(calm)
        BY <1>0, <2>1, AgoSame DEF Deliver, Removed
      <3> QED
        BY <1>2, <2>1, <3>1, <3>2 DEF SysP!Receive, SysP!Removed, SysP!Own
    <2>2. CASE d.type # "LOGOUT"
      <3>0. NoCell \in Buffers
        BY DEF Buffers
      <3>1. SysP!Queue!Announce("own")
        BY <1>0, <2>2, <3>0, MessageQueue, SeesQueue DEF Deliver, Handle
      <3>2. Ago(calm)' = Ago(calm)
        BY <1>0, <2>2, AgoSame DEF Deliver
      <3> QED
        BY <1>2, <2>2, <3>1, <3>2 DEF SysP!Receive, SysP!Own
    <2> QED
      BY <2>1, <2>2
  <1>4. /\ seenLast' = SysP!NoMessage /\ missed' = missed
        /\ UNCHANGED SysP!cameraVars
    <2>1. Dev!phase' = Dev!phase
      BY <1>0 DEF cameraState, Dev!phase
    <2>2. Ago(spoke)' = Ago(spoke)
      BY <1>0, AgoSame DEF cameraState
    <2> QED
      BY <1>0, <2>1, <2>2 DEF cameraState, seenLast, SysP!NoMessage, SysP!cameraVars
  <1>5. seenNet' = seenNet \/ seenNet' = seenNet \ {See(d)}
    <2>1. net' = net \/ net' = net \ {d}
      BY DEF Deliver
    <2> HIDE DEF See
    <2>2. CASE \E x \in net' : See(x) = See(d)
      BY <1>1, <2>1, <2>2
    <2>3. CASE \A x \in net' : See(x) # See(d)
      BY <1>1, <2>1, <2>3
    <2> QED
      BY <2>2, <2>3
  <1> QED
    BY <1>2, <1>3, <1>4, <1>5 DEF SysP!Deliver, SysP!DeliverCopy

(* What a step of the tool leaves as it is. *)
LEMMA CameraSame ==
    ASSUME UNCHANGED <<cameraState, now, missed, net>>, now \in Nat
    PROVE  /\ UNCHANGED SysP!cameraVars
           /\ UNCHANGED <<missed, seenNet>>
           /\ UNCHANGED calm => Ago(calm)' = Ago(calm)
           /\ UNCHANGED fresh => seenLast' = seenLast
           /\ fresh' = FALSE => seenLast' = SysP!NoMessage
  <1>1. Dev!phase' = Dev!phase
    BY DEF cameraState, Dev!phase
  <1>2. Ago(spoke)' = Ago(spoke)
    BY AgoSame DEF cameraState
  <1> QED
    BY <1>1, <1>2, AgoSame DEF cameraState, SysP!cameraVars, seenLast, SysP!NoMessage

(* Other cameras' messages, commands and late listings change nothing of
   what the system looks at. *)
LEMMA OthersAreUnseen ==
    ASSUME DeploymentInv, TypeOK', OthersSend \/ ToolWorks
    PROVE  UNCHANGED SysP!systemVars
  <1>0. ToolInv /\ now \in Nat /\ now' = now /\ UNCHANGED <<cameraState, missed, net, calm, fresh>>
    BY ToolIsTool DEF ToolStep, OthersSend, ToolWorks, DeploymentInv, ToolInv, TypeOK
  <1>1. CASE OthersSend
    <2>1. PICK m \in Mac \ {OwnMac} : Queue!Announce(m) \/ Queue!Leave(m)
      BY <1>0, <1>1, MessageQueue DEF OthersSend
    <2>2. seenRow' = seenRow /\ seenHeard' = seenHeard
      BY <1>0, <2>1, SeesQueue
    <2> QED
      BY <1>0, <2>2, CameraSame DEF SysP!systemVars, SysP!toolVars
  <1>2. CASE ToolWorks
    <2>1. row' = row /\ heard' = heard
      <3>1. ASSUME NEW t \in timers, WatchClear(t)
            PROVE  row' = row /\ heard' = heard
        BY <1>0, <3>1, ClearQueue DEF ToolInv
      <3>2. ASSUME NEW t \in timers, ListLater(t)
            PROVE  next' = next /\ mac' = mac /\ flag' = flag /\ heard' = heard
        BY <3>2 DEF ListLater, VisitAll
      <3>3. CASE CmdSearch \/ CmdList \/ CmdQuit \/ \E t \in timers : ListLater(t)
        <4>1. next' = next /\ mac' = mac /\ flag' = flag /\ heard' = heard
          BY <3>2, <3>3 DEF CmdSearch, CmdList, CmdQuit, VisitAll, FreeLinkAndExit, StopsAs
        <4>2. Listed' = Listed
          BY <4>1 DEF Listed, InUse
        <4> QED
          BY <4>1, <4>2, SameRows
      <3> QED
        BY <1>2, <3>1, <3>3 DEF ToolWorks
    <2>2. seenRow' = seenRow /\ seenHeard' = seenHeard
      BY <1>0, <2>1, AgoSame DEF seenRow
    <2> QED
      BY <1>0, <2>2, CameraSame DEF SysP!systemVars, SysP!toolVars
  <1> QED
    BY <1>1, <1>2

(* The watch *)
LEMMA WatchIsSystem ==
    ASSUME DeploymentInv, TypeOK', Watch
    PROVE  SysP!MarkDead \/ UNCHANGED SysP!systemVars
  <1>0. /\ ToolInv /\ now \in Nat /\ now' = now /\ OwnMac \in Mac /\ CheckCycle \in Nat
        /\ UNCHANGED <<cameraState, missed, net, calm>>
        /\ fresh' = (fresh /\ row'[OwnMac] = row[OwnMac])
    BY ToolIsTool, DeploymentAssumption, Lengths
    DEF ToolStep, Watch, DeploymentInv, ToolInv, TypeOK
  <1>1. Queue!Expire
    BY <1>0, TestQueue DEF Watch, ToolInv
  <1>2. seenHeard' = seenHeard
    BY <1>0, <1>1, AgoSame DEF Queue!Expire
  <1>3. CASE row'[OwnMac] = row[OwnMac]
    <2>1. fresh' = fresh /\ seenRow' = seenRow
      BY <1>0, <1>3 DEF DeploymentInv, NetInv, seenRow
    <2> QED
      BY <1>0, <1>2, <2>1, CameraSame DEF SysP!systemVars, SysP!toolVars
  <1>4. CASE row'[OwnMac] # row[OwnMac]
    <2>1. row[OwnMac] = "alive" /\ row'[OwnMac] = "dead" /\ now - heard[OwnMac] >= CheckCycle
      BY <1>0, <1>1, <1>4 DEF Queue!Expire
    <2>2. 0 - Ago(heard[OwnMac]) >= CheckCycle
      <3>1. heard[OwnMac] \in Nat
        BY <1>0 DEF ToolInv, TypeOK
      <3> QED
        BY <1>0, <2>1, <3>1, Lengths DEF Ago
    <2>3. /\ seenRow["own"] = "alive" /\ seenRow'["own"] = "dead"
          /\ seenHeard["own"] = Ago(heard[OwnMac])
          /\ seenRow' \in [{"own"} -> {"absent", "alive", "dead"}]
      BY <2>1 DEF seenRow, seenHeard
    <2>4. SysP!Queue!Expire /\ seenRow' # seenRow
      BY <1>2, <2>2, <2>3 DEF SysP!Queue!Expire, SysP!Own
    <2> QED
      BY <1>0, <1>4, <2>4, CameraSame DEF SysP!MarkDead
  <1> QED
    BY <1>3, <1>4

(* The list is emptied, by the user's command or by the end of the tool. *)
LEMMA RenewIsSystem ==
    ASSUME DeploymentInv, DeploymentInv', RenewList \/ StartTool
    PROVE  SysP!Renew
  <1>0. /\ ToolInv /\ TypeOK' /\ now \in Nat /\ now' = now /\ heard' = heard /\ OwnMac \in Mac
        /\ UNCHANGED <<cameraState, missed, net>> /\ fresh' = FALSE
    BY ToolIsTool, DeploymentAssumption
    DEF ToolStep, RenewList, CmdRenew, StartTool, DeploymentInv, ToolInv, TypeOK
  <1>1. Listed' = {}
    <2>1. CASE RenewList
      BY <1>0, <2>1, RenewSound DEF RenewList, CmdRenew, ToolInv
    <2>2. CASE StartTool
      BY <2>2 DEF StartTool, Listed, InUse
    <2> QED
      BY <2>1, <2>2
  <1>2. seenRow' = [m \in {"own"} |-> "absent"]
    <2>1. row'[OwnMac] = "absent"
      BY <1>0, <1>1 DEF row, RowOf
    <2> QED
      BY <2>1 DEF seenRow
  <1>3. Ago(calm)' = IF Dev!phase = "online" THEN 0 ELSE Ago(calm)
    BY <1>0, AgoSame DEF RenewList, StartTool, Removed
  <1> QED
    BY <1>0, <1>2, <1>3, AgoSame, CameraSame
    DEF SysP!Renew, SysP!Queue!Forget, SysP!Removed, SysP!Own

(* Time passes: what was is one step longer ago. *)
LEMMA Older ==
    ASSUME NEW t \in Nat, now \in Nat, now' = now + 1
    PROVE  (IF now' - t > Horizon THEN -Horizon ELSE t - now') = SysP!Earlier(Ago(t))
  <1>1. Horizon \in Nat /\ SysP!Horizon = Horizon
    BY Lengths DEF SysP!Horizon
  <1> QED
    BY <1>1 DEF SysP!Earlier, Ago

(* The bound on silence holds after a step, too. *)
LEMMA Noticed == (TypeOK /\ OneWatchTimer /\ TimingInv)' => DeathNoticed'
  <1>1. TypeOK /\ OneWatchTimer /\ TimingInv => DeathNoticed
    BY TimingGivesDeath
  <1> QED
    BY <1>1, PTL

(* Time passes in the system: the camera, the network and the watch are not
   later than they promise. *)
LEMMA TickIsSystem ==
    ASSUME DeploymentInv, DeploymentInv', TimePasses
    PROVE  SysP!Tick
  <1>0. /\ ToolInv /\ now \in Nat /\ now' = now + 1 /\ OwnMac \in Mac
        /\ spoke \in Nat /\ spoke' = spoke /\ calm \in Nat /\ calm' = calm
        /\ heard[OwnMac] \in Nat /\ heard' = heard
        /\ DevP!DeviceInv /\ DevP!Tick
        /\ \A d \in net : d.sent \in Nat
    <2>1. ToolInv /\ NetInv /\ DevP!DeviceInv /\ DevP!Tick
      BY SameProgram DEF DeploymentInv, TimePasses
    <2>2. OwnMac \in Mac /\ now \in Nat /\ heard[OwnMac] \in Nat
      BY <2>1, DeploymentAssumption DEF ToolInv, TypeOK
    <2>3. spoke \in Nat /\ spoke' = spoke
      BY <2>1, CameraAssumption, DevP!DeviceNumbers DEF DevP!Tick
    <2>4. now' = now + 1 /\ heard' = heard /\ calm' = calm
      BY DEF TimePasses, Tick
    <2>5. calm \in Nat /\ \A d \in net : d.sent \in Nat
      BY <2>1, <2>2 DEF NetInv, Datagram
    <2> QED
      BY <2>1, <2>2, <2>3, <2>4, <2>5
  <1>1. /\ Ago(spoke)' = SysP!Earlier(Ago(spoke))
        /\ Ago(calm)' = SysP!Earlier(Ago(calm))
        /\ seenHeard' = [m \in {"own"} |-> SysP!Earlier(seenHeard[m])]
    BY <1>0, Older DEF Ago, Horizon, seenHeard
  <1>2. DevP!Promise!Tick
    BY <1>0, CameraAssumption, DevP!TickStep
  <1>3. Dev!phase = "online" => 1 - Ago(spoke) <= Silence
    <2> SUFFICES ASSUME Dev!phase = "online" PROVE 1 - Ago(spoke) <= Silence
      OBVIOUS
    <2>1. now + 1 <= spoke + Silence
      BY <1>2, SameProgram DEF DevP!Promise!Tick, Silence
    <2> QED
      BY <1>0, <2>1, Lengths DEF Ago
  <1>4. Queue!Tick /\ row' = row
    <2>1. DeathNoticed'
      BY Noticed DEF DeploymentInv, ToolInv
    <2> QED
      BY <1>0, <2>1, TickQueue DEF TimePasses, ToolInv, Queue!Tick
  <1>5. seenRow["own"] = "alive" => 1 - seenHeard["own"] <= LongestSilence
    <2> SUFFICES ASSUME row[OwnMac] = "alive" PROVE 1 - Ago(heard[OwnMac]) <= LongestSilence
      BY DEF seenRow, seenHeard
    <2>1. now + 1 - heard[OwnMac] <= LongestSilence
      BY <1>0, <1>4 DEF Queue!Tick, LongestSilence
    <2> QED
      BY <1>0, <2>1, Lengths DEF Ago
  <1>6. /\ \A e \in seenNet : 1 - e.sent <= MaxDelay
        /\ seenNet' = {[e EXCEPT !.sent = @ - 1] : e \in seenNet}
    <2> DEFINE See(d) == [leaves |-> d.type = "LOGOUT", sent |-> d.sent - now]
               Later(d) == [leaves |-> d.type = "LOGOUT", sent |-> d.sent - (now + 1)]
    <2>1. seenNet = {See(d) : d \in net} /\ seenNet' = {Later(d) : d \in net}
      BY <1>0 DEF TimePasses, seenNet
    <2>2. \A d \in net : /\ 1 - See(d).sent <= MaxDelay
                         /\ [See(d) EXCEPT !.sent = @ - 1] = Later(d)
      BY <1>0, Lengths DEF TimePasses
    <2> HIDE DEF See, Later
    <2> QED
      BY <2>1, <2>2
  <1>7. /\ seenRow' = seenRow /\ seenLast' = SysP!NoMessage
        /\ UNCHANGED <<Dev!phase, heartbeatNum, knowsMac, build, parent, missed>>
    BY <1>2, <1>4, SameProgram
    DEF TimePasses, seenRow, seenLast, SysP!NoMessage, DevP!Promise!Tick, DevP!Tick, Dev!Tick
  <1> QED
    BY <1>1, <1>3, <1>5, <1>6, <1>7 DEF SysP!Tick, SysP!Own

-----------------------------------------------------------------------------
(* Every step is one of the system's, or unseen. *)
LEMMA SystemStep ==
    ASSUME DeploymentInv, DeploymentInv', [DeploymentNext]_deploymentVars
    PROVE  [SysP!Next]_(SysP!systemVars)
  <1>0. TypeOK'
    BY DEF DeploymentInv, ToolInv
  <1>1. CASE CameraSends
    BY <1>1, SendsIsSystem DEF SysP!Next
  <1>2. CASE ParentSends
    BY <1>2, ParentIsSystem DEF SysP!Next
  <1>3. CASE CameraWorks \/ CameraEnds \/ CameraStarts
    BY <1>3, WorksIsSystem DEF SysP!Next
  <1>4. CASE \E d \in net : Deliver(d)
    BY <1>0, <1>4, DeliverIsSystem DEF SysP!Next
  <1>5. CASE OthersSend \/ ToolWorks
    BY <1>0, <1>5, OthersAreUnseen
  <1>6. CASE Watch
    BY <1>0, <1>6, WatchIsSystem DEF SysP!Next
  <1>7. CASE RenewList \/ StartTool
    BY <1>7, RenewIsSystem DEF SysP!Next
  <1>8. CASE TimePasses
    BY <1>8, TickIsSystem DEF SysP!Next
  <1>9. CASE UNCHANGED deploymentVars
    <2>1. /\ UNCHANGED <<cameraState, missed, net, calm, fresh, toolState>>
          /\ now' = now /\ now \in Nat
      BY <1>9 DEF deploymentVars, DeploymentInv, ToolInv, TypeOK
    <2> QED
      BY <2>1, ToolSame, CameraSame DEF SysP!systemVars, SysP!toolVars
  <1> QED
    BY <1>1, <1>2, <1>3, <1>4, <1>5, <1>6, <1>7, <1>8, <1>9 DEF DeploymentNext

(* The programs start as the system does. *)
LEMMA SystemStart == ASSUME DeploymentInit PROVE SysP!Init
  <1>1. /\ now = 0 /\ net = {} /\ missed = 0 /\ calm = 0 /\ fresh = FALSE
        /\ Init /\ Dev!Init /\ heard[OwnMac] = 0
    BY DeploymentAssumption DEF DeploymentInit, Init
  <1>2. Ago(0) = 0
    BY <1>1, Lengths DEF Ago
  <1>3. seenRow = [m \in {"own"} |-> "absent"]
    <2>1. Listed = {}
      BY <1>1 DEF Init, ListInit, Listed, InUse
    <2> QED
      BY <2>1, DeploymentAssumption DEF seenRow, row, RowOf
  <1>4. seenHeard = [m \in {"own"} |-> 0]
    BY <1>1, <1>2 DEF seenHeard
  <1>5. seenNet = {} /\ seenLast = SysP!NoMessage
    BY <1>1 DEF seenNet, seenLast, SysP!NoMessage
  <1>6. SysP!Cam!CameraInit
    <2>1. Dev!phase = "starting"
      BY <1>1 DEF Dev!Init, Dev!phase
    <2>2. spoke = 0 /\ heartbeatNum = 0 /\ knowsMac = FALSE /\ parent = FALSE
      BY <1>1 DEF Dev!Init
    <2>3. seenLast.type = "none"
      BY <1>5 DEF SysP!NoMessage
    <2> QED
      BY <1>2, <2>1, <2>2, <2>3 DEF SysP!Cam!CameraInit
  <1> QED
    BY <1>1, <1>2, <1>3, <1>4, <1>5, <1>6 DEF SysP!Init, SysP!Queue!QueueInit, SysP!Own

(* The programs behave as the system whose theorems are in SystemProofs. *)
LEMMA DeploymentIsSystem == DeploymentSpec => SysP!Spec
  <1>1. DeploymentInit => SysP!Init
    BY SystemStart
  <1>2. DeploymentInv /\ DeploymentInv' /\ [DeploymentNext]_deploymentVars
            => [SysP!Next]_(SysP!systemVars)
    BY SystemStep
  <1> QED
    BY <1>1, <1>2, DeploymentAlways, PTL DEF DeploymentSpec, SysP!Spec

(* The programs and the network are the System: what holds of one camera and
   one queue with their promises holds of the programs. *)
THEOREM DeploymentImplementsSystem == DeploymentSpec => ImplementsSystem
  <1>1. SysP!Init <=> Sys!Init
    BY DEF SysP!Init, SysP!NoMessage, SysP!Own, SysP!Cam!CameraInit, SysP!Queue!QueueInit,
           Sys!Init, Sys!NoMessage, Sys!Own, Sys!Cam!CameraInit, Sys!Queue!QueueInit
  <1>2. [SysP!Next]_(SysP!systemVars) <=> [Sys!Next]_(Sys!systemVars)
    BY DEF
       SysP!Next, SysP!systemVars, SysP!cameraVars, SysP!toolVars, SysP!NoMessage, SysP!Own,
       SysP!Horizon, SysP!Earlier, SysP!Removed, SysP!Transmit, SysP!Receive,
       SysP!Login, SysP!Beat, SysP!Answer, SysP!Leave, SysP!Name, SysP!Fork,
       SysP!ParentLogout, SysP!ParentExit, SysP!Vanish, SysP!Start, SysP!Deliver,
       SysP!DeliverCopy, SysP!Renew, SysP!MarkDead, SysP!Tick,
       SysP!Cam!Sends, SysP!Cam!Talks, SysP!Cam!Login, SysP!Cam!Beat, SysP!Cam!Answer,
       SysP!Cam!Leave, SysP!Cam!Name, SysP!Cam!Fork, SysP!Cam!ParentLogout,
       SysP!Cam!ParentExit, SysP!Cam!Vanish, SysP!Cam!Start,
       SysP!Queue!Announce, SysP!Queue!Leave, SysP!Queue!Forget, SysP!Queue!Expire,
       Sys!Next, Sys!systemVars, Sys!cameraVars, Sys!toolVars, Sys!NoMessage, Sys!Own,
       Sys!Horizon, Sys!Earlier, Sys!Removed, Sys!Transmit, Sys!Receive,
       Sys!Login, Sys!Beat, Sys!Answer, Sys!Leave, Sys!Name, Sys!Fork,
       Sys!ParentLogout, Sys!ParentExit, Sys!Vanish, Sys!Start, Sys!Deliver,
       Sys!DeliverCopy, Sys!Renew, Sys!MarkDead, Sys!Tick,
       Sys!Cam!Sends, Sys!Cam!Talks, Sys!Cam!Login, Sys!Cam!Beat, Sys!Cam!Answer,
       Sys!Cam!Leave, Sys!Cam!Name, Sys!Cam!Fork, Sys!Cam!ParentLogout,
       Sys!Cam!ParentExit, Sys!Cam!Vanish, Sys!Cam!Start,
       Sys!Queue!Announce, Sys!Queue!Leave, Sys!Queue!Forget, Sys!Queue!Expire
  <1>3. DeploymentSpec => SysP!Spec
    BY DeploymentIsSystem
  <1> QED
    BY <1>1, <1>2, <1>3, PTL DEF ImplementsSystem, SysP!Spec, Sys!Spec

(* A camera that has been online for long enough is shown online in the list
   of the tool: for both builds of the camera, any number of other cameras,
   any signals, and any periods, losses and delays that a check outlasts. *)
THEOREM OnlineCamerasAreShown == DeploymentSpec => []OnlineIsShown
  <1>1. SysP!OnlineIsAlive /\ DeploymentInv => OnlineIsShown
    <2> SUFFICES ASSUME SysP!OnlineIsAlive, DeploymentInv, Dev!phase = "online",
                        knowsMac, now - calm > Gap + MaxDelay
                 PROVE  Shown
      BY DEF OnlineIsShown
    <2>1. now \in Nat /\ calm \in Nat
      BY DEF DeploymentInv, ToolInv, TypeOK, NetInv
    <2>2. SysP!Gap = Gap
      BY DEF SysP!Gap, Gap
    <2>3. -Ago(calm) > Gap + MaxDelay
      BY <2>1, Lengths DEF Ago
    <2>4. seenRow["own"] = "alive"
      BY <2>2, <2>3 DEF SysP!OnlineIsAlive, SysP!Own
    <2> QED
      BY <2>4, DeploymentAssumption DEF seenRow, row, RowOf, Shown
  <1> QED
    BY <1>1, DeploymentIsSystem, DeploymentAlways, SystemsAssumption,
       SysP!OnlineCamerasAreAlive, PTL

(* A camera that has ended for long enough is not shown online, whether its
   LOGOUT was sent, lost, late, or overtaken by an older message. *)
THEOREM EndedCamerasAreNotShown == DeploymentSpec => []EndedIsNotShown
  <1>1. SysP!GoneIsNoticed /\ DeploymentInv => EndedIsNotShown
    <2> SUFFICES ASSUME SysP!GoneIsNoticed, DeploymentInv, ~alive,
                        now - calm > MaxDelay + LongestSilence, Shown
                 PROVE  FALSE
      BY DEF EndedIsNotShown
    <2>1. now \in Nat /\ calm \in Nat
      BY DEF DeploymentInv, ToolInv, TypeOK, NetInv
    <2>2. -Ago(calm) > MaxDelay + LongestSilence
      BY <2>1, Lengths DEF Ago
    <2>3. Dev!phase = "gone"
      BY DEF Dev!phase
    <2>4. seenRow["own"] # "alive"
      BY <2>2, <2>3 DEF SysP!GoneIsNoticed, SysP!Own
    <2> QED
      BY <2>4, DeploymentAssumption DEF seenRow, row, RowOf, Shown
  <1> QED
    BY <1>1, DeploymentIsSystem, DeploymentAlways, SystemsAssumption,
       SysP!GoneCamerasAreNoticed, PTL

(* A camera that is shown online has spoken itself and not long ago: no other
   camera's message, no copy and no row that is not marked shows it longer. *)
THEOREM ShownCamerasHaveSpoken == DeploymentSpec => []ShownHasSpoken
  <1>1. SysP!AliveHasSpoken /\ DeploymentInv => ShownHasSpoken
    <2> SUFFICES ASSUME SysP!AliveHasSpoken, DeploymentInv, Shown
                 PROVE  now - spoke <= MaxDelay + LongestSilence
      BY DEF ShownHasSpoken
    <2>1. now \in Nat /\ spoke \in Nat
      BY DEF DeploymentInv, ToolInv, TypeOK, DevP!DeviceInv, DevP!TypeOK
    <2>2. seenRow["own"] = "alive"
      BY DeploymentAssumption DEF seenRow, row, RowOf, Shown
    <2>3. -Ago(spoke) <= MaxDelay + LongestSilence
      BY <2>2 DEF SysP!AliveHasSpoken, SysP!Own
    <2> QED
      BY <2>1, <2>3, Lengths DEF Ago
  <1> QED
    BY <1>1, DeploymentIsSystem, DeploymentAlways, SystemsAssumption,
       SysP!AliveCamerasHaveSpoken, PTL

=============================================================================
