---------------------------- MODULE DeviceProofs ----------------------------
(***************************************************************************)
(* Both builds of the camera's program implement Camera, for every cycle,  *)
(* lateness, set of signals and range of heartbeat numbers.                *)
(***************************************************************************)
EXTENDS Device, TLAPS

(* A handler that is past its LOGOUT has sent it, and the only thread of v2,
   or of v1 before it has a receiver, does not leave the handler; the receiver
   runs only after LOGIN. *)
OneThread == build = "v2" \/ receiver = "none"

PlaceInv ==
    /\ \A t \in Thread : handler[t] \in {"close", "exit"} => left
    /\ OneThread => /\ left => handler["main"] # "none"
                    /\ handler["receiver"] = "none"
    /\ receiver # "none" => main = "beating"

(* Until the LOGOUT is sent main is nowhere late, and its next heartbeat is
   due within a cycle of the last message, or of the start of the loop. *)
SilenceInv ==
    /\ spoke <= now
    /\ alive /\ ~left =>
          /\ main = "online" => now <= spoke + MaxLate
          /\ main = "beating" => /\ beatAt <= spoke + MaxLate + HeartbeatCycle
                                 /\ now <= beatAt + MaxLate

DeviceInv == TypeOK /\ PlaceInv /\ SilenceInv

LEMMA NextNumInRange ==
  ASSUME NEW n \in 0..(NumLimit - 1)
  PROVE  NextNum(n) \in 0..(NumLimit - 1)
BY DeviceAssumption DEF NextNum

LEMMA InitDevice == Init => DeviceInv /\ Promise!CameraInit
<1> SUFFICES ASSUME Init PROVE DeviceInv /\ Promise!CameraInit
  OBVIOUS
<1>0. 0 \in 0..(NumLimit - 1) /\ 0 \in Nat
  BY DeviceAssumption
<1>1. TypeOK
  <2>1. last \in Message
    BY <1>0 DEF Init, Message
  <2>2. /\ handler \in [Process -> {"none", "logout", "close", "exit"}]
        /\ taken \in [Process -> SUBSET Signal]
    BY DEF Init
  <2> QED BY <1>0, <2>1, <2>2 DEF Init, TypeOK
<1>2. PlaceInv /\ SilenceInv
  BY DEF Init, PlaceInv, OneThread, SilenceInv, Process, Thread
<1>3. Promise!CameraInit
  BY DEF Init, Promise!CameraInit, phase
<1> QED BY <1>1, <1>2, <1>3 DEF DeviceInv

(* What TypeOK says of the numbers and the flags. *)
LEMMA DeviceNumbers ==
  ASSUME DeviceInv
  PROVE  /\ build \in {"v1", "v2"} /\ now \in Nat /\ spoke \in Nat /\ beatAt \in Nat
         /\ alive \in BOOLEAN /\ left \in BOOLEAN /\ knowsMac \in BOOLEAN
         /\ HeartbeatCycle \in Nat /\ MaxLate \in Nat /\ 0 \in 0..(NumLimit - 1)
BY DeviceAssumption DEF DeviceInv, TypeOK

-----------------------------------------------------------------------------
(* Each step of the program is the camera's step of the same meaning. *)

LEMMA NameStep ==
  ASSUME DeviceInv, GetMac \/ InitSocket
  PROVE  Promise!Name
<1>1. knowsMac' \in BOOLEAN
  BY DeviceNumbers DEF GetMac, InitSocket
<1>2. phase = "starting" /\ UNCHANGED phase
  <2>1. ~left /\ alive
    BY DeviceNumbers DEF GetMac, InitSocket, Runs, DeviceInv, PlaceInv, OneThread
  <2>2. main \in {"boot", "forked"} /\ main' \in {"named", "bound"}
    BY DEF GetMac, InitSocket
  <2>3. left' = left /\ alive' = alive
    BY DEF GetMac, InitSocket
  <2> QED BY <2>1, <2>2, <2>3 DEF phase
<1> QED BY <1>1, <1>2 DEF GetMac, InitSocket, Promise!Name

LEMMA ForkStep ==
  ASSUME DeviceInv, Fork
  PROVE  Promise!Fork
<1>1. ~left /\ alive
  BY DeviceNumbers DEF Fork, Runs, DeviceInv, PlaceInv, OneThread
<1>2. phase = "starting" /\ UNCHANGED phase
  BY <1>1 DEF Fork, phase
<1> QED BY <1>2 DEF Fork, Promise!Fork

LEMMA LoginStep ==
  ASSUME DeviceInv, BroadcastLogin
  PROVE  Promise!Login
<1>1. ~left /\ alive
  BY DeviceNumbers DEF BroadcastLogin, Runs, DeviceInv, PlaceInv, OneThread
<1>2. phase = "starting" /\ phase' = "online"
  BY <1>1 DEF BroadcastLogin, phase
<1> QED BY <1>1, <1>2 DEF BroadcastLogin, Send, Promise!Login, Promise!Sends

LEMMA BeatStep ==
  ASSUME DeviceInv, SendHeartbeat \/ HeartbeatEvent
  PROVE  Promise!Beat
<1>1. /\ Beat
      /\ left => build = "v1"
  BY DeviceNumbers
  DEF SendHeartbeat, HeartbeatEvent, Beat, Runs, DeviceInv, PlaceInv, OneThread
<1>2. UNCHANGED phase /\ (phase = "online" \/ (phase = "leaving" /\ build = "v1"))
  BY <1>1 DEF Beat, Runs, phase
<1> QED BY <1>1, <1>2
        DEF Beat, Send, NextNum, Promise!Beat, Promise!Talks, Promise!Sends

LEMMA AnswerStep ==
  ASSUME DeviceInv, ReplayAlive
  PROVE  Promise!Answer
<1>1. /\ main = "beating" /\ alive
      /\ left => build = "v1"
  BY DeviceNumbers DEF ReplayAlive, Runs, Receiving, DeviceInv, PlaceInv, OneThread
<1>2. UNCHANGED phase /\ (phase = "online" \/ (phase = "leaving" /\ build = "v1"))
  BY <1>1 DEF ReplayAlive, phase
<1> QED BY <1>1, <1>2
        DEF ReplayAlive, Send, Promise!Answer, Promise!Talks, Promise!Sends

LEMMA LeaveStep ==
  ASSUME DeviceInv, NEW t \in Thread, SendLogout(t)
  PROVE  Promise!Leave
<1>1. phase # "gone" /\ phase' = "leaving"
  BY DEF SendLogout, phase
<1> QED BY <1>1 DEF SendLogout, Send, Promise!Leave, Promise!Sends

(* The process ends, in one way or another. *)
LEMMA VanishStep ==
  ASSUME DeviceInv, Crash \/ \E t \in Thread : Exit(t)
  PROVE  Promise!Vanish
<1>1. /\ alive /\ alive' = FALSE
      /\ UNCHANGED <<now, heartbeatNum, last, spoke, build, knowsMac, parent>>
  BY DEF Crash, Exit
<1>2. phase # "gone" /\ phase' = "gone"
  BY <1>1 DEF phase
<1> QED BY <1>1, <1>2 DEF Promise!Vanish

LEMMA StartStep ==
  ASSUME DeviceInv, Restart
  PROVE  Promise!Start
<1>1. phase = "gone" /\ phase' = "starting"
  BY DEF Restart, phase
<1> QED BY <1>1 DEF Restart, Promise!Start

LEMMA ParentLogoutStep ==
  ASSUME DeviceInv, ParentLogout
  PROVE  Promise!ParentLogout
<1>1. UNCHANGED phase
  BY DEF ParentLogout, phase
<1> QED BY <1>1 DEF ParentLogout, Promise!ParentLogout

LEMMA ParentExitStep ==
  ASSUME DeviceInv, ParentExit
  PROVE  Promise!ParentExit
<1>1. UNCHANGED phase
  BY DEF ParentExit, phase
<1> QED BY <1>1 DEF ParentExit, Promise!ParentExit

(* Time passes no further than an online camera may be silent. *)
LEMMA TickStep ==
  ASSUME DeviceInv, Tick
  PROVE  Promise!Tick
<1>1. alive /\ ~left => handler["main"] \in {"none", "logout"}
  BY DEF DeviceInv, TypeOK, PlaceInv, Thread, Process
<1>2. ASSUME phase = "online"
      PROVE  now + 1 <= spoke + (HeartbeatCycle + 2 * MaxLate)
  <2>1. alive /\ ~left /\ main \in {"online", "beating"}
    BY <1>2 DEF phase
  <2>2. CASE main = "online"
    BY DeviceNumbers, <1>1, <2>1, <2>2 DEF Tick
  <2>3. CASE main = "beating"
    BY DeviceNumbers, <1>1, <2>1, <2>3 DEF Tick, DeviceInv, SilenceInv
  <2> QED BY <2>1, <2>2, <2>3
<1>3. UNCHANGED phase
  BY DEF Tick, phase
<1> QED BY <1>2, <1>3 DEF Tick, Promise!Tick

(* Steps of which the network sees nothing. *)
Unseen ==
    \/ CreateReceiver \/ EnterLoop \/ RecvQuery
    \/ \E t \in Process, s \in Signal : TakeSignal(t, s)
    \/ \E t \in Thread : CloseSockets(t)

LEMMA UnseenStep ==
  ASSUME Unseen
  PROVE  UNCHANGED Promise!cameraVars
<1>1. UNCHANGED <<now, phase, last, spoke, heartbeatNum, knowsMac, build, parent>>
  BY DEF Unseen, CreateReceiver, EnterLoop, RecvQuery, TakeSignal, CloseSockets, phase
<1> QED BY <1>1 DEF Promise!cameraVars

(* Each of the program's steps is one of the camera's, or unseen. *)
LEMMA PromiseStep ==
  ASSUME DeviceInv, [Next]_deviceVars
  PROVE  [Promise!CameraNext]_(Promise!cameraVars)
<1>1. CASE UNCHANGED deviceVars
  BY <1>1 DEF deviceVars, phase, Promise!cameraVars
<1>2. CASE Unseen
  BY <1>2, UnseenStep
<1>3. CASE Next /\ ~Unseen
  <2>1. \/ GetMac \/ InitSocket \/ Fork \/ BroadcastLogin
        \/ SendHeartbeat \/ HeartbeatEvent \/ ReplayAlive
        \/ \E t \in Thread : SendLogout(t)
        \/ Crash \/ \E t \in Thread : Exit(t)
        \/ Restart \/ ParentLogout \/ ParentExit \/ Tick
    BY <1>3 DEF Next, Unseen
  <2> QED
    BY <2>1, NameStep, ForkStep, LoginStep, BeatStep, AnswerStep, LeaveStep, VanishStep,
       StartStep, ParentLogoutStep, ParentExitStep, TickStep
    DEF Promise!CameraNext
<1> QED BY <1>1, <1>2, <1>3

-----------------------------------------------------------------------------
(* Every step keeps the invariant. *)
LEMMA InvStep ==
  ASSUME DeviceInv, [Next]_deviceVars
  PROVE  DeviceInv'
<1> USE DeviceAssumption DEF DeviceInv, Thread, Process
<1>0. /\ build \in {"v1", "v2"} /\ now \in Nat /\ spoke \in Nat /\ beatAt \in Nat
      /\ alive \in BOOLEAN /\ left \in BOOLEAN /\ knowsMac \in BOOLEAN
      /\ HeartbeatCycle \in Nat /\ MaxLate \in Nat /\ 0 \in 0..(NumLimit - 1)
  BY DeviceNumbers
<1>1. CASE GetMac \/ InitSocket
  <2>1. TypeOK'
    BY <1>0, <1>1 DEF GetMac, InitSocket, TypeOK
  <2>2. PlaceInv'
    BY <1>0, <1>1 DEF GetMac, InitSocket, Runs, PlaceInv, OneThread
  <2>3. SilenceInv'
    BY <1>0, <1>1 DEF GetMac, InitSocket, SilenceInv
  <2> QED BY <2>1, <2>2, <2>3
<1>14. CASE Fork
  <2>1. TypeOK'
    BY <1>0, <1>14 DEF Fork, TypeOK
  <2>2. PlaceInv' /\ SilenceInv'
    BY <1>0, <1>14 DEF Fork, Runs, PlaceInv, OneThread, SilenceInv
  <2> QED BY <2>1, <2>2
<1>2. CASE BroadcastLogin
  <2>1. ~left /\ alive
    BY <1>0, <1>2 DEF BroadcastLogin, Runs, PlaceInv, OneThread
  <2>2. TypeOK'
    BY <1>0, <1>2, <2>1 DEF BroadcastLogin, Send, TypeOK, Message
  <2>3. PlaceInv'
    BY <1>0, <1>2, <2>1 DEF BroadcastLogin, Send, PlaceInv, OneThread
  <2>4. SilenceInv'
    BY <1>0, <1>2, <2>1 DEF BroadcastLogin, Send, SilenceInv
  <2> QED BY <2>2, <2>3, <2>4
<1>3. CASE CreateReceiver \/ EnterLoop
  <2>1. TypeOK'
    BY <1>0, <1>3 DEF CreateReceiver, EnterLoop, TypeOK
  <2>2. PlaceInv'
    BY <1>0, <1>3 DEF CreateReceiver, EnterLoop, Runs, PlaceInv, OneThread
  <2>3. SilenceInv'
    BY <1>0, <1>3 DEF CreateReceiver, EnterLoop, SilenceInv
  <2> QED BY <2>1, <2>2, <2>3
<1>4. CASE SendHeartbeat \/ HeartbeatEvent
  <2>1. /\ Beat
        /\ left => build = "v1"
    BY <1>0, <1>4 DEF SendHeartbeat, HeartbeatEvent, Beat, Runs, PlaceInv, OneThread
  <2>2. TypeOK'
    BY <1>0, <2>1, NextNumInRange DEF Beat, Send, TypeOK, Message
  <2>3. PlaceInv'
    BY <2>1 DEF Beat, PlaceInv, OneThread
  <2>4. SilenceInv'
    BY <1>0, <2>1 DEF Beat, Send, SilenceInv
  <2> QED BY <2>2, <2>3, <2>4
<1>5. CASE RecvQuery
  <2>1. TypeOK' /\ PlaceInv' /\ SilenceInv'
    BY <1>5 DEF RecvQuery, TypeOK, PlaceInv, OneThread, SilenceInv
  <2> QED BY <2>1
<1>6. CASE ReplayAlive
  <2>1. /\ main = "beating" /\ alive
        /\ left => build = "v1"
    BY <1>0, <1>6 DEF ReplayAlive, Runs, Receiving, PlaceInv, OneThread
  <2>2. TypeOK'
    BY <1>0, <1>6, <2>1 DEF ReplayAlive, Send, TypeOK, Message
  <2>3. PlaceInv'
    BY <1>6 DEF ReplayAlive, PlaceInv, OneThread
  <2>4. SilenceInv'
    BY <1>0, <1>6, <2>1 DEF ReplayAlive, Send, SilenceInv
  <2> QED BY <2>2, <2>3, <2>4
<1>7. ASSUME NEW t \in Process, NEW s \in Signal, TakeSignal(t, s)
      PROVE  DeviceInv'
  <2>1. TypeOK'
    BY <1>7 DEF TakeSignal, TypeOK
  <2>2. PlaceInv' /\ SilenceInv'
    BY <1>0, <1>7 DEF TakeSignal, Threads, Lives, TypeOK, PlaceInv, OneThread, SilenceInv
  <2> QED BY <2>1, <2>2
<1>8. ASSUME NEW t \in Thread, SendLogout(t)
      PROVE  DeviceInv'
  <2>1. TypeOK'
    BY <1>0, <1>8 DEF SendLogout, Send, TypeOK, Message
  <2>2. PlaceInv'
    BY <1>0, <1>8 DEF SendLogout, TypeOK, PlaceInv, OneThread
  <2>3. SilenceInv'
    BY <1>0, <1>8 DEF SendLogout, Send, SilenceInv
  <2> QED BY <2>1, <2>2, <2>3
<1>9. ASSUME NEW t \in Thread, CloseSockets(t)
      PROVE  DeviceInv'
  <2>1. TypeOK'
    BY <1>9 DEF CloseSockets, TypeOK
  <2>2. PlaceInv' /\ SilenceInv'
    BY <1>0, <1>9 DEF CloseSockets, TypeOK, PlaceInv, OneThread, SilenceInv
  <2> QED BY <2>1, <2>2
<1>10. CASE Crash \/ \E t \in Thread : Exit(t)
  <2>1. /\ alive /\ alive' = FALSE
        /\ UNCHANGED <<build, now, main, receiver, handler, taken, open, knowsMac,
                       heartbeatNum, beatAt, last, spoke, left, parent>>
    BY <1>10 DEF Crash, Exit
  <2>2. TypeOK' /\ PlaceInv' /\ SilenceInv'
    BY <2>1 DEF TypeOK, PlaceInv, OneThread, SilenceInv
  <2> QED BY <2>2
<1>11. CASE Restart
  <2>1. TypeOK'
    BY <1>0, <1>11 DEF Restart, TypeOK
  <2>2. PlaceInv' /\ SilenceInv'
    BY <1>11 DEF Restart, PlaceInv, OneThread, SilenceInv
  <2> QED BY <2>1, <2>2
<1>12. CASE Tick
  <2>1. TypeOK' /\ PlaceInv'
    BY <1>0, <1>12 DEF Tick, TypeOK, PlaceInv, OneThread
  <2>2. alive /\ ~left => handler["main"] \in {"none", "logout"}
    BY DEF TypeOK, PlaceInv
  <2>3. SilenceInv'
    BY <1>0, <1>12, <2>2 DEF Tick, SilenceInv
  <2> QED BY <2>1, <2>3
<1>15. CASE ParentLogout
  <2>1. TypeOK'
    BY <1>0, <1>15 DEF ParentLogout, TypeOK, Message
  <2>2. PlaceInv' /\ SilenceInv'
    BY <1>0, <1>15 DEF ParentLogout, TypeOK, PlaceInv, OneThread, SilenceInv
  <2> QED BY <2>1, <2>2
<1>16. CASE ParentExit
  <2>1. TypeOK'
    BY <1>0, <1>16 DEF ParentExit, TypeOK
  <2>2. PlaceInv' /\ SilenceInv'
    BY <1>0, <1>16 DEF ParentExit, TypeOK, PlaceInv, OneThread, SilenceInv
  <2> QED BY <2>1, <2>2
<1>13. CASE UNCHANGED deviceVars
  BY <1>13 DEF deviceVars, TypeOK, PlaceInv, OneThread, SilenceInv
<1> QED
  BY <1>1, <1>2, <1>3, <1>4, <1>5, <1>6, <1>7, <1>8, <1>9, <1>10, <1>11, <1>12, <1>13,
     <1>14, <1>15, <1>16
  DEF Next

LEMMA NextDevice ==
  DeviceInv /\ [Next]_deviceVars
     => DeviceInv' /\ [Promise!CameraNext]_(Promise!cameraVars)
BY InvStep, PromiseStep

(* Wherever the signals interrupt a thread, both builds say LOGIN first, no
   message after the LOGOUT unless they are v1, and are silent for at most
   one cycle and two delays while online; nobody else says a LOGOUT for them
   but the process that forked, before it exits. *)
THEOREM DeviceIsCamera == Spec => []TypeOK /\ ImplementsCamera
<1> QED
  BY InitDevice, NextDevice, PTL
  DEF Spec, DeviceInv, ImplementsCamera, Promise!CameraSpec

(* What the protocol says and v1 breaks (LogoutIsLast under LogoutLast.cfg)
   holds of the event loop build: its only thread is in the handler when the
   LOGOUT is sent and does not come back. *)
THEOREM LoopBuildSpeaksNoMore ==
  ASSUME "v1" \notin Build
  PROVE  Spec => LogoutIsLast
<1>1. ASSUME DeviceInv, [Next]_deviceVars, left, last' # last
      PROVE  last'.type = "LOGOUT"
  <2>1. build = "v2" /\ Receiving = "main"
    BY <1>1, DeviceNumbers DEF DeviceInv, TypeOK, Receiving
  <2>2. ~Runs("main")
    BY <1>1, <2>1 DEF DeviceInv, PlaceInv, OneThread, Runs
  <2>3. ~(GetMac \/ Fork \/ InitSocket \/ BroadcastLogin \/ CreateReceiver \/ SendHeartbeat
          \/ EnterLoop \/ HeartbeatEvent \/ RecvQuery \/ ReplayAlive)
    BY <2>1, <2>2
    DEF GetMac, Fork, InitSocket, BroadcastLogin, CreateReceiver, SendHeartbeat, EnterLoop,
        HeartbeatEvent, Beat, RecvQuery, ReplayAlive
  <2>4. ~(\/ \E t \in Process, s \in Signal : TakeSignal(t, s)
          \/ \E t \in Thread : CloseSockets(t) \/ Exit(t)
          \/ ParentExit \/ Crash \/ Restart \/ Tick \/ UNCHANGED deviceVars)
    BY <1>1 DEF TakeSignal, CloseSockets, Exit, ParentExit, Crash, Restart, Tick, deviceVars
  <2>5. ParentLogout \/ \E t \in Thread : SendLogout(t)
    BY <1>1, <2>3, <2>4 DEF Next
  <2> QED
    BY <2>5 DEF ParentLogout, SendLogout, Send
<1>2. DeviceInv /\ [Next]_deviceVars => [left /\ last' # last => last'.type = "LOGOUT"]_deviceVars
  BY <1>1
<1> QED
  BY <1>2, InitDevice, NextDevice, PTL DEF Spec, LogoutIsLast

=============================================================================
