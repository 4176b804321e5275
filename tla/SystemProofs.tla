---------------------------- MODULE SystemProofs ----------------------------
(***************************************************************************)
(* Camera, network and tool together: an online camera is alive in the     *)
(* queue and one that is gone is not, each after a bounded time.  The      *)
(* invariant says how long ago the camera can have been heard at most:     *)
(* either every message since then was lost, so few that they bridge only  *)
(* a gap, or one of them is under way that was sent within the gap.        *)
(***************************************************************************)
EXTENDS System, TLAPS

(* The silence that n lost messages in a row account for. *)
Bridged(n) == n * Silence

(* When the camera was heard, or when its row was last out of the tool's
   hands. *)
Base == IF heard[Own] > calm THEN heard[Own] ELSE calm

OnlineSpeaks == phase = "online" => -spoke <= Silence

AllLost == spoke - Base <= Bridged(missed)

UnderWay == \E d \in net : ~d.leaves /\ d.sent <= Base + Gap

Connected == phase = "online" /\ named => AllLost \/ UnderWay

AbsentInv == phase = "online" /\ row[Own] = "absent" => heard[Own] <= calm

DeadInv == row[Own] = "dead" => -heard[Own] >= MinSilence

AliveInv == row[Own] = "alive" => -heard[Own] <= MaxSilence

GoneInv ==
    phase = "gone" =>
        /\ \A d \in net : d.leaves \/ d.sent <= calm
        /\ heard[Own] <= calm + MaxDelay

(* What is under way was said by the camera, and so was what was heard. *)
SpokenInv ==
    /\ \A d \in net : d.leaves \/ d.sent <= spoke
    /\ heard[Own] <= spoke + MaxDelay

SysInv ==
    /\ TypeOK
    /\ OnlineSpeaks /\ Connected
    /\ AbsentInv /\ DeadInv /\ AliveInv
    /\ GoneInv /\ SpokenInv

-----------------------------------------------------------------------------
(* Gap is what MaxLoss lost messages and the one after them account for. *)
LEMMA Bridging ==
    /\ Gap \in Nat
    /\ \A n \in 0..MaxLoss :
          /\ Bridged(n) \in Nat
          /\ Bridged(n) + Silence = Bridged(n + 1)
          /\ Bridged(n) + Silence <= Gap
<1> USE SystemAssumption DEF Bridged, Gap
<1>1. Gap \in Nat
  OBVIOUS
<1>2. SUFFICES ASSUME NEW n \in 0..MaxLoss
               PROVE  /\ n * Silence \in Nat
                      /\ n * Silence + Silence = (n + 1) * Silence
                      /\ n * Silence + Silence <= (MaxLoss + 1) * Silence
  BY <1>1
<1>3. n * Silence \in Nat /\ n * Silence + Silence = (n + 1) * Silence
  OBVIOUS
<1>4. PICK k \in Nat : MaxLoss = n + k
  <2>1. MaxLoss - n \in Nat /\ MaxLoss = n + (MaxLoss - n)
    OBVIOUS
  <2> QED
    BY <2>1
<1>5. (n + k + 1) * Silence = n * Silence + Silence + k * Silence /\ k * Silence \in Nat
  OBVIOUS
<1> QED
  BY <1>3, <1>4, <1>5

(* A tick moves a time by one step, or not at all at the horizon. *)
LEMMA EarlierTime ==
    ASSUME NEW t \in Time
    PROVE  /\ Earlier(t) \in Time
           /\ Earlier(t) <= t /\ t - 1 <= Earlier(t)
           /\ t > -Horizon => Earlier(t) = t - 1
BY SystemAssumption DEF Earlier, Time, Horizon

(* Times are integers up to the present, and reach back behind MaxSilence. *)
LEMMA Times ==
    /\ Horizon \in Nat /\ Horizon = MaxDelay + MaxSilence + 1
    /\ \A t \in Time : t \in Int /\ t <= 0
    /\ 0 \in Time
    /\ \A t \in (-MaxDelay)..0 : t \in Int /\ t <= 0 /\ -t <= MaxDelay
BY SystemAssumption DEF Time, Horizon

-----------------------------------------------------------------------------
(* What the camera's sending comes to: nothing changes in the tool, and a
   named camera's message is put on its way or counted as missed. *)
LEMMA Sending ==
    ASSUME TypeOK, Login \/ Beat \/ Answer \/ Leave
    PROVE  /\ phase # "gone" /\ phase' \in {"online", "leaving"}
           /\ phase' = "online" => phase' = phase \/ phase = "starting"
           /\ spoke' = 0 /\ named' = named
           /\ row' = row /\ heard' = heard
           /\ calm' = IF phase' = phase THEN calm ELSE 0
           /\ \/ ~named /\ net' = net /\ missed' = missed
              \/ /\ net' = net \cup {[leaves |-> last'.type = "LOGOUT", sent |-> 0]}
                 /\ missed' = 0
              \/ /\ net' = net
                 /\ phase' = "online" => missed < MaxLoss /\ missed' = missed + 1
                 /\ phase' # "online" => missed' = missed
           /\ phase' = "online" => last'.type # "LOGOUT"
BY DEF TypeOK, Login, Beat, Answer, Leave, Transmit, toolVars,
       Cam!Login, Cam!Beat, Cam!Answer, Cam!Leave, Cam!Sends, Cam!Talks

(* What receiving comes to: a LOGOUT removes the row, another message makes
   it alive; a time is renewed for each where it counts. *)
LEMMA Receiving ==
    ASSUME TypeOK, NEW d \in net, Deliver(d) \/ DeliverCopy(d)
    PROVE  /\ phase' = phase /\ spoke' = spoke /\ named' = named /\ missed' = missed
           /\ net' \subseteq net
           /\ \/ /\ d.leaves /\ row'[Own] = "absent" /\ heard' = heard
                 /\ calm' = IF phase = "online" THEN 0 ELSE calm
              \/ /\ ~d.leaves /\ row'[Own] = "alive" /\ heard'[Own] = 0
                 /\ calm' = calm
<1>1. row \in [{Own} -> {"absent", "alive", "dead"}] /\ heard \in [{Own} -> Time]
  BY DEF TypeOK
<1>2. Receive(d) /\ UNCHANGED <<cameraVars, missed>> /\ net' \subseteq net
  BY DEF Deliver, DeliverCopy
<1> QED
  BY <1>1, <1>2 DEF Receive, cameraVars, Removed, Queue!Leave, Queue!Announce

(* Types are preserved. *)
LEMMA TypeStep == TypeOK /\ [Next]_systemVars => TypeOK'
<1> SUFFICES ASSUME TypeOK, [Next]_systemVars PROVE TypeOK'
  OBVIOUS
<1> USE SystemAssumption
<1>1. ASSUME Login \/ Beat \/ Answer \/ Leave PROVE TypeOK'
  <2>1. last' \in [type : Type \cup {"none"}, own : BOOLEAN, num : 0..(NumLimit - 1)]
    BY <1>1 DEF TypeOK, Type, Login, Beat, Answer, Leave,
                Cam!Login, Cam!Beat, Cam!Answer, Cam!Leave, Cam!Sends
  <2>2. [leaves |-> last'.type = "LOGOUT", sent |-> 0] \in Datagram
    BY DEF Datagram
  <2>3. net' \subseteq Datagram /\ missed' \in 0..MaxLoss
    BY <1>1, <2>2, Sending DEF TypeOK
  <2>4. beats' \in 0..(NumLimit - 1) /\ trailing' = trailing /\ parent' = parent
    BY <1>1 DEF TypeOK, Login, Beat, Answer, Leave,
                Cam!Login, Cam!Beat, Cam!Answer, Cam!Leave, Cam!Sends
  <2>5. spoke' \in Time /\ calm' \in Time
    BY <1>1, Sending, Times DEF TypeOK
  <2> QED
    BY <1>1, <2>1, <2>3, <2>4, <2>5, Sending DEF TypeOK
<1>2. CASE Name
  BY <1>2 DEF TypeOK, Name, Cam!Name, toolVars
<1>10. CASE Fork \/ ParentExit
  BY <1>10 DEF TypeOK, Fork, Cam!Fork, ParentExit, Cam!ParentExit, toolVars
<1>11. CASE ParentLogout
  <2>1. last' \in [type : Type \cup {"none"}, own : BOOLEAN, num : 0..(NumLimit - 1)]
    BY <1>11 DEF TypeOK, Type, ParentLogout, Cam!ParentLogout
  <2>2. [leaves |-> TRUE, sent |-> 0] \in Datagram
    BY DEF Datagram
  <2>3. net' \subseteq Datagram
    BY <1>11, <2>2 DEF TypeOK, ParentLogout
  <2> QED
    BY <1>11, <2>1, <2>3 DEF TypeOK, ParentLogout, Cam!ParentLogout, toolVars
<1>3. CASE Vanish
  BY <1>3, Times DEF TypeOK, Vanish, Cam!Vanish, toolVars
<1>4. CASE Start
  <2>1. phase' = "starting" /\ beats' = 0 /\ named' = FALSE /\ calm' = 0 /\ missed' = 0
    BY <1>4 DEF Start, Cam!Start
  <2>2. UNCHANGED <<last, spoke, trailing, parent, row, heard, net>>
    BY <1>4 DEF Start, Cam!Start, toolVars
  <2>3. 0 \in 0..(NumLimit - 1) /\ 0 \in 0..MaxLoss /\ 0 \in Time
    BY Times
  <2> QED
    BY <2>1, <2>2, <2>3 DEF TypeOK
<1>5. ASSUME NEW d \in net, Deliver(d) \/ DeliverCopy(d) PROVE TypeOK'
  <2>1. last' = NoMessage /\ beats' = beats /\ trailing' = trailing /\ parent' = parent
    BY <1>5 DEF Deliver, DeliverCopy, cameraVars
  <2>2. NoMessage \in [type : Type \cup {"none"}, own : BOOLEAN, num : 0..(NumLimit - 1)]
    BY DEF NoMessage
  <2>3. row' \in [{Own} -> {"absent", "alive", "dead"}] /\ heard' \in [{Own} -> Time]
    <3>1. Receive(d)
      BY <1>5 DEF Deliver, DeliverCopy
    <3> QED
      BY <3>1, Times DEF TypeOK, Receive, Queue!Leave, Queue!Announce
  <2>4. calm' \in Time
    BY <1>5, Receiving, Times DEF TypeOK
  <2> QED
    BY <1>5, <2>1, <2>2, <2>3, <2>4, Receiving DEF TypeOK
<1>6. CASE Renew
  BY <1>6, Times DEF TypeOK, Renew, Removed, NoMessage, Queue!Forget, cameraVars
<1>7. CASE MarkDead
  BY <1>7 DEF TypeOK, MarkDead, NoMessage, Queue!Expire, cameraVars
<1>8. CASE Tick
  <2>1. spoke' \in Time /\ calm' \in Time /\ heard' \in [{Own} -> Time]
    BY <1>8, EarlierTime DEF TypeOK, Tick
  <2>2. net' \subseteq Datagram
    BY <1>8 DEF TypeOK, Tick, Datagram
  <2> QED
    BY <1>8, <2>1, <2>2 DEF TypeOK, Tick, NoMessage
<1>9. CASE UNCHANGED systemVars
  BY <1>9 DEF TypeOK, systemVars, cameraVars, toolVars
<1> QED
  BY <1>1, <1>2, <1>3, <1>4, <1>5, <1>6, <1>7, <1>8, <1>9, <1>10, <1>11 DEF Next

(* The numbers that the invariant is about. *)
LEMMA Numbers ==
    ASSUME TypeOK
    PROVE  /\ spoke \in Int /\ spoke <= 0 /\ calm \in Int /\ calm <= 0
           /\ heard[Own] \in Int /\ heard[Own] <= 0 /\ heard[Own] \in Time
           /\ Base \in Int /\ Base <= 0 /\ calm <= Base /\ heard[Own] <= Base
           /\ \A d \in net : d.sent \in Int /\ d.sent <= 0 /\ -d.sent <= MaxDelay
           /\ \A d \in net : d.leaves \in BOOLEAN
           /\ missed \in 0..MaxLoss
           /\ Bridged(missed) \in Nat /\ Gap \in Nat
           /\ row[Own] \in {"absent", "alive", "dead"}
<1>1. heard[Own] \in Time /\ row[Own] \in {"absent", "alive", "dead"}
  BY DEF TypeOK
<1>2. \A d \in net : d.sent \in (-MaxDelay)..0 /\ d.leaves \in BOOLEAN
  BY DEF TypeOK, Datagram
<1>3. spoke \in Time /\ calm \in Time /\ missed \in 0..MaxLoss
  BY DEF TypeOK
<1> QED
  BY <1>1, <1>2, <1>3, Times, Bridging, SystemAssumption DEF Base

(* The same of those that the next state's invariant is about. *)
LEMMA NextNumbers ==
    ASSUME TypeOK'
    PROVE  /\ spoke' \in Int /\ spoke' <= 0
           /\ calm' \in Int /\ calm' <= 0
           /\ heard'[Own] \in Int /\ heard'[Own] <= 0
           /\ Base' = IF heard'[Own] > calm' THEN heard'[Own] ELSE calm'
           /\ Bridged(missed)' \in Nat
<1>1. spoke' \in Time /\ calm' \in Time /\ heard'[Own] \in Time
  BY DEF TypeOK
<1>2. missed' \in 0..MaxLoss /\ Bridged(missed)' = Bridged(missed')
  BY DEF TypeOK, Bridged
<1> QED
  BY <1>1, <1>2, Times, Bridging DEF Base

(* What a tick comes to: every time moves one step back, or stays at the
   horizon, which no camera that is online has reached. *)
LEMMA Ticking ==
    ASSUME TypeOK, Tick
    PROVE  /\ phase' = phase /\ named' = named /\ row' = row /\ missed' = missed
           /\ spoke' = Earlier(spoke) /\ calm' = Earlier(calm)
           /\ heard'[Own] = Earlier(heard[Own])
           /\ phase = "online" => spoke' = spoke - 1 /\ -spoke' <= Silence
           /\ row[Own] = "alive" => -heard'[Own] <= MaxSilence
           /\ \A d \in net : [d EXCEPT !.sent = @ - 1] \in net'
           /\ \A e \in net' : \E d \in net :
                 e = [d EXCEPT !.sent = @ - 1] /\ e.sent = d.sent - 1
           /\ \A d \in net : [d EXCEPT !.sent = @ - 1].leaves = d.leaves
                             /\ [d EXCEPT !.sent = @ - 1].sent = d.sent - 1
<1> USE SystemAssumption
<1>1. spoke \in Time /\ calm \in Time /\ heard[Own] \in Time
  BY DEF TypeOK
<1>2. heard'[Own] = Earlier(heard[Own])
  BY DEF Tick
<1>3. \A d \in net : d \in Datagram
  BY DEF TypeOK
<1>4. \A d \in net : /\ [d EXCEPT !.sent = @ - 1].leaves = d.leaves
                     /\ [d EXCEPT !.sent = @ - 1].sent = d.sent - 1
  BY <1>3 DEF Datagram
<1>5. net' = {[d EXCEPT !.sent = @ - 1] : d \in net}
  BY DEF Tick
<1>6. Silence <= Gap
  BY Bridging
<1>7. phase = "online" => spoke > -Horizon
  BY <1>1, <1>6, Times, Bridging DEF Tick
<1>8. phase = "online" => spoke' = spoke - 1 /\ -spoke' <= Silence
  BY <1>1, <1>7, EarlierTime, Times DEF Tick
<1>9. row[Own] = "alive" => -heard'[Own] <= MaxSilence
  BY <1>1, <1>2, EarlierTime, Times DEF Tick
<1> QED
  BY <1>2, <1>4, <1>5, <1>8, <1>9 DEF Tick

-----------------------------------------------------------------------------
(* The camera sends: what was missed before bridges the silence up to now,
   and the message is under way or counts as missed itself. *)
LEMMA SendStep ==
    ASSUME SysInv, TypeOK', Login \/ Beat \/ Answer \/ Leave
    PROVE  SysInv'
<1> USE SystemAssumption
<1>1. TypeOK
  BY DEF SysInv
<1>2. OnlineSpeaks'
  BY Sending, <1>1 DEF OnlineSpeaks
<1>3. Connected'
  <2> SUFFICES ASSUME phase' = "online", named' PROVE (AllLost \/ UnderWay)'
    BY DEF Connected
  <2>1. named /\ spoke' = 0
    BY Sending, <1>1
  <2>2. CASE phase # "online"
    <3>1. calm' = 0 /\ Base' = 0
      <4>1. calm' = 0
        BY <1>1, <2>2, Sending
      <4> QED
        BY <4>1, NextNumbers
    <3>2. (spoke - Base)' = 0 /\ Bridged(missed)' \in Nat
      BY <2>1, <3>1, NextNumbers
    <3> QED
      BY <3>2 DEF AllLost
  <2>3. CASE phase = "online"
    <3>1. Base' = Base /\ -spoke <= Silence /\ (AllLost \/ UnderWay)
      BY <1>1, <2>1, <2>3, Sending DEF SysInv, Connected, OnlineSpeaks, Base
    <3>2. CASE UnderWay
      <4>1. net \subseteq net'
        BY <1>1, Sending
      <4> QED
        BY <3>1, <3>2, <4>1 DEF UnderWay
    <3>3. CASE AllLost
      <4>1. 0 <= Base + Bridged(missed) + Silence
        BY <1>1, <3>1, <3>3, Numbers DEF AllLost
      <4>2. CASE /\ net' = net \cup {[leaves |-> last'.type = "LOGOUT", sent |-> 0]}
                 /\ missed' = 0
        <5>1. 0 <= Base + Gap
          BY <1>1, <4>1, Numbers, Bridging
        <5>2. [leaves |-> FALSE, sent |-> 0] \in net'
          BY <1>1, <4>2, Sending
        <5> QED
          BY <3>1, <5>1, <5>2 DEF UnderWay
      <4>3. CASE missed < MaxLoss /\ missed' = missed + 1
        <5>1. Bridged(missed) + Silence = Bridged(missed + 1) /\ Bridged(missed) \in Nat
          BY <1>1, Numbers, Bridging
        <5>2. Bridged(missed)' = Bridged(missed + 1)
          BY <4>3 DEF Bridged
        <5>3. 0 - Base <= Bridged(missed + 1)
          BY <1>1, <4>1, <5>1, Numbers
        <5> QED
          BY <2>1, <3>1, <5>2, <5>3 DEF AllLost
      <4> QED
        BY <1>1, <2>1, <4>2, <4>3, Sending
    <3> QED
      BY <3>1, <3>2, <3>3
  <2> QED
    BY <2>2, <2>3
<1>4. AbsentInv'
  BY <1>1, Sending, Numbers DEF SysInv, AbsentInv
<1>5. DeadInv' /\ AliveInv'
  BY <1>1, Sending DEF SysInv, DeadInv, AliveInv
<1>6. GoneInv'
  BY <1>1, Sending DEF GoneInv
<1>7. SpokenInv'
  <2>1. spoke' = 0 /\ heard'[Own] <= 0 + MaxDelay
    BY <1>1, Sending, NextNumbers
  <2>2. ASSUME NEW e \in net' PROVE e.sent <= 0
    BY <1>1, Sending, Numbers
  <2> QED
    BY <2>1, <2>2 DEF SpokenInv
<1> QED
  BY <1>2, <1>3, <1>4, <1>5, <1>6, <1>7 DEF SysInv

(* The camera is named, switched off or on: none of it happens online. *)
LEMMA PowerStep ==
    ASSUME SysInv, TypeOK', Name \/ Vanish \/ Start
    PROVE  SysInv'
<1> USE SystemAssumption
<1>1. /\ phase' # "online"
      /\ row' = row /\ heard' = heard /\ net' = net /\ spoke' = spoke
      /\ phase' = "gone" => calm' = 0
  BY DEF Name, Vanish, Start, Cam!Name, Cam!Vanish, Cam!Start, toolVars
<1>2. GoneInv'
  BY <1>1, Numbers DEF SysInv, GoneInv
<1> QED
  BY <1>1, <1>2 DEF SysInv, OnlineSpeaks, Connected, AbsentInv, DeadInv, AliveInv, SpokenInv

(* The first process comes and goes, and what it may send is a LOGOUT, which
   counts neither for an online camera nor for one that is gone. *)
LEMMA ParentStep ==
    ASSUME SysInv, TypeOK', Fork \/ ParentLogout \/ ParentExit
    PROVE  SysInv'
<1>1. /\ UNCHANGED <<phase, spoke, named, row, heard, missed, calm>>
      /\ net' = net \/ net' = net \cup {[leaves |-> TRUE, sent |-> 0]}
  BY DEF Fork, ParentLogout, ParentExit, Cam!Fork, Cam!ParentLogout, Cam!ParentExit, toolVars
<1>2. Base' = Base /\ Bridged(missed)' = Bridged(missed)
  BY <1>1 DEF Base, Bridged
<1>3. Connected'
  BY <1>1, <1>2 DEF SysInv, Connected, AllLost, UnderWay
<1>4. GoneInv' /\ SpokenInv'
  BY <1>1 DEF SysInv, GoneInv, SpokenInv
<1> QED
  BY <1>1, <1>3, <1>4 DEF SysInv, OnlineSpeaks, AbsentInv, DeadInv, AliveInv

(* A datagram arrives: the camera is heard now, or its row is removed now;
   when it is gone, the datagram is from before. *)
LEMMA ReceiveStep ==
    ASSUME SysInv, TypeOK', NEW d \in net, Deliver(d) \/ DeliverCopy(d)
    PROVE  SysInv'
<1> USE SystemAssumption
<1>1. TypeOK
  BY DEF SysInv
<1>2. OnlineSpeaks'
  BY <1>1, Receiving DEF SysInv, OnlineSpeaks
<1>3. Connected'
  <2> SUFFICES ASSUME phase' = "online" PROVE AllLost'
    BY DEF Connected
  <2>1. Base' = 0
    BY <1>1, Receiving, Numbers DEF Base
  <2>2. spoke' \in Int /\ spoke' <= 0 /\ Bridged(missed)' \in Nat
    BY NextNumbers
  <2>3. (spoke - Base)' <= Bridged(missed)'
    BY <2>1, <2>2
  <2> QED
    BY <2>3 DEF AllLost
<1>4. AbsentInv' /\ DeadInv' /\ AliveInv'
  BY <1>1, Receiving, Numbers DEF SysInv, AbsentInv, DeadInv, AliveInv
<1>5. GoneInv'
  <2> SUFFICES ASSUME phase' = "gone" PROVE GoneInv'
    BY DEF GoneInv
  <2>1. (d.leaves \/ d.sent <= calm) /\ calm' = calm /\ net' \subseteq net
    BY <1>1, Receiving DEF SysInv, GoneInv
  <2>2. heard'[Own] = heard[Own] \/ (heard'[Own] = 0 /\ 0 <= calm + MaxDelay)
    BY <1>1, <2>1, Receiving, Numbers
  <2>3. phase = "gone"
    BY <1>1, Receiving
  <2> QED
    BY <2>1, <2>2, <2>3 DEF SysInv, GoneInv
<1>6. SpokenInv'
  <2>1. (d.leaves \/ d.sent <= spoke) /\ spoke' = spoke /\ net' \subseteq net
    BY <1>1, Receiving DEF SysInv, SpokenInv
  <2>2. heard'[Own] = heard[Own] \/ (heard'[Own] = 0 /\ 0 <= spoke + MaxDelay)
    BY <1>1, <2>1, Receiving, Numbers
  <2> QED
    BY <2>1, <2>2 DEF SysInv, SpokenInv
<1> QED
  BY <1>2, <1>3, <1>4, <1>5, <1>6 DEF SysInv

(* The user renews the queue: for a camera that is online, all starts over. *)
LEMMA RenewStep ==
    ASSUME SysInv, TypeOK', Renew
    PROVE  SysInv'
<1> USE SystemAssumption
<1>1. /\ UNCHANGED <<phase, spoke, named, heard, net, missed>>
      /\ row'[Own] = "absent"
      /\ calm' = IF phase = "online" THEN 0 ELSE calm
  BY DEF Renew, Removed, Queue!Forget, cameraVars
<1>2. Connected'
  <2> SUFFICES ASSUME phase' = "online" PROVE AllLost'
    BY DEF Connected
  <2>1. Base' = 0
    BY <1>1, NextNumbers
  <2>2. spoke' \in Int /\ spoke' <= 0 /\ Bridged(missed)' \in Nat
    BY NextNumbers
  <2>3. (spoke - Base)' <= Bridged(missed)'
    BY <2>1, <2>2
  <2> QED
    BY <2>3 DEF AllLost
<1>3. AbsentInv'
  BY <1>1, Numbers DEF SysInv, AbsentInv
<1> QED
  BY <1>1, <1>2, <1>3 DEF SysInv, OnlineSpeaks, DeadInv, AliveInv, GoneInv, SpokenInv

(* The watch marks a row dead, after MinSilence. *)
LEMMA MarkStep ==
    ASSUME SysInv, TypeOK', MarkDead
    PROVE  SysInv'
<1> USE SystemAssumption
<1>1. /\ UNCHANGED <<phase, spoke, named, heard, net, missed, calm>>
      /\ row'[Own] # row[Own] => row'[Own] = "dead" /\ -heard[Own] >= MinSilence
  <2>1. row'[Own] # row[Own] => row'[Own] = "dead" /\ 0 - heard[Own] >= MinSilence
    BY DEF MarkDead, Queue!Expire
  <2>2. UNCHANGED <<phase, spoke, named, heard, net, missed, calm>>
    BY DEF MarkDead, Queue!Expire, cameraVars
  <2> QED
    BY <2>1, <2>2, Numbers DEF SysInv
<1>2. Connected'
  BY <1>1 DEF SysInv, Connected, AllLost, UnderWay, Base, Bridged
<1> QED
  BY <1>1, <1>2
     DEF SysInv, OnlineSpeaks, AbsentInv, DeadInv, AliveInv, GoneInv, SpokenInv

(* Time passes: differences of times stay, or shrink at the horizon. *)
LEMMA TickStep ==
    ASSUME SysInv, TypeOK', Tick
    PROVE  SysInv'
<1> USE SystemAssumption
<1>1. TypeOK
  BY DEF SysInv
<1>2. /\ Earlier(calm) <= calm /\ calm - 1 <= Earlier(calm) /\ Earlier(calm) \in Int
      /\ calm > -Horizon => Earlier(calm) = calm - 1
      /\ Earlier(heard[Own]) <= heard[Own] /\ heard[Own] - 1 <= Earlier(heard[Own])
      /\ Earlier(heard[Own]) \in Int
      /\ heard[Own] > -Horizon => Earlier(heard[Own]) = heard[Own] - 1
      /\ -Horizon <= calm /\ -Horizon <= heard[Own]
      /\ Horizon = MaxDelay + MaxSilence + 1
  BY <1>1, EarlierTime, Numbers, Times DEF TypeOK, Time
<1>3. OnlineSpeaks'
  BY <1>1, Ticking DEF OnlineSpeaks
<1>4. Connected'
  <2> SUFFICES ASSUME phase' = "online", named' PROVE (AllLost \/ UnderWay)'
    BY DEF Connected
  <2>1. spoke' = spoke - 1 /\ (AllLost \/ UnderWay)
    BY <1>1, Ticking DEF SysInv, Connected
  <2>2. Base - 1 <= Base' /\ Base' \in Int
    BY <1>1, <1>2, Ticking, Numbers DEF Base
  <2>3. ASSUME AllLost PROVE AllLost'
    <3>1. Bridged(missed)' = Bridged(missed)
      BY <1>1, Ticking DEF Bridged
    <3> QED
      BY <1>1, <2>1, <2>2, <2>3, <3>1, Numbers DEF AllLost
  <2>4. ASSUME UnderWay PROVE UnderWay'
    <3>1. PICK d \in net : ~d.leaves /\ d.sent <= Base + Gap
      BY <2>4 DEF UnderWay
    <3>2. PICK e \in net' : ~e.leaves /\ e.sent = d.sent - 1
      BY <1>1, <3>1, Ticking
    <3>3. e.sent <= Base' + Gap
      BY <1>1, <2>2, <3>1, <3>2, Numbers
    <3> QED
      BY <3>2, <3>3 DEF UnderWay
  <2> QED
    BY <2>1, <2>3, <2>4
<1>5. AbsentInv'
  BY <1>1, <1>2, Ticking, Numbers DEF SysInv, AbsentInv
<1>6. DeadInv'
  BY <1>1, <1>2, Ticking, Numbers DEF SysInv, DeadInv
<1>7. AliveInv'
  BY <1>1, Ticking DEF AliveInv
<1>8. GoneInv'
  <2> SUFFICES ASSUME phase' = "gone" PROVE GoneInv'
    BY DEF GoneInv
  <2>1. /\ \A d \in net : d.leaves \/ d.sent <= calm
        /\ heard[Own] <= calm + MaxDelay
    BY <1>1, Ticking DEF SysInv, GoneInv
  <2>2. heard'[Own] <= calm' + MaxDelay
    BY <1>1, <1>2, <2>1, Ticking, Numbers
  <2>3. ASSUME NEW e \in net' PROVE e.leaves \/ e.sent <= calm'
    <3>1. PICK d \in net : e.leaves = d.leaves /\ e.sent = d.sent - 1
      BY <1>1, Ticking
    <3> QED
      BY <1>1, <1>2, <2>1, <3>1, Ticking, Numbers
  <2> QED
    BY <2>2, <2>3 DEF GoneInv
<1>9. SpokenInv'
  <2>1. /\ \A d \in net : d.leaves \/ d.sent <= spoke
        /\ heard[Own] <= spoke + MaxDelay
    BY DEF SysInv, SpokenInv
  <2>2. /\ spoke' = Earlier(spoke) /\ Earlier(spoke) <= spoke /\ spoke - 1 <= Earlier(spoke)
        /\ Earlier(spoke) \in Int /\ (spoke > -Horizon => Earlier(spoke) = spoke - 1)
        /\ -Horizon <= spoke
    BY <1>1, EarlierTime, Numbers, Times, Ticking DEF TypeOK, Time
  <2>3. heard'[Own] <= spoke' + MaxDelay
    BY <1>1, <1>2, <2>1, <2>2, Ticking, Numbers
  <2>4. ASSUME NEW e \in net' PROVE e.leaves \/ e.sent <= spoke'
    <3>1. PICK d \in net : e.leaves = d.leaves /\ e.sent = d.sent - 1
      BY <1>1, Ticking
    <3> QED
      BY <1>1, <2>1, <2>2, <3>1, Ticking, Numbers
  <2> QED
    BY <2>3, <2>4 DEF SpokenInv
<1> QED
  BY <1>3, <1>4, <1>5, <1>6, <1>7, <1>8, <1>9 DEF SysInv

-----------------------------------------------------------------------------
(* The composition starts in the invariant. *)
LEMMA SysInvInit == Init => SysInv
<1> SUFFICES ASSUME Init PROVE SysInv
  OBVIOUS
<1> USE SystemAssumption
<1>1. /\ phase = "starting" /\ spoke = 0 /\ beats = 0 /\ named = FALSE
      /\ trailing \in BOOLEAN /\ parent = FALSE /\ calm = 0 /\ net = {} /\ missed = 0
      /\ last = NoMessage
  BY DEF Init, Cam!CameraInit
<1>2. row = [m \in {Own} |-> "absent"] /\ heard = [m \in {Own} |-> 0]
  BY DEF Init, Queue!QueueInit
<1>3. NoMessage \in [type : Type \cup {"none"}, own : BOOLEAN, num : 0..(NumLimit - 1)]
  BY DEF NoMessage
<1>4. TypeOK
  <2>1. 0 \in 0..(NumLimit - 1) /\ 0 \in 0..MaxLoss /\ 0 \in Time
    BY Times
  <2> QED
    BY <1>1, <1>2, <1>3, <2>1 DEF TypeOK
<1>5. row[Own] = "absent" /\ heard[Own] = 0
  BY <1>2
<1> QED
  BY <1>1, <1>4, <1>5
     DEF SysInv, OnlineSpeaks, Connected, AbsentInv, DeadInv, AliveInv, GoneInv, SpokenInv

(* Each step keeps the invariant. *)
LEMMA SysInvStep == SysInv /\ [Next]_systemVars => SysInv'
<1> SUFFICES ASSUME SysInv, [Next]_systemVars PROVE SysInv'
  OBVIOUS
<1>1. TypeOK'
  BY TypeStep DEF SysInv
<1>2. CASE Login \/ Beat \/ Answer \/ Leave
  BY <1>1, <1>2, SendStep
<1>3. CASE Name \/ Vanish \/ Start
  BY <1>1, <1>3, PowerStep
<1>9. CASE Fork \/ ParentLogout \/ ParentExit
  BY <1>1, <1>9, ParentStep
<1>4. CASE \E d \in net : Deliver(d) \/ DeliverCopy(d)
  BY <1>1, <1>4, ReceiveStep
<1>5. CASE Renew
  BY <1>1, <1>5, RenewStep
<1>6. CASE MarkDead
  BY <1>1, <1>6, MarkStep
<1>7. CASE Tick
  BY <1>1, <1>7, TickStep
<1>8. CASE UNCHANGED systemVars
  <2>1. UNCHANGED <<phase, spoke, named, row, heard, net, missed, calm>>
    BY <1>8 DEF systemVars, cameraVars, toolVars
  <2> QED
    BY <1>1, <2>1 DEF SysInv, OnlineSpeaks, Connected, AllLost, UnderWay, Base,
                      Bridged, AbsentInv, DeadInv, AliveInv, GoneInv, SpokenInv
<1> QED
  BY <1>2, <1>3, <1>4, <1>5, <1>6, <1>7, <1>8, <1>9 DEF Next

(* How long ago an online camera was heard at most. *)
LEMMA HeardWithin ==
    ASSUME SysInv, phase = "online", named
    PROVE  -Base <= Gap + MaxDelay
<1> USE SystemAssumption
<1>1. TypeOK /\ -spoke <= Silence /\ (AllLost \/ UnderWay)
  BY DEF SysInv, OnlineSpeaks, Connected
<1>2. CASE AllLost
  BY <1>1, <1>2, Numbers, Bridging DEF AllLost
<1>3. CASE UnderWay
  BY <1>1, <1>3, Numbers DEF UnderWay
<1> QED
  BY <1>1, <1>2, <1>3

(* The composition keeps the invariant. *)
LEMMA SysInvAlways == Spec => []SysInv
BY SysInvInit, SysInvStep, PTL DEF Spec

(* Every variable of the composition keeps to its type; the times do not
   reach back behind the horizon, so the system has finitely many states. *)
THEOREM SystemTypes == Spec => []TypeOK
<1>1. SysInv => TypeOK
  BY DEF SysInv
<1> QED
  BY <1>1, SysInvAlways, PTL

(* Whatever the network loses, delays, reorders or copies within its bounds,
   a camera that has been online for long enough is alive in the queue of
   the tool: the watch never declares it dead, and a LOGOUT of its former
   life does not keep it out. *)
THEOREM OnlineCamerasAreAlive == Spec => []OnlineIsAlive
<1>1. SysInv => OnlineIsAlive
  <2> SUFFICES ASSUME SysInv, phase = "online", named, -calm > Gap + MaxDelay
               PROVE  row[Own] = "alive"
    BY DEF OnlineIsAlive
  <2> USE SystemAssumption
  <2>1. TypeOK /\ -Base <= Gap + MaxDelay
    BY HeardWithin DEF SysInv
  <2>2. heard[Own] > calm /\ -heard[Own] <= Gap + MaxDelay
    BY <2>1, Numbers DEF Base
  <2>3. row[Own] # "absent"
    BY <2>1, <2>2, Numbers DEF SysInv, AbsentInv
  <2>4. row[Own] # "dead"
    BY <2>1, <2>2, Numbers DEF SysInv, DeadInv
  <2> QED
    BY <2>1, <2>3, <2>4, Numbers
<1> QED
  BY <1>1, SysInvAlways, PTL

(* A camera that is switched off, with its LOGOUT lost, late or never sent,
   is not alive in the queue after the longest delay and silence. *)
THEOREM GoneCamerasAreNoticed == Spec => []GoneIsNoticed
<1>1. SysInv => GoneIsNoticed
  <2> SUFFICES ASSUME SysInv, phase = "gone", -calm > MaxDelay + MaxSilence,
                      row[Own] = "alive"
               PROVE  FALSE
    BY DEF GoneIsNoticed
  <2> USE SystemAssumption
  <2>1. heard[Own] <= calm + MaxDelay /\ -heard[Own] <= MaxSilence /\ TypeOK
    BY DEF SysInv, GoneInv, AliveInv
  <2> QED
    BY <2>1, Numbers
<1> QED
  BY <1>1, SysInvAlways, PTL

(* Who is alive in the queue has spoken itself, and not long ago, in whatever
   phase it is and whatever its first process and the network did since. *)
THEOREM AliveCamerasHaveSpoken == Spec => []AliveHasSpoken
<1>1. SysInv => AliveHasSpoken
  <2> SUFFICES ASSUME SysInv, row[Own] = "alive"
               PROVE  -spoke <= MaxDelay + MaxSilence
    BY DEF AliveHasSpoken
  <2>1. heard[Own] <= spoke + MaxDelay /\ -heard[Own] <= MaxSilence /\ TypeOK
    BY DEF SysInv, SpokenInv, AliveInv
  <2> QED
    BY <2>1, Numbers, SystemAssumption
<1> QED
  BY <1>1, SysInvAlways, PTL

=============================================================================
