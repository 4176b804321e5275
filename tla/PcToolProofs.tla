---------------------------- MODULE PcToolProofs ----------------------------
(***************************************************************************)
(* What holds of the PC tool for every set of blocks, cameras and periods. *)
(***************************************************************************)
EXTENDS PcTool, IpcamListProofs

(* What a step of the tool is to the list: one of its calls, or the end of a
   process whose stack a login has overrun. *)
LEMMA ToolListStep ==
    ASSUME [Next]_toolVars
    PROVE  [ListNext]_listVars \/ StopsAs("crashed")
  <1>1. ASSUME NEW m \in Mac, NEW i \in Info, NEW buf \in Buffers,
               mode = "running", Announce(m, i, buf)
        PROVE  ListNext
    BY <1>1 DEF Announce, ListNext, InsertNodulp
  <1>2. CASE LoginOverruns
    BY <1>2 DEF LoginOverruns
  <1>3. ASSUME NEW m \in Mac, NEW i \in Info, NEW buf \in Buffers,
               Login(m, i, buf) \/ Heartbeat(m, i, buf) \/ AckAlive(m, i, buf)
        PROVE  ListNext
    BY <1>1, <1>3 DEF Login, Heartbeat, AckAlive
  <1>5. ASSUME NEW m \in Mac, NEW buf \in Buffers, Logout(m, buf)
        PROVE  ListNext
    BY <1>5 DEF Logout, ListNext
  <1>6. ASSUME NEW t \in timers, WatchClear(t) \/ WatchTest(t) \/ ListLater(t)
        PROVE  ListNext
    BY <1>6 DEF WatchClear, WatchTest, ListLater, ListNext
  <1>7. CASE CmdRenew
    BY <1>7 DEF CmdRenew, ListNext
  <1>8. CASE CmdList
    BY <1>8 DEF CmdList, ListNext
  <1>9. CASE CmdQuit
    BY <1>9 DEF CmdQuit, ListNext
  <1>10. CASE CmdSearch \/ Tick \/ UNCHANGED toolVars
    BY <1>10 DEF CmdSearch, Tick, toolVars, listVars
  <1> QED
    BY <1>2, <1>3, <1>5, <1>6, <1>7, <1>8, <1>9, <1>10 DEF Next, NextButLogout

(* The list keeps its types and has no two rows of one camera, whatever the
   tool does. *)
LEMMA ToolKeepsList ==
    ASSUME ListTypeOK, NoDuplicateRows, [Next]_toolVars
    PROVE  ListTypeOK' /\ NoDuplicateRows'
  <1>1. CASE [ListNext]_listVars
    BY <1>1, ListStep
  <1>2. CASE StopsAs("crashed")
    BY <1>2 DEF StopsAs, ListTypeOK, Modes, NoDuplicateRows, Listed, InUse
  <1> QED
    BY <1>1, <1>2, ToolListStep

-----------------------------------------------------------------------------
(* Type correctness *)

LEMMA NewTimerType ==
    ASSUME TypeOK, NEW p \in Procs, NEW d \in Nat
    PROVE  NewTimer(p, d) \in Timer
  BY DEF TypeOK, NewTimer, Timer

LEMMA TypeStart == ASSUME Init PROVE TypeOK
  <1>1. timers \subseteq Timer
    BY PeriodAssumption DEF Init, Timer, Procs
  <1> QED
    BY <1>1, ListStart DEF Init, TypeOK

LEMMA TypeStep ==
    ASSUME TypeOK, NoDuplicateRows, [Next]_toolVars
    PROVE  TypeOK'
  <1>0. ListTypeOK'
    BY ToolKeepsList DEF TypeOK
  <1>1. ASSUME NEW m \in Mac, NEW i \in Info, NEW buf, Announce(m, i, buf)
        PROVE  TypeOK'
    <2>1. flag' \in [Cell -> 0..3]
      BY <1>1 DEF Announce, TypeOK, MarkHeard
    <2>2. info' \in [Cell -> Info]
      BY <1>1 DEF Announce, TypeOK
    <2>3. heard' \in [Mac -> Nat]
      BY <1>1 DEF Announce, TypeOK
    <2> QED
      BY <1>0, <1>1, <2>1, <2>2, <2>3 DEF Announce, TypeOK
  <1>2. ASSUME NEW m \in Mac, NEW buf, Logout(m, buf)
        PROVE  TypeOK'
    BY <1>0, <1>2 DEF Logout, TypeOK
  <1>3. ASSUME NEW t \in timers, WatchClear(t)
        PROVE  TypeOK'
    <2>1. NewTimer("test", CheckCycle) \in Timer
      BY NewTimerType, PeriodAssumption DEF Procs
    <2>2. flag' \in [Cell -> 0..3]
      BY <1>3 DEF WatchClear, TypeOK, MarkUnheard
    <2> QED
      BY <1>0, <1>3, <2>1, <2>2 DEF WatchClear, TypeOK
  <1>4. ASSUME NEW t \in timers, WatchTest(t)
        PROVE  TypeOK'
    <2>1. [t EXCEPT !.when = now + CheckCycle] \in Timer
      BY PeriodAssumption DEF TypeOK, Timer
    <2>2. flag' \in [Cell -> 0..3]
      BY <1>4 DEF WatchTest, TypeOK, MarkUnheard, DropUnheard
    <2> QED
      BY <1>0, <1>4, <2>1, <2>2 DEF WatchTest, TypeOK
  <1>5. ASSUME NEW t \in timers, ListLater(t)
        PROVE  TypeOK'
    BY <1>0, <1>5 DEF ListLater, TypeOK
  <1>6. CASE CmdSearch \/ CmdRenew
    <2>1. NewTimer("list", ListDelay) \in Timer
      BY NewTimerType, PeriodAssumption DEF Procs
    <2> QED
      BY <1>0, <1>6, <2>1 DEF CmdSearch, CmdRenew, TypeOK
  <1>7. CASE CmdList \/ CmdQuit \/ LoginOverruns \/ UNCHANGED toolVars
    BY <1>0, <1>7 DEF CmdList, CmdQuit, LoginOverruns, toolVars, TypeOK
  <1>8. CASE Tick
    BY <1>0, <1>8 DEF Tick, TypeOK
  <1> QED
    BY <1>1, <1>2, <1>3, <1>4, <1>5, <1>6, <1>7, <1>8
       DEF Next, NextButLogout, Login, Heartbeat, AckAlive

(* The tool's variables keep their types, and its list never has two rows of
   one camera. *)
THEOREM TypeCorrect == Spec => []TypeOK /\ []NoDuplicateRows
  <1>1. Init => TypeOK /\ NoDuplicateRows
    BY TypeStart, ListStart DEF Init
  <1>2. TypeOK /\ NoDuplicateRows /\ [Next]_toolVars => TypeOK' /\ NoDuplicateRows'
    BY TypeStep, ToolKeepsList DEF TypeOK
  <1> QED
    BY <1>1, <1>2, PTL DEF Spec

-----------------------------------------------------------------------------
(* The watch timer: clear hands over to test, and test renews itself. *)

LEMMA WatchStep ==
    ASSUME TypeOK, OneWatchTimer, [Next]_toolVars
    PROVE  OneWatchTimer'
  <1>1. ASSUME NEW t \in timers, WatchClear(t)
        PROVE  OneWatchTimer'
    <2>1. t.proc \in WatchProcs
      BY <1>1 DEF WatchClear, WatchProcs
    <2>2. NewTimer("test", CheckCycle).proc \in WatchProcs
      BY DEF NewTimer, WatchProcs
    <2> QED
      BY <1>1, <2>1, <2>2 DEF WatchClear, OneWatchTimer
  <1>2. ASSUME NEW t \in timers, WatchTest(t)
        PROVE  OneWatchTimer'
    <2>1. t.proc \in WatchProcs
      BY <1>2 DEF WatchTest, WatchProcs
    <2>2. [t EXCEPT !.when = now + CheckCycle].proc \in WatchProcs
      BY <2>1 DEF TypeOK, Timer
    <2> QED
      BY <1>2, <2>1, <2>2 DEF WatchTest, OneWatchTimer
  <1>3. ASSUME NEW t \in timers, ListLater(t)
        PROVE  OneWatchTimer'
    <2>1. t.proc \notin WatchProcs
      BY <1>3 DEF ListLater, WatchProcs
    <2> QED
      BY <1>3, <2>1 DEF ListLater, OneWatchTimer
  <1>4. CASE CmdSearch \/ CmdRenew
    <2>1. NewTimer("list", ListDelay).proc \notin WatchProcs
      BY DEF NewTimer, WatchProcs
    <2> QED
      BY <1>4, <2>1 DEF CmdSearch, CmdRenew, OneWatchTimer
  <1>5. CASE UNCHANGED timers
    BY <1>5 DEF OneWatchTimer
  <1> QED
    BY <1>1, <1>2, <1>3, <1>4, <1>5
       DEF Next, NextButLogout, Login, LoginOverruns, Heartbeat, AckAlive, Announce, Logout,
           CmdList, CmdQuit, Tick, toolVars

(* The watch never stops and never doubles. *)
THEOREM WatchNeverStops == Spec => []OneWatchTimer
  <1>1. Init => OneWatchTimer
    BY DEF Init, OneWatchTimer, WatchProcs
  <1>2. TypeOK /\ OneWatchTimer /\ [Next]_toolVars => OneWatchTimer'
    BY WatchStep
  <1> QED
    BY <1>1, <1>2, TypeCorrect, PTL DEF Spec

-----------------------------------------------------------------------------
(* How long ago the camera of a row was heard.  With w the time of the watch
   timer, the last marking was at w - CheckCycle: a row without the mark was
   heard since then, a marked row that is online was heard in the cycle
   before, which the lateness of one timer procedure may lengthen, and a
   marked row that is offline was not heard in that cycle. *)
RowTiming(c, w) ==
    /\ heard[mac[c]] <= now
    /\ flag[c] # 0
    /\ flag[c] = 1 => heard[mac[c]] >= w - CheckCycle
    /\ flag[c] = 3 => /\ heard[mac[c]] >= w - 2 * CheckCycle - MaxLate
                      /\ heard[mac[c]] <= w - CheckCycle
    /\ flag[c] = 2 => heard[mac[c]] <= w - 2 * CheckCycle

WatchTiming(w) ==
    /\ w.when - CheckCycle <= now
    /\ now <= w.when + MaxLate
    /\ w.proc = "clear" => \A c \in Listed : flag[c] = 1
    /\ \A c \in Listed : RowTiming(c, w.when)

TimingInv ==
    mode = "running" => \A w \in timers : w.proc \in WatchProcs => WatchTiming(w)

(* The row of a camera that announced itself is listed, and is its only row. *)
LEMMA FoundRow ==
    ASSUME ListTypeOK, NEW c \in Cell, NEW m \in Mac, NEW buf \in Buffers,
           FoundIn(c, m, buf)
    PROVE  c \in Listed /\ mac[c] = m
  <1>1. mac[c] = m
    BY DEF FoundIn, Search, Exit, Rows
  <1>2. c \in Reach(next)
    BY ChainInReach, BufferReach, Cell \ Rows(m) \in SUBSET Cell DEF FoundIn, Search
  <1>3. m # NoMac
    BY MacAssumption, SMT DEF NoMac
  <1> QED
    BY <1>1, <1>2, <1>3 DEF Listed, InUse

LEMMA ListedRow == ASSUME TypeOK, NEW c \in Listed PROVE c \in Cell /\ mac[c] \in Mac
  BY DEF Listed, InUse, TypeOK, ListTypeOK

(* A message of a camera: its row is unmarked and it was heard now; the rows
   of the others are as before. *)
LEMMA AnnounceTiming ==
    ASSUME TypeOK, NoDuplicateRows, TimingInv, mode = "running",
           NEW m \in Mac, NEW i \in Info, NEW buf \in Buffers, Announce(m, i, buf),
           mode' = "running"
    PROVE  TimingInv'
  <1> SUFFICES ASSUME NEW w \in timers, w.proc \in WatchProcs
               PROVE  WatchTiming(w)'
    BY DEF Announce, TimingInv
  <1>1. WatchTiming(w)
    BY DEF TimingInv
  <1>2. /\ heard' = [heard EXCEPT ![m] = now]
        /\ now' = now
    BY DEF Announce
  <1>3. w.when \in Nat /\ now \in Nat /\ CheckCycle \in Nat
    BY PeriodAssumption DEF TypeOK, Timer
  <1>4. PICK c \in Cell :
          /\ flag' = [flag EXCEPT ![c] = 1]
          /\ mac'[c] = m
          /\ \A d \in Listed' : d # c => d \in Listed /\ mac'[d] = mac[d] /\ mac[d] # m
    <2>0. ~SearchFails(m, buf)
      BY DEF SearchFails, StopsAs, Outcome
    <2>1. PICK c \in Cell : \/ FoundIn(c, m, buf) /\ flag' = [flag EXCEPT ![c] = 1]
                            \/ InsertNode(c, m, buf) /\ flag' = [flag EXCEPT ![c] = 1]
      BY <2>0 DEF Announce, MarkHeard
    <2>2. CASE FoundIn(c, m, buf) /\ flag' = [flag EXCEPT ![c] = 1]
      <3>1. c \in Listed /\ mac[c] = m
        BY <2>2, FoundRow DEF TypeOK
      <3>2. Listed' \subseteq Listed /\ mac' = mac
        BY <2>2, FoundInListed DEF TypeOK
      <3> QED
        BY <2>2, <3>1, <3>2 DEF NoDuplicateRows
    <2>3. CASE InsertNode(c, m, buf) /\ flag' = [flag EXCEPT ![c] = 1]
      <3>1. /\ mac' = [mac EXCEPT ![c] = m]
            /\ \A d \in Listed' : d # c => d \in Listed /\ mac[d] # m
        BY <2>3, InsertNodeListed DEF TypeOK
      <3>2. mac'[c] = m /\ \A d \in Listed : d # c => mac'[d] = mac[d]
        BY <3>1, ListedRow DEF TypeOK, ListTypeOK
      <3> QED
        BY <2>3, <3>1, <3>2
    <2> QED
      BY <2>1, <2>2, <2>3
  <1>5. ASSUME NEW d \in Listed', d # c
        PROVE  RowTiming(d, w.when)' /\ flag'[d] = flag[d]
    <2>1. d \in Listed /\ mac'[d] = mac[d] /\ mac[d] # m /\ d \in Cell /\ mac[d] \in Mac
      BY <1>4, <1>5, ListedRow
    <2>2. flag'[d] = flag[d] /\ heard'[mac'[d]] = heard[mac[d]]
      BY <1>2, <1>4, <1>5, <2>1 DEF TypeOK
    <2> QED
      BY <1>1, <1>2, <2>1, <2>2 DEF WatchTiming, RowTiming
  <1>6. flag'[c] = 1 /\ heard'[mac'[c]] = now
    BY <1>2, <1>4 DEF TypeOK
  <1>7. RowTiming(c, w.when)'
    BY <1>1, <1>2, <1>3, <1>6 DEF WatchTiming, RowTiming
  <1>8. \A d \in Listed' : RowTiming(d, w.when)'
    BY <1>5, <1>7
  <1>9. w.proc = "clear" => \A d \in Listed' : flag'[d] = 1
    <2>1. ASSUME w.proc = "clear", NEW d \in Listed'
          PROVE  flag'[d] = 1
      BY <1>1, <1>4, <1>5, <1>6, <2>1 DEF WatchTiming
    <2> QED
      BY <2>1
  <1> QED
    BY <1>1, <1>2, <1>8, <1>9 DEF WatchTiming

(* A step that lists no new row and changes neither the rows' flags nor what
   was heard keeps their timing. *)
LEMMA QuietTiming ==
    ASSUME TypeOK, TimingInv, mode = "running",
           \A d \in Listed' : d \in Listed /\ mac'[d] = mac[d],
           flag' = flag, heard' = heard, now' = now,
           \A w \in timers' : w.proc \in WatchProcs => w \in timers
    PROVE  TimingInv'
  <1> SUFFICES ASSUME NEW w \in timers', w.proc \in WatchProcs
               PROVE  WatchTiming(w)'
    BY DEF TimingInv
  <1>1. WatchTiming(w)
    BY DEF TimingInv
  <1> QED
    BY <1>1 DEF WatchTiming, RowTiming

(* watch_ipcam_link_clear marks the rows, all of them unmarked. *)
LEMMA ClearTiming ==
    ASSUME TypeOK, OneWatchTimer, TimingInv, NEW t \in timers, WatchClear(t)
    PROVE  TimingInv'
  <1>0. PICK n : n = NewTimer("test", CheckCycle)
    OBVIOUS
  <1>1. /\ WatchTiming(t)
        /\ t.when <= now
        /\ t.proc = "clear"
    BY DEF TimingInv, WatchClear, WatchProcs, Due
  <1>2. \A w \in timers' : w.proc \in WatchProcs => w = n
    BY <1>0, <1>1 DEF OneWatchTimer, WatchClear, WatchProcs
  <1>3. n.when = now + CheckCycle /\ n.proc = "test"
    BY <1>0 DEF NewTimer
  <1>4. /\ t.when \in Nat /\ now \in Nat /\ CheckCycle \in Nat \ {0} /\ MaxLate \in Nat
        /\ now' = now /\ heard' = heard /\ mac' = mac /\ Listed' = Listed
    BY PeriodAssumption DEF TypeOK, Timer, WatchClear, VisitAll, Listed, InUse
  <1>5. ASSUME NEW c \in Listed
        PROVE  RowTiming(c, n.when)'
    <2>1. c \in Cell /\ c \in Reach(next) /\ heard[mac[c]] \in Nat
      BY ListedRow DEF Listed, TypeOK
    <2>2. flag[c] = 1 /\ RowTiming(c, t.when)
      BY <1>1, <1>5 DEF WatchTiming
    <2>3. flag'[c] = 3
      BY <2>1, <2>2 DEF WatchClear, MarkUnheard
    <2> QED
      BY <1>1, <1>3, <1>4, <2>1, <2>2, <2>3 DEF RowTiming, WatchTiming
  <1>6. WatchTiming(n)'
    BY <1>3, <1>4, <1>5 DEF WatchTiming
  <1> QED
    BY <1>2, <1>6 DEF TimingInv

(* watch_ipcam_link_test takes marked rows offline and marks the others. *)
LEMMA TestTiming ==
    ASSUME TypeOK, OneWatchTimer, TimingInv, NEW t \in timers, WatchTest(t)
    PROVE  TimingInv'
  <1>0. PICK n : n = [t EXCEPT !.when = now + CheckCycle]
    OBVIOUS
  <1>1. /\ WatchTiming(t)
        /\ t.when <= now
        /\ t.proc = "test"
        /\ t \in Timer
    BY DEF TimingInv, WatchTest, WatchProcs, Due, TypeOK
  <1>2. \A w \in timers' : w.proc \in WatchProcs => w = n
    BY <1>0, <1>1 DEF OneWatchTimer, WatchTest, WatchProcs
  <1>3. n.when = now + CheckCycle /\ n.proc = "test"
    BY <1>0, <1>1 DEF Timer
  <1>4. /\ t.when \in Nat /\ now \in Nat /\ CheckCycle \in Nat \ {0} /\ MaxLate \in Nat
        /\ now' = now /\ heard' = heard /\ mac' = mac /\ Listed' = Listed
    BY <1>1, PeriodAssumption DEF TypeOK, Timer, WatchTest, VisitAll, Listed, InUse
  <1>5. ASSUME NEW c \in Listed
        PROVE  RowTiming(c, n.when)'
    <2>1. c \in Cell /\ c \in Reach(next) /\ heard[mac[c]] \in Nat /\ flag[c] \in 0..3
      BY ListedRow DEF Listed, TypeOK
    <2>2. RowTiming(c, t.when)
      BY <1>1, <1>5 DEF WatchTiming
    <2>3. flag'[c] = MarkUnheard(DropUnheard(flag[c]))
      BY <2>1 DEF WatchTest
    <2>4. CASE flag[c] = 1
      <3>1. flag'[c] = 3
        BY <2>3, <2>4 DEF MarkUnheard, DropUnheard
      <3> QED
        BY <1>1, <1>3, <1>4, <2>1, <2>2, <2>4, <3>1 DEF RowTiming, WatchTiming
    <2>5. CASE flag[c] \in {2, 3}
      <3>1. flag'[c] = 2
        BY <2>3, <2>5 DEF MarkUnheard, DropUnheard
      <3> QED
        BY <1>1, <1>3, <1>4, <2>1, <2>2, <2>5, <3>1 DEF RowTiming, WatchTiming
    <2> QED
      BY <2>1, <2>2, <2>4, <2>5 DEF RowTiming
  <1>6. WatchTiming(n)'
    BY <1>3, <1>4, <1>5 DEF WatchTiming
  <1> QED
    BY <1>2, <1>6 DEF TimingInv

(* Time passes no further than MaxLate beyond the watch timer. *)
LEMMA TickTiming ==
    ASSUME TypeOK, TimingInv, Tick
    PROVE  TimingInv'
  <1> SUFFICES ASSUME NEW w \in timers, w.proc \in WatchProcs
               PROVE  WatchTiming(w)'
    BY DEF TimingInv, Tick
  <1>1. WatchTiming(w)
    BY DEF TimingInv, Tick
  <1>2. /\ now \in Nat /\ now' = now + 1 /\ w.when \in Nat /\ CheckCycle \in Nat
        /\ now + 1 <= w.when + MaxLate
        /\ heard' = heard /\ mac' = mac /\ flag' = flag /\ Listed' = Listed
    BY PeriodAssumption DEF TypeOK, Timer, Tick, Listed, InUse
  <1>3. ASSUME NEW c \in Listed
        PROVE  RowTiming(c, w.when)'
    <2>1. heard[mac[c]] \in Nat
      BY ListedRow DEF TypeOK
    <2> QED
      BY <1>1, <1>2, <1>3, <2>1 DEF WatchTiming, RowTiming
  <1> QED
    BY <1>1, <1>2, <1>3 DEF WatchTiming

LEMMA TimingStart == ASSUME Init PROVE TimingInv
  <1>1. Listed = {}
    BY DEF Init, ListInit, Listed, InUse
  <1> QED
    BY <1>1, PeriodAssumption DEF Init, TimingInv, WatchTiming

LEMMA TimingStep ==
    ASSUME TypeOK, NoDuplicateRows, OneWatchTimer, TimingInv, [Next]_toolVars
    PROVE  TimingInv'
  <1>1. CASE LoginOverruns
    BY <1>1 DEF LoginOverruns, StopsAs, TimingInv
  <1>2. ASSUME NEW m \in Mac, NEW i \in Info, NEW buf \in Buffers,
               Login(m, i, buf) \/ Heartbeat(m, i, buf) \/ AckAlive(m, i, buf)
        PROVE  TimingInv'
    BY <1>2, AnnounceTiming DEF Login, Heartbeat, AckAlive, TimingInv
  <1>3. ASSUME NEW m \in Mac, NEW buf \in Buffers, Logout(m, buf)
        PROVE  TimingInv'
    <2>1. \A d \in Listed' : d \in Listed /\ mac'[d] = mac[d]
      BY <1>3, DeleteByMacListed DEF Logout, TypeOK
    <2> QED
      BY <1>3, <2>1, QuietTiming DEF Logout
  <1>4. ASSUME NEW t \in timers, WatchClear(t)
        PROVE  TimingInv'
    BY <1>4, ClearTiming
  <1>5. ASSUME NEW t \in timers, WatchTest(t)
        PROVE  TimingInv'
    BY <1>5, TestTiming
  <1>6. ASSUME NEW t \in timers, ListLater(t)
        PROVE  TimingInv'
    <2>1. \A d \in Listed' : d \in Listed /\ mac'[d] = mac[d]
      BY <1>6 DEF ListLater, VisitAll, Listed, InUse
    <2> QED
      BY <1>6, <2>1, QuietTiming DEF ListLater
  <1>7. CASE CmdSearch
    <2>1. \A d \in Listed' : d \in Listed /\ mac'[d] = mac[d]
      BY <1>7 DEF CmdSearch, Listed, InUse
    <2>2. NewTimer("list", ListDelay).proc \notin WatchProcs
      BY DEF NewTimer, WatchProcs
    <2> QED
      BY <1>7, <2>1, <2>2, QuietTiming DEF CmdSearch
  <1>8. CASE CmdRenew
    <2>1. \A d \in Listed' : d \in Listed /\ mac'[d] = mac[d]
      BY <1>8, DeleteAllListed DEF CmdRenew, TypeOK
    <2>2. NewTimer("list", ListDelay).proc \notin WatchProcs
      BY DEF NewTimer, WatchProcs
    <2> QED
      BY <1>8, <2>1, <2>2, QuietTiming DEF CmdRenew
  <1>9. CASE CmdList \/ CmdQuit
    <2>1. \A d \in Listed' : d \in Listed /\ mac'[d] = mac[d]
      BY <1>9 DEF CmdList, CmdQuit, VisitAll, FreeLinkAndExit, StopsAs, Listed, InUse
    <2> QED
      BY <1>9, <2>1, QuietTiming DEF CmdList, CmdQuit
  <1>10. CASE Tick
    BY <1>10, TickTiming
  <1>11. CASE UNCHANGED toolVars
    BY <1>11 DEF toolVars, TimingInv, WatchTiming, RowTiming, Listed, InUse
  <1> QED
    BY <1>1, <1>2, <1>3, <1>4, <1>5, <1>6, <1>7, <1>8, <1>9, <1>10, <1>11
       DEF Next, NextButLogout

(* The timing of the watch timer and its rows gives what a listing shows. *)
LEMMA TimingGivesDeath ==
    ASSUME TypeOK, OneWatchTimer, TimingInv
    PROVE  NoFalseDeath /\ DeathNoticed
  <1> SUFFICES ASSUME mode = "running", NEW c \in Listed
               PROVE  /\ ~Online(flag[c]) => now - heard[mac[c]] >= CheckCycle
                      /\ Online(flag[c]) =>
                            now - heard[mac[c]] <= 2 * (CheckCycle + MaxLate)
    BY DEF NoFalseDeath, DeathNoticed
  <1>1. PICK w \in timers : w.proc \in WatchProcs
    BY DEF OneWatchTimer
  <1>2. WatchTiming(w) /\ RowTiming(c, w.when)
    BY <1>1 DEF TimingInv, WatchTiming
  <1>3. /\ w.when \in Nat /\ now \in Nat /\ CheckCycle \in Nat /\ MaxLate \in Nat
        /\ heard[mac[c]] \in Nat /\ flag[c] \in 0..3
    BY PeriodAssumption, ListedRow DEF TypeOK, Timer
  <1>4. CASE flag[c] \in {1, 3}
    BY <1>2, <1>3, <1>4 DEF WatchTiming, RowTiming, Online
  <1>5. CASE flag[c] = 2
    BY <1>2, <1>3, <1>5 DEF WatchTiming, RowTiming, Online
  <1> QED
    BY <1>2, <1>3, <1>4, <1>5 DEF RowTiming

(* A camera is shown offline after a whole silent cycle and not before, and
   at the latest after two cycles and the lateness of two timer procedures:
   for any number of cameras, any periods and any traffic. *)
THEOREM DeathIsTimely == Spec => []NoFalseDeath /\ []DeathNoticed
  <1>1. Init => TimingInv
    BY TimingStart
  <1>2. TypeOK /\ NoDuplicateRows /\ OneWatchTimer /\ TimingInv /\ [Next]_toolVars
            => TimingInv'
    BY TimingStep
  <1>3. TypeOK /\ OneWatchTimer /\ TimingInv => NoFalseDeath /\ DeathNoticed
    BY TimingGivesDeath
  <1> QED
    BY <1>1, <1>2, <1>3, TypeCorrect, WatchNeverStops, PTL DEF Spec

-----------------------------------------------------------------------------
(* With the messages that the tool was meant for the list stays sound. *)

LEMMA MeantIsNext == ASSUME [NextMeant]_toolVars PROVE [Next]_toolVars
  BY DEF NextMeant, Next, LogoutOfNewest

(* What each kind of step does to a sound list. *)
LEMMA AnnounceSound ==
    ASSUME TypeOK, TypeOK', SoundInv, mode = "running",
           NEW m \in Mac, NEW i \in Info, NEW buf \in Buffers, Announce(m, i, buf)
    PROVE  /\ SoundInv' /\ mode' = "running"
           /\ heard' = [heard EXCEPT ![m] = now] /\ now' = now
           /\ \E c \in Cell :
                 /\ flag' = [flag EXCEPT ![c] = 1]
                 /\ mac' = [mac EXCEPT ![c] = m]
                 /\ Listed' = Listed \cup {c}
                 /\ c \in Listed => mac[c] = m
  <1>0. WithBuffer(buf) = next /\ ~SearchFails(m, buf) /\ ListTypeOK' /\ ListTypeOK
    BY SoundBuffer, SoundWalks DEF SoundInv, TypeOK
  <1>1. ASSUME NEW c \in Cell, FoundIn(c, m, buf)
        PROVE  /\ SoundInv' /\ mode' = "running"
               /\ mac' = [mac EXCEPT ![c] = m] /\ Listed' = Listed \cup {c}
               /\ c \in Listed => mac[c] = m
    <2>1. c \in Listed /\ mac[c] = m
      BY <1>0, <1>1, FoundRow
    <2>2. next' = next /\ mac' = mac /\ mode' = mode
      BY <1>0, <1>1 DEF FoundIn
    <2>3. SoundInv'
      BY <1>0, <2>2, SoundSame
    <2> QED
      BY <1>0, <2>1, <2>2, <2>3 DEF ListTypeOK, Listed, InUse
  <1>2. ASSUME NEW c \in Cell, InsertNode(c, m, buf)
        PROVE  /\ SoundInv' /\ mode' = "running"
               /\ mac' = [mac EXCEPT ![c] = m] /\ Listed' = Listed \cup {c}
               /\ c \in Listed => mac[c] = m
    <2>1. SoundInv' /\ Reach(next') = Reach(next) \cup {c}
      BY <1>0, <1>2, SoundInsert
    <2>2. Listed' = Reach(next') /\ Listed = Reach(next)
      BY <2>1 DEF SoundInv, ListSound, Listed
    <2>3. c \notin Listed /\ mac' = [mac EXCEPT ![c] = m]
      BY <1>0, <1>2, InsertNodeListed
    <2> QED
      BY <1>2, <2>1, <2>2, <2>3 DEF InsertNode
  <1> QED
    BY <1>0, <1>1, <1>2 DEF Announce, MarkHeard

LEMMA LogoutSound ==
    ASSUME TypeOK, TypeOK', SoundInv, mode = "running",
           NEW m \in Mac, NEW buf \in Buffers, LogoutOfNewest(m, buf)
    PROVE  /\ SoundInv' /\ mode' = "running"
           /\ Listed' = {c \in Listed : mac[c] # m}
           /\ \A c \in Listed' : mac'[c] = mac[c]
  <1>0. ListTypeOK' /\ ListTypeOK /\ DeleteByMac(m, buf)
    BY DEF TypeOK, LogoutOfNewest, Logout
  <1>1. Matches(m) \cap Reach(next) \subseteq {next[Link]} \cap Rows(m)
    BY DEF LogoutOfNewest, OwnFirstRow
  <1>2. /\ SoundInv' /\ mode' = "running"
        /\ Reach(next') = Reach(next) \ Matches(m)
    BY <1>0, <1>1, SoundDelete
  <1>3. Listed' = Reach(next') /\ Listed = Reach(next)
    BY <1>2 DEF SoundInv, ListSound, Listed
  <1>4. \A c \in Listed : c \in Matches(m) <=> mac[c] = m
    BY <1>1, <1>3 DEF Matches, Rows, StrncmpEq, Listed
  <1>5. \A c \in Listed' : mac'[c] = mac[c]
    BY <1>0, DeleteByMacListed
  <1> QED
    BY <1>2, <1>3, <1>4, <1>5

LEMMA VisitSound ==
    ASSUME TypeOK, TypeOK', SoundInv, VisitAll
    PROVE  SoundInv' /\ mode' = "running" /\ Listed' = Listed /\ mac' = mac
  <1>1. mode' = "running" /\ next' = next /\ mac' = mac
    BY SoundWalks DEF VisitAll
  <1> QED
    BY <1>1, SoundSame DEF TypeOK, Listed, InUse

LEMMA RenewSound ==
    ASSUME TypeOK, TypeOK', SoundInv, DeleteAll
    PROVE  SoundInv' /\ mode' = "running" /\ Listed' = {}
  BY SoundDeleteAll DEF TypeOK, Listed

(* The list stays a chain of allocated nodes, and no loop over it fails. *)
LEMMA MeantStep ==
    ASSUME TypeOK, TypeOK', SoundInv, [NextMeant]_toolVars
    PROVE  SoundInv' /\ (mode' \in {"running", "exited"} \/ mode' = mode)
  <1>0. ListTypeOK'
    BY DEF TypeOK
  <1>2. ASSUME NEW m \in Mac, NEW i \in Info, NEW buf \in Buffers,
               Login(m, i, buf) \/ Heartbeat(m, i, buf) \/ AckAlive(m, i, buf)
        PROVE  SoundInv' /\ mode' = "running"
    BY <1>2, AnnounceSound DEF Login, Heartbeat, AckAlive
  <1>3. ASSUME NEW m \in Mac, NEW buf \in Buffers, LogoutOfNewest(m, buf)
        PROVE  SoundInv' /\ mode' = "running"
    BY <1>3, LogoutSound DEF LogoutOfNewest, Logout
  <1>4. ASSUME NEW t \in timers, WatchClear(t) \/ WatchTest(t) \/ ListLater(t)
        PROVE  SoundInv' /\ mode' = "running"
    BY <1>4, VisitSound DEF WatchClear, WatchTest, ListLater
  <1>5. CASE CmdList
    BY <1>5, VisitSound DEF CmdList
  <1>6. CASE CmdRenew
    BY <1>6, RenewSound DEF CmdRenew
  <1>7. CASE CmdQuit
    <2>1. mode' = "exited" /\ next' = next /\ mac' = mac
      BY <1>7 DEF CmdQuit, FreeLinkAndExit, StopsAs, SoundInv, ListSound
    <2> QED
      BY <1>0, <2>1, SoundSame
  <1>8. CASE CmdSearch \/ Tick \/ UNCHANGED toolVars
    <2>1. mode' = mode /\ next' = next /\ mac' = mac
      BY <1>8 DEF CmdSearch, Tick, toolVars
    <2> QED
      BY <1>0, <2>1, SoundSame
  <1> QED
    BY <1>2, <1>3, <1>4, <1>5, <1>6, <1>7, <1>8 DEF NextMeant, NextButLogout

LEMMA MeantStart == ASSUME Init PROVE SoundInv
  BY SoundStart DEF Init, ListInit

(* With the messages that the tool was meant for its list is always a chain
   of allocated nodes that ends in a null pointer. *)
THEOREM MeantStaysSound == SpecMeant => []SoundInv /\ []ListSound
  <1>1. [NextMeant]_toolVars => [Next]_toolVars
    BY MeantIsNext
  <1>2. SpecMeant => Spec
    BY <1>1, PTL DEF SpecMeant, Spec
  <1>3. Init => SoundInv
    BY MeantStart
  <1>4. TypeOK /\ TypeOK' /\ SoundInv /\ [NextMeant]_toolVars => SoundInv'
    BY MeantStep
  <1>5. SoundInv => ListSound
    BY DEF SoundInv
  <1> QED
    BY <1>2, <1>3, <1>4, <1>5, TypeCorrect, PTL DEF SpecMeant

(* Whatever messages come, a sound list is damaged, and the tool fails on it,
   only by a login that overruns the stack or a logout whose matches are not
   its sender's own first row. *)
THEOREM FailuresCaused == Spec => FailuresHaveCause
  <1>1. ASSUME TypeOK, TypeOK', ListSound, Next,
               ~(ListSound' /\ mode' \in {"running", "exited"})
        PROVE  \/ LoginOverruns
               \/ \E m \in Mac, buf \in Buffers : Logout(m, buf) /\ ~OwnFirstRow(m)
    <2>1. SoundInv
      BY <1>1, ChainIsOneWay DEF TypeOK, SoundInv, ListSound
    <2>2. mode = "running"
      BY <1>1 DEF Next, NextButLogout, Login, LoginOverruns, Heartbeat, AckAlive, Logout,
                  WatchClear, WatchTest, ListLater, CmdSearch, CmdRenew, CmdList, CmdQuit, Tick
    <2>3. ~NextMeant
      BY <1>1, <2>1, <2>2, MeantStep DEF SoundInv
    <2> QED
      BY <1>1, <2>3 DEF Next, NextMeant, LogoutOfNewest
  <1>2. TypeOK /\ TypeOK' /\ [Next]_toolVars =>
           [ListSound /\ ~(ListSound' /\ mode' \in {"running", "exited"}) =>
               \/ LoginOverruns
               \/ \E m \in Mac, buf \in Buffers : Logout(m, buf) /\ ~OwnFirstRow(m)]_toolVars
    BY <1>1
  <1> QED
    BY <1>2, TypeCorrect, PTL DEF Spec, FailuresHaveCause

-----------------------------------------------------------------------------
(* What the protocol says of a logout, where the code keeps it *)

(* A node that leaves the list of a sound tool is not reached any more. *)
LEMMA MeantRemoves ==
    ASSUME TypeOK, TypeOK', SoundInv, [NextMeant]_toolVars,
           NEW c \in InUse, mac'[c] = NoMac, mode' = "running"
    PROVE  c \notin Reach(next')
  <1>1. SoundInv'
    BY MeantStep
  <1> QED
    BY <1>1 DEF SoundInv, ListSound, InUse

(* What LogoutRow.cfg refutes of the tool holds for the messages it was meant
   for: a node that was freed is off the list. *)
THEOREM MeantLogoutRemoves == SpecMeant => LogoutRemoves
  <1>1. [NextMeant]_toolVars => [Next]_toolVars
    BY MeantIsNext
  <1>2. SpecMeant => Spec
    BY <1>1, PTL DEF SpecMeant, Spec
  <1>3. TypeOK /\ TypeOK' /\ SoundInv /\ [NextMeant]_toolVars
            => [\A c \in InUse : mac'[c] = NoMac /\ mode' = "running"
                                     => c \notin Reach(next')]_toolVars
    BY MeantRemoves
  <1> QED
    BY <1>2, <1>3, TypeCorrect, MeantStaysSound, PTL DEF SpecMeant, LogoutRemoves

(* The only rows a logout frees are those that strncmp takes for the
   camera's, also in a damaged list. *)
LEMMA LogoutFrees ==
    ASSUME TypeOK, NEW m \in Mac, NEW buf \in Buffers, Logout(m, buf),
           NEW c \in Listed, mac'[c] # mac[c]
    PROVE  StrncmpEq(mac[c], m)
  BY DEF TypeOK, ListTypeOK, Logout, DeleteByMac, StopsAs, Matches, Listed, InUse, Reach, Chain

(* What LogoutOther.cfg refutes holds, with no condition on the order of the
   rows, when no two cameras have addresses that agree up to a zero byte. *)
THEOREM LogoutRemovesOwnUnlessZero ==
    ASSUME \A m, n \in Mac : StrncmpEq(m, n) => m = n
    PROVE  Spec => LogoutRemovesOwn
  <1>1. ASSUME TypeOK, NEW m \in Mac, NEW buf \in Buffers, Logout(m, buf),
               NEW c \in Listed, mac[c] # m
        PROVE  mac'[c] = mac[c]
    <2>1. mac[c] \in Mac
      BY <1>1, ListedRow DEF TypeOK
    <2> QED
      BY <1>1, <2>1, LogoutFrees
  <1>2. TypeOK => [\A m \in Mac, c \in Listed :
                      mac[c] # m /\ mac'[c] # mac[c]
                          => \A buf \in Buffers : ~Logout(m, buf)]_toolVars
    BY <1>1
  <1> QED
    BY <1>2, TypeCorrect, PTL DEF Spec, LogoutRemovesOwn

-----------------------------------------------------------------------------
(* The tool implements DeviceQueue *)

(* The queue shows the same when the rows are those of the same cameras and
   online as before. *)
LEMMA SameRows ==
    ASSUME Listed' = Listed,
           \A c \in Listed : mac'[c] = mac[c] /\ (Online(flag'[c]) <=> Online(flag[c]))
    PROVE  row' = row
  <1>1. ASSUME NEW m \in Mac
        PROVE  RowOf(m)' = RowOf(m)
    BY DEF RowOf
  <1> QED
    BY <1>1 DEF row

LEMMA AnnounceQueue ==
    ASSUME TypeOK, TypeOK', SoundInv, mode = "running",
           NEW m \in Mac, NEW i \in Info, NEW buf \in Buffers, Announce(m, i, buf)
    PROVE  Queue!Announce(m)
  <1>1. PICK c \in Cell :
           /\ flag' = [flag EXCEPT ![c] = 1]
           /\ mac' = [mac EXCEPT ![c] = m]
           /\ Listed' = Listed \cup {c}
           /\ c \in Listed => mac[c] = m
    BY AnnounceSound
  <1>2. heard' = [heard EXCEPT ![m] = now] /\ now' = now
    BY AnnounceSound
  <1>3. mac'[c] = m /\ Online(flag'[c])
    BY <1>1 DEF TypeOK, ListTypeOK, Online
  <1>4. \A d \in Listed : d # c => mac'[d] = mac[d] /\ flag'[d] = flag[d]
    BY <1>1, ListedRow DEF TypeOK, ListTypeOK
  <1>5. RowOf(m)' = "alive"
    BY <1>1, <1>3 DEF RowOf
  <1>6. ASSUME NEW n \in Mac, n # m
        PROVE  RowOf(n)' = RowOf(n)
    BY <1>1, <1>3, <1>4, <1>6 DEF RowOf
  <1>7. row' = [row EXCEPT ![m] = "alive"]
    BY <1>5, <1>6 DEF row
  <1> QED
    BY <1>2, <1>7 DEF Queue!Announce

LEMMA LogoutQueue ==
    ASSUME TypeOK, TypeOK', SoundInv, mode = "running",
           NEW m \in Mac, NEW buf \in Buffers, LogoutOfNewest(m, buf)
    PROVE  Queue!Leave(m)
  <1>1. /\ Listed' = {c \in Listed : mac[c] # m}
        /\ \A c \in Listed' : mac'[c] = mac[c]
    BY LogoutSound
  <1>2. flag' = flag /\ now' = now /\ heard' = heard
    BY DEF LogoutOfNewest, Logout
  <1>3. RowOf(m)' = "absent"
    BY <1>1 DEF RowOf
  <1>4. ASSUME NEW n \in Mac, n # m
        PROVE  RowOf(n)' = RowOf(n)
    BY <1>1, <1>2, <1>4 DEF RowOf
  <1>5. row' = [row EXCEPT ![m] = "absent"]
    BY <1>3, <1>4 DEF row
  <1> QED
    BY <1>2, <1>5 DEF Queue!Leave

(* The first marking changes no row. *)
LEMMA ClearQueue ==
    ASSUME TypeOK, TypeOK', SoundInv, NEW t \in timers, WatchClear(t)
    PROVE  row' = row /\ now' = now /\ heard' = heard
  <1>1. Listed' = Listed /\ mac' = mac
    BY VisitSound DEF WatchClear
  <1>2. \A c \in Listed : Online(flag'[c]) <=> Online(flag[c])
    BY ListedRow DEF WatchClear, TypeOK, Online, MarkUnheard, Listed
  <1> QED
    BY <1>1, <1>2, SameRows DEF WatchClear

(* The test expires cameras that were silent for a cycle. *)
LEMMA TestQueue ==
    ASSUME TypeOK, TypeOK', SoundInv, NoDuplicateRows, TimingInv,
           NEW t \in timers, WatchTest(t)
    PROVE  Queue!Expire
  <1>1. Listed' = Listed /\ mac' = mac /\ now' = now /\ heard' = heard
    BY VisitSound DEF WatchTest
  <1>2. row' \in [Mac -> {"absent", "alive", "dead"}]
    BY DEF row, RowOf
  <1>3. ASSUME NEW m \in Mac, row'[m] # row[m]
        PROVE  row[m] = "alive" /\ row'[m] = "dead" /\ now - heard[m] >= CheckCycle
    <2>1. row[m] = RowOf(m) /\ row'[m] = RowOf(m)'
      BY DEF row
    <2>2. PICK c \in Listed : mac[c] = m
      BY <1>1, <1>3, <2>1 DEF RowOf
    <2>3. \A d \in Listed : mac[d] = m => d = c
      BY <2>2 DEF NoDuplicateRows
    <2>4. /\ row[m] = IF Online(flag[c]) THEN "alive" ELSE "dead"
          /\ row'[m] = IF Online(flag'[c]) THEN "alive" ELSE "dead"
      BY <1>1, <2>1, <2>2, <2>3 DEF RowOf
    <2>5. /\ flag'[c] = MarkUnheard(DropUnheard(flag[c]))
          /\ flag[c] \in 0..3
      BY ListedRow DEF WatchTest, TypeOK, Listed
    <2>6. flag[c] = 3 /\ ~Online(flag'[c])
      BY <1>3, <2>4, <2>5 DEF MarkUnheard, DropUnheard, Online
    <2>7. /\ t.when <= now /\ WatchTiming(t)
      BY DEF WatchTest, Due, TimingInv, WatchProcs
    <2>8. heard[m] <= t.when - CheckCycle
      BY <2>2, <2>6, <2>7 DEF WatchTiming, RowTiming
    <2>9. t.when \in Nat /\ now \in Nat /\ heard[m] \in Nat /\ CheckCycle \in Nat
      BY PeriodAssumption DEF TypeOK, Timer
    <2>10. now - heard[m] >= CheckCycle
      BY <2>7, <2>8, <2>9
    <2> QED
      BY <2>4, <2>6, <2>10 DEF Online
  <1> QED
    BY <1>1, <1>2, <1>3 DEF Queue!Expire

LEMMA TickQueue ==
    ASSUME TypeOK, DeathNoticed', Tick
    PROVE  Queue!Tick
  <1>1. /\ next' = next /\ mac' = mac /\ flag' = flag /\ heard' = heard
        /\ now' = now + 1 /\ mode' = "running"
    BY DEF Tick
  <1>2. Listed' = Listed
    BY <1>1 DEF Listed, InUse
  <1>3. row' = row
    BY <1>1, <1>2, SameRows
  <1>4. \A c \in Listed :
           Online(flag[c]) => now + 1 - heard[mac[c]] <= 2 * (CheckCycle + MaxLate)
    <2>1. \A c \in Listed' :
             Online(flag'[c]) => now' - heard'[mac'[c]] <= 2 * (CheckCycle + MaxLate)
      BY <1>1 DEF DeathNoticed, Online
    <2>2. /\ now \in Nat /\ CheckCycle \in Nat /\ MaxLate \in Nat
          /\ \A c \in Listed : heard[mac[c]] \in Nat
      BY PeriodAssumption, ListedRow DEF TypeOK
    <2> QED
      BY <1>1, <1>2, <2>1, <2>2 DEF Online
  <1>5. ASSUME NEW m \in Mac, row[m] = "alive"
        PROVE  now + 1 - heard[m] <= 2 * (CheckCycle + MaxLate)
    <2>1. PICK c \in Listed : mac[c] = m /\ Online(flag[c])
      BY <1>5 DEF row, RowOf
    <2> QED
      BY <1>4, <2>1
  <1> QED
    BY <1>1, <1>3, <1>5 DEF Queue!Tick

(* Every step of the tool is a step of the queue, or changes nothing of it. *)
LEMMA QueueStep ==
    ASSUME TypeOK, TypeOK', SoundInv, NoDuplicateRows,
           TimingInv, DeathNoticed', [NextMeant]_toolVars
    PROVE  [Queue!QueueNext]_Queue!queueVars
  <1>2. ASSUME NEW m \in Mac, NEW i \in Info, NEW buf \in Buffers,
               Login(m, i, buf) \/ Heartbeat(m, i, buf) \/ AckAlive(m, i, buf)
        PROVE  Queue!QueueNext
    BY <1>2, AnnounceQueue DEF Login, Heartbeat, AckAlive, Queue!QueueNext
  <1>3. ASSUME NEW m \in Mac, NEW buf \in Buffers, LogoutOfNewest(m, buf)
        PROVE  Queue!QueueNext
    BY <1>3, LogoutQueue DEF LogoutOfNewest, Logout, Queue!QueueNext
  <1>4. ASSUME NEW t \in timers, WatchClear(t)
        PROVE  UNCHANGED Queue!queueVars
    BY <1>4, ClearQueue DEF Queue!queueVars
  <1>5. ASSUME NEW t \in timers, WatchTest(t)
        PROVE  Queue!QueueNext
    BY <1>5, TestQueue DEF Queue!QueueNext
  <1>6. CASE CmdRenew
    <2>1. Listed' = {} /\ now' = now /\ heard' = heard
      BY <1>6, RenewSound DEF CmdRenew
    <2>2. row' = [m \in Mac |-> "absent"]
      BY <2>1 DEF row, RowOf
    <2> QED
      BY <2>1, <2>2 DEF Queue!Forget, Queue!QueueNext
  <1>7. CASE Tick
    BY <1>7, TickQueue DEF Queue!QueueNext
  <1>8. CASE next' = next /\ mac' = mac /\ flag' = flag /\ now' = now /\ heard' = heard
    <2>1. Listed' = Listed
      BY <1>8 DEF Listed, InUse
    <2> QED
      BY <1>8, <2>1, SameRows DEF Queue!queueVars
  <1>9. ASSUME NEW t \in timers, ListLater(t)
        PROVE  next' = next /\ mac' = mac /\ flag' = flag /\ now' = now /\ heard' = heard
    BY <1>9 DEF ListLater, VisitAll
  <1>10. CASE CmdSearch \/ CmdList \/ CmdQuit \/ UNCHANGED toolVars
    BY <1>8, <1>10 DEF CmdSearch, CmdList, CmdQuit, VisitAll, FreeLinkAndExit, StopsAs, toolVars
  <1> QED
    BY <1>2, <1>3, <1>4, <1>5, <1>6, <1>7, <1>8, <1>9, <1>10
       DEF NextMeant, NextButLogout

LEMMA QueueStart == ASSUME Init PROVE Queue!QueueInit
  <1>1. Listed = {}
    BY DEF Init, ListInit, Listed, InUse
  <1> QED
    BY <1>1 DEF Init, Queue!QueueInit, row, RowOf

(* With the messages that the tool was meant for, the list of nodes, the
   two-bit flags and the timers together are the queue the protocol
   describes. *)
THEOREM ToolImplementsQueue == SpecMeant => ImplementsQueue
  <1>1. [NextMeant]_toolVars => [Next]_toolVars
    BY MeantIsNext
  <1>2. SpecMeant => Spec
    BY <1>1, PTL DEF SpecMeant, Spec
  <1>3. SpecMeant => []SoundInv
    BY MeantStaysSound, PTL
  <1>4. Spec => []TimingInv
    <2>1. Init => TimingInv
      BY TimingStart
    <2>2. TypeOK /\ NoDuplicateRows /\ OneWatchTimer /\ TimingInv /\ [Next]_toolVars
              => TimingInv'
      BY TimingStep
    <2> QED
      BY <2>1, <2>2, TypeCorrect, WatchNeverStops, PTL DEF Spec
  <1>5. Init => Queue!QueueInit
    BY QueueStart
  <1>6. TypeOK /\ TypeOK' /\ SoundInv /\ NoDuplicateRows
            /\ TimingInv /\ DeathNoticed' /\ [NextMeant]_toolVars
            => [Queue!QueueNext]_Queue!queueVars
    BY QueueStep
  <1> QED
    BY <1>2, <1>3, <1>4, <1>5, <1>6, TypeCorrect, DeathIsTimely, PTL
       DEF SpecMeant, ImplementsQueue, Queue!QueueSpec

-----------------------------------------------------------------------------
(* The time events of the tool and what TimerService promises *)

IdInv ==
    /\ \A t, u \in timers : t.id = u.id => t = u
    /\ \A t \in timers : t.id < nextId

Event(t) == [id |-> t.id, when |-> t.when]
Events == {Event(t) : t \in timers}

(* One time event runs, or none does; it may come back for later, and a new
   one may come. *)
TimerChange ==
    /\ UNCHANGED now
    /\ \E kept :
          /\ kept = timers \/ \E t \in timers : Due(t) /\ kept = timers \ {t}
          /\ kept \subseteq timers'
          /\ \A u \in timers' \ kept : u.when >= now

LEMMA ChangeIsService ==
    ASSUME TypeOK, TypeOK', IdInv, IdInv', TimerChange
    PROVE  Timers!Register \/ \E e \in Events : Timers!Run(e)
  <1>1. \A e, f \in Events' : e.id = f.id => e = f
    BY DEF IdInv, Events, Event
  <1>2. PICK kept : /\ kept = timers \/ \E t \in timers : Due(t) /\ kept = timers \ {t}
                    /\ kept \subseteq timers'
                    /\ \A u \in timers' \ kept : u.when >= now
    BY DEF TimerChange
  <1>3. CASE kept = timers
    <2>1. Events \subseteq Events'
      BY <1>2, <1>3 DEF Events
    <2>2. \A e \in Events' \ Events : e.when >= now
      BY <1>2, <1>3 DEF Events, Event
    <2> QED
      BY <1>1, <2>1, <2>2
         DEF Timers!Register, Timers!Registered, TimerChange, Events, Event
  <1>4. ASSUME NEW t \in timers, Due(t), kept = timers \ {t}
        PROVE  Timers!Run(Event(t))
    <2>1. \A u \in timers : Event(u) = Event(t) => u = t
      BY DEF IdInv, Event
    <2>2. Events \ {Event(t)} \subseteq Events'
      BY <1>2, <1>4 DEF Events
    <2>3. \A e \in Events' \ (Events \ {Event(t)}) : e.when >= now
      <3>1. TAKE e \in Events' \ (Events \ {Event(t)})
      <3>2. PICK u \in timers' : e = Event(u)
        BY DEF Events
      <3>3. u \notin kept
        BY <1>4, <2>1, <3>2 DEF Events
      <3>4. e.when = u.when
        BY <3>2 DEF Event
      <3> QED
        BY <1>2, <3>3, <3>4
    <2>4. Event(t).when <= now
      BY <1>4 DEF Due, Event
    <2> QED
      BY <1>1, <2>2, <2>3, <2>4
         DEF Timers!Run, Timers!Registered, TimerChange, Events, Event
  <1> QED
    BY <1>2, <1>3, <1>4 DEF Events

(* What each action does to the time events. *)
LEMMA TimerStep ==
    ASSUME TypeOK, IdInv, [Next]_toolVars
    PROVE  IdInv' /\ (TimerChange \/ Tick)
  <1>1. nextId \in Nat /\ now \in Nat /\ CheckCycle \in Nat /\ ListDelay \in Nat
    BY PeriodAssumption DEF TypeOK
  <1>2. ASSUME NEW d \in Nat, NEW p
        PROVE  NewTimer(p, d).id = nextId /\ NewTimer(p, d).when >= now
    BY <1>1 DEF NewTimer
  <1>3. ASSUME NEW t \in timers, WatchClear(t)
        PROVE  IdInv' /\ TimerChange
    <2> DEFINE n == NewTimer("test", CheckCycle)
    <2>1. /\ timers' = (timers \ {t}) \cup {n} /\ nextId' = nextId + 1
          /\ UNCHANGED now /\ Due(t)
      BY <1>3 DEF WatchClear
    <2>2. n.id = nextId /\ n.when >= now
      BY <1>1, <1>2
    <2> HIDE DEF n
    <2>3. IdInv'
      BY <1>1, <2>1, <2>2 DEF IdInv, TypeOK, Timer
    <2>4. TimerChange
      BY <2>1, <2>2 DEF TimerChange
    <2> QED
      BY <2>3, <2>4
  <1>4. ASSUME NEW t \in timers, WatchTest(t)
        PROVE  IdInv' /\ TimerChange
    <2> DEFINE n == [t EXCEPT !.when = now + CheckCycle]
    <2>1. /\ timers' = (timers \ {t}) \cup {n} /\ UNCHANGED <<now, nextId>> /\ Due(t)
      BY <1>4 DEF WatchTest
    <2>2. n.id = t.id /\ n.when >= now
      BY <1>1 DEF TypeOK, Timer
    <2> HIDE DEF n
    <2>3. IdInv'
      BY <1>1, <2>1, <2>2 DEF IdInv, TypeOK, Timer
    <2>4. TimerChange
      BY <2>1, <2>2 DEF TimerChange
    <2> QED
      BY <2>3, <2>4
  <1>5. ASSUME NEW t \in timers, ListLater(t)
        PROVE  IdInv' /\ TimerChange
    <2>1. timers' = timers \ {t} /\ UNCHANGED <<now, nextId>> /\ Due(t)
      BY <1>5 DEF ListLater
    <2> QED
      BY <2>1 DEF IdInv, TimerChange
  <1>6. CASE CmdSearch \/ CmdRenew
    <2> DEFINE n == NewTimer("list", ListDelay)
    <2>1. timers' = timers \cup {n} /\ nextId' = nextId + 1 /\ UNCHANGED now
      BY <1>6 DEF CmdSearch, CmdRenew
    <2>2. n.id = nextId /\ n.when >= now
      BY <1>1, <1>2
    <2> HIDE DEF n
    <2>3. IdInv'
      BY <1>1, <2>1, <2>2 DEF IdInv, TypeOK, Timer
    <2>4. TimerChange
      BY <2>1, <2>2 DEF TimerChange
    <2> QED
      BY <2>3, <2>4
  <1>7. CASE UNCHANGED <<now, timers, nextId>>
    BY <1>7 DEF IdInv, TimerChange
  <1>8. CASE Tick
    BY <1>8 DEF Tick, IdInv
  <1> QED
    BY <1>3, <1>4, <1>5, <1>6, <1>7, <1>8
       DEF Next, NextButLogout, Login, LoginOverruns, Heartbeat, AckAlive, Announce, Logout,
           CmdList, CmdQuit, toolVars

(* The tool's time events do what TimerService allows, so that the lateness
   its watch is correct for is the lateness the event loop has. *)
THEOREM ToolUsesService == Spec => TimersFollowService
  <1>1. Init => IdInv /\ Timers!ServiceInit
    BY PeriodAssumption DEF Init, IdInv, Timers!ServiceInit
  <1>2. TypeOK /\ IdInv /\ [Next]_toolVars => IdInv'
    BY TimerStep
  <1>3. TypeOK /\ TypeOK' /\ IdInv /\ IdInv' /\ [Next]_toolVars
            => [Timers!ServiceNext]_Timers!serviceVars
    <2> SUFFICES ASSUME TypeOK, TypeOK', IdInv, IdInv', [Next]_toolVars
                 PROVE  Timers!ServiceNext
      OBVIOUS
    <2>1. CASE TimerChange
      BY <2>1, ChangeIsService DEF Timers!ServiceNext, Events, Event
    <2>2. CASE Tick
      <3>1. Timers!Tick
        BY <2>2 DEF Tick, Timers!Tick
      <3> QED
        BY <3>1 DEF Timers!ServiceNext
    <2> QED
      BY <2>1, <2>2, TimerStep
  <1> QED
    BY <1>1, <1>2, <1>3, TypeCorrect, PTL
       DEF Spec, TimersFollowService, Timers!ServiceSpec

=============================================================================
