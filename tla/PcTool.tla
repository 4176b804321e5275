------------------------------- MODULE PcTool -------------------------------
(***************************************************************************)
(* The PC tool, ipcam_search_pcv2.c: one process whose event loop calls    *)
(* dealnet for each datagram, dealcmd for each line the user types and the *)
(* timer procedures.  Each call runs to its end before the next one starts *)
(* and is one action here; the list it works on is IpcamList.              *)
(*                                                                         *)
(* Messages come from cameras that are not modelled: any camera may send   *)
(* any message at any time, so what holds here holds whatever the cameras  *)
(* and the network do.  Time is discrete, and the event loop runs a timer  *)
(* procedure at most MaxLate after the timer is due.                       *)
(***************************************************************************)
EXTENDS IpcamList

CONSTANTS
    Info,         \* addresses, names and start times a camera may report
    CheckCycle,   \* CHECK_IPCAM_CYCLE
    ListDelay,    \* the delay of the listing after a search
    MaxLate       \* how long after its time a timer procedure may run

(* The periods are times; a check cycle takes some time. *)
ASSUME PeriodAssumption ==
    /\ CheckCycle \in Nat \ {0}
    /\ ListDelay \in Nat
    /\ MaxLate \in Nat

VARIABLES
    flag,      \* alive_flag: bit 0 online, bit 1 not heard since the last check
    info,      \* the rest of node_info
    now,       \* the clock
    timers,    \* the event loop's time events
    nextId,    \* timeEventNextId
    heard      \* history: when a message of the camera last reached deal_msg_func

toolVars == <<next, mac, mode, flag, info, now, timers, nextId, heard>>

(* How the time events of the process are used. *)
Procs == {"clear", "test", "list"}
WatchProcs == {"clear", "test"}

Timer == [id : Nat, proc : Procs, when : Nat]

TypeOK ==
    /\ ListTypeOK
    /\ flag \in [Cell -> 0..3]
    /\ info \in [Cell -> Info]
    /\ now \in Nat
    /\ timers \subseteq Timer
    /\ nextId \in Nat
    /\ heard \in [Mac -> Nat]

-----------------------------------------------------------------------------
(* alive_flag *)

(* Faulty variants: the mark of an earlier check survives a message, the
   wrong bit is set, and the test looks at bit 0 alone. *)
KeepMark(f) == IF f \in {2, 3} THEN 3 ELSE 1
MarkBit2(f) == f + 4
DropOffline(f) == IF f \in {1, 3} THEN f ELSE 0

Online(f) == f \in {1, 3}                             \* f & 1
MarkHeard(f) == 1                                     \* whatever f was
MarkUnheard(f) == IF f \in {0, 1} THEN f + 2 ELSE f   \* f | 1 << 1
DropUnheard(f) == IF f = 1 THEN 1 ELSE 0              \* f != 1 becomes 0

(* Faulty variant of Due: the time is not looked at. *)
DueAnyTime(t) == t \in timers

(* Time events *)
NewTimer(p, delay) == [id |-> nextId, proc |-> p, when |-> now + delay]
Due(t) == t \in timers /\ t.when <= now

-----------------------------------------------------------------------------
(* main: an empty list, and the watch starts after one cycle. *)
Init ==
    /\ ListInit
    /\ flag = [c \in Cell |-> 0]
    /\ info \in {[c \in Cell |-> i] : i \in Info}
    /\ now = 0
    /\ timers = {[id |-> 0, proc |-> "clear", when |-> CheckCycle]}
    /\ nextId = 1
    /\ heard = [m \in Mac |-> 0]

(* deal_msg_func, LOGIN, HEARTBEAT and ACK_ALIVE: a known camera is marked
   online, its row keeps the information it has; an unknown one gets a row. *)
Announce(m, i, buf) ==
    /\ \/ \E c \in Cell :
             \/ /\ FoundIn(c, m, buf)
                /\ flag' = [flag EXCEPT ![c] = MarkHeard(flag[c])]
                /\ UNCHANGED info
             \/ /\ InsertNode(c, m, buf)
                /\ flag' = [flag EXCEPT ![c] = 1]
                /\ info' = [info EXCEPT ![c] = i]
       \/ SearchFails(m, buf) /\ UNCHANGED <<flag, info>>
    /\ heard' = [heard EXCEPT ![m] = now]
    /\ UNCHANGED <<now, timers, nextId>>

(* Its MAC is as long as the message says.  Up to the end of the structure on
   the stack that takes it, the bytes behind the MAC are overwritten again. *)
Login(m, i, buf) ==
    mode = "running" /\ buf \in Buffers /\ Announce(m, i, buf)

(* A longer one overwrites the stack: where no harm comes of it the message
   is handled as Login does, otherwise the process is lost. *)
LoginOverruns ==
    /\ mode = "running"
    /\ StopsAs("crashed")
    /\ UNCHANGED <<flag, info, now, timers, nextId, heard>>

Heartbeat(m, i, buf) ==
    mode = "running" /\ buf \in Buffers /\ Announce(m, i, buf)

AckAlive(m, i, buf) ==
    mode = "running" /\ buf \in Buffers /\ Announce(m, i, buf)

(* deal_msg_func, LOGOUT. *)
Logout(m, buf) ==
    /\ mode = "running"
    /\ buf \in Buffers
    /\ DeleteByMac(m, buf)
    /\ UNCHANGED <<flag, info, now, timers, nextId, heard>>

(* Faulty variant of WatchClear: it returns the period in place of -1, so
   its timer stays. *)
WatchClearAgain(t) ==
    /\ mode = "running"
    /\ Due(t) /\ t.proc = "clear"
    /\ VisitAll
    /\ flag' = [c \in Cell |-> IF c \in Reach(next) THEN MarkUnheard(flag[c]) ELSE flag[c]]
    /\ timers' = (timers \ {t}) \cup {[t EXCEPT !.when = now + CheckCycle],
                                     NewTimer("test", CheckCycle)}
    /\ nextId' = nextId + 1
    /\ UNCHANGED <<info, now, heard>>

(* watch_ipcam_link_clear: runs once and starts the periodic test. *)
WatchClear(t) ==
    /\ mode = "running"
    /\ Due(t) /\ t.proc = "clear"
    /\ VisitAll
    /\ flag' = [c \in Cell |-> IF c \in Reach(next) THEN MarkUnheard(flag[c]) ELSE flag[c]]
    /\ timers' = (timers \ {t}) \cup {NewTimer("test", CheckCycle)}
    /\ nextId' = nextId + 1
    /\ UNCHANGED <<info, now, heard>>

(* watch_ipcam_link_test: rows not heard since the last check go offline,
   and all rows are marked for the next check. *)
WatchTest(t) ==
    /\ mode = "running"
    /\ Due(t) /\ t.proc = "test"
    /\ VisitAll
    /\ flag' = [c \in Cell |->
                  IF c \in Reach(next) THEN MarkUnheard(DropUnheard(flag[c])) ELSE flag[c]]
    /\ timers' = (timers \ {t}) \cup {[t EXCEPT !.when = now + CheckCycle]}
    /\ UNCHANGED <<info, now, nextId, heard>>

(* callback_list_ipcam. *)
ListLater(t) ==
    /\ mode = "running"
    /\ Due(t) /\ t.proc = "list"
    /\ VisitAll
    /\ timers' = timers \ {t}
    /\ UNCHANGED <<flag, info, now, nextId, heard>>

(* Command 's': a query is broadcast, the list is printed later. *)
CmdSearch ==
    /\ mode = "running"
    /\ timers' = timers \cup {NewTimer("list", ListDelay)}
    /\ nextId' = nextId + 1
    /\ UNCHANGED <<next, mac, mode, flag, info, now, heard>>

(* Command 'r': delete the rows and fall through to 's'. *)
CmdRenew ==
    /\ mode = "running"
    /\ DeleteAll
    /\ timers' = timers \cup {NewTimer("list", ListDelay)}
    /\ nextId' = nextId + 1
    /\ UNCHANGED <<flag, info, now, heard>>

(* Command 'l'. *)
CmdList ==
    /\ mode = "running"
    /\ VisitAll
    /\ UNCHANGED <<flag, info, now, timers, nextId, heard>>

(* Command 'q': release_exit. *)
CmdQuit ==
    /\ mode = "running"
    /\ FreeLinkAndExit
    /\ UNCHANGED <<flag, info, now, timers, nextId, heard>>

(* Time passes; no timer procedure is more than MaxLate late. *)
Tick ==
    /\ mode = "running"
    /\ \A t \in timers : now + 1 <= t.when + MaxLate
    /\ now' = now + 1
    /\ UNCHANGED <<next, mac, mode, flag, info, timers, nextId, heard>>

(* Everything but a logout message and an overlong login. *)
NextButLogout ==
    \/ \E m \in Mac, i \in Info, buf \in Buffers :
          Login(m, i, buf) \/ Heartbeat(m, i, buf) \/ AckAlive(m, i, buf)
    \/ \E t \in timers : WatchClear(t) \/ WatchTest(t) \/ ListLater(t)
    \/ CmdSearch \/ CmdRenew \/ CmdList \/ CmdQuit
    \/ Tick

Next ==
    \/ NextButLogout
    \/ LoginOverruns
    \/ \E m \in Mac, buf \in Buffers : Logout(m, buf)

Spec == Init /\ [][Next]_toolVars

-----------------------------------------------------------------------------
(* The messages that the tool handles as it was meant to: logins that fit,
   and logouts for which the rows that delete_ipcam_node_by_mac matches are
   the sender's own and stand first. *)
OwnFirstRow(m) == Matches(m) \cap Reach(next) \subseteq {next[Link]} \cap Rows(m)

LogoutOfNewest(m, buf) == OwnFirstRow(m) /\ Logout(m, buf)

NextMeant == NextButLogout \/ \E m \in Mac, buf \in Buffers : LogoutOfNewest(m, buf)

SpecMeant == Init /\ [][NextMeant]_toolVars

-----------------------------------------------------------------------------
(* Invariants *)

(* There is always exactly one watch timer, the first clear or the periodic
   test: watch_ipcam_link_clear hands over to watch_ipcam_link_test, and the
   commands' timers do not disturb the chain.  With none, silent cameras
   would stay online for ever; with two, the checks would come too often. *)
OneWatchTimer ==
    \E w \in timers :
        /\ w.proc \in WatchProcs
        /\ \A t \in timers : t.proc \in WatchProcs => t = w

(* A camera is shown offline only when nothing was heard of it for a whole
   check cycle, however the messages and the two-bit marks of the watch
   interleave. *)
NoFalseDeath ==
    mode = "running" =>
        \A c \in Listed : ~Online(flag[c]) => now - heard[mac[c]] >= CheckCycle

(* A silent camera is shown online for at most two cycles and the lateness
   of the two timer procedures that mark it. *)
DeathNoticed ==
    mode = "running" =>
        \A c \in Listed :
            Online(flag[c]) => now - heard[mac[c]] <= 2 * (CheckCycle + MaxLate)

(* With a sound list the tool handles every message, command and time event
   without a loop that runs for ever, a pointer it must not follow or a block
   it must not free, and leaves the list sound: but for a login that overruns
   the stack and a logout whose matches are not the sender's own first row. *)
FailuresHaveCause ==
    [][ListSound /\ ~(ListSound' /\ mode' \in {"running", "exited"}) =>
          \/ LoginOverruns
          \/ \E m \in Mac, buf \in Buffers : Logout(m, buf) /\ ~OwnFirstRow(m)]_toolVars

-----------------------------------------------------------------------------
(* What the protocol's description says *)

(* A logout message removes the camera's row from the queue
   (ipcam_search_protocol.txt:17-18): no node that deal_msg_func frees is
   still reached by a walk of the list. *)
LogoutRemoves ==
    [][\A c \in InUse : mac'[c] = NoMac /\ mode' = "running" => c \notin Reach(next')]_toolVars

(* It removes that camera's row (ipcam_search_protocol.txt:17-18): a step that
   takes the row of another camera is no logout of this one. *)
LogoutRemovesOwn ==
    [][\A m \in Mac, c \in Listed :
          mac[c] # m /\ mac'[c] # mac[c] => \A buf \in Buffers : ~Logout(m, buf)]_toolVars

-----------------------------------------------------------------------------
(* The tool implements DeviceQueue as long as the messages are those it was
   meant for (SpecMeant). *)

RowOf(m) ==
    IF \E c \in Listed : mac[c] = m
    THEN IF \E c \in Listed : mac[c] = m /\ Online(flag[c]) THEN "alive" ELSE "dead"
    ELSE "absent"

row == [m \in Mac |-> RowOf(m)]

Queue == INSTANCE DeviceQueue
            WITH MinSilence <- CheckCycle, MaxSilence <- 2 * (CheckCycle + MaxLate)

(* The list, the two-bit flags and the timers give each camera the row that
   DeviceQueue promises. *)
ImplementsQueue == Queue!QueueSpec

(* The time events of the tool do what TimerService promises, which is what
   the event loop (AeEventLoop) keeps. *)
Timers == INSTANCE TimerService
             WITH pending <- {[id |-> t.id, when |-> t.when] : t \in timers}

TimersFollowService == Timers!ServiceSpec

=============================================================================
