------------------------------- MODULE PcFirst -------------------------------
(***************************************************************************)
(* The first version of the PC tool, ipcam_search_pc.c.  Its main is built *)
(* in two ways: with _LINUX_ an event loop calls dealcmd, dealnet and the  *)
(* watch, one after the other; elsewhere three threads share the list      *)
(* under IPCAM_DEV_MUTEX.  What a thread, or a call of the loop, still has *)
(* to do is its script; a section of it that works on the list takes the   *)
(* mutex first.                                                            *)
(*                                                                         *)
(* The list is the sequence of its rows, the newest first (see IpcamList   *)
(* for its blocks).  A section visits the rows it found when it took the   *)
(* mutex; if one of them is freed before it ends, or the list itself, what *)
(* follows is undefined.  It is as well when a LOGOUT frees a row behind   *)
(* one that stays, which the walk then reads (PcTool follows the row that  *)
(* was freed), and when a LOGIN is too long for the receiver's stack.      *)
(***************************************************************************)
EXTENDS MacAddress, Sequences

CONSTANTS
    CheckCycle,    \* CHECK_IPCAM_CYCLE
    SearchSleep,   \* how long 's' sleeps before it lists
    MaxLate,       \* how long after its time the watch may be done
    MaxCmds        \* how many commands a line holds

ASSUME FirstAssumption ==
    /\ CheckCycle \in Nat \ {0} /\ SearchSleep \in Nat
    /\ MaxLate \in Nat /\ MaxCmds \in Nat \ {0}

VARIABLES
    build,      \* "loop" or "threads"
    mode,       \* "running", "exited" or "undefined"
    rows,       \* the cameras of the list's rows, the newest first
    flag,       \* alive_flag of a row
    released,   \* free_ipcam_link was called
    inside,     \* threads between lock and unlock of IPCAM_DEV_MUTEX
    line,       \* the commands that are left of a line of input
    script,     \* what each thread still has to do before it waits again
    todo,       \* rows that a thread's section visits
    from,       \* the camera whose message is handled
    wake,       \* when the sleep of a search ends
    marked,     \* the watch has made its first round
    alarm,      \* when the watch makes its next one
    now,
    heard       \* history: when a camera's message last marked its row

listVars == <<rows, flag, released>>
timeVars == <<wake, marked, alarm, now>>
firstVars == <<build, mode, listVars, inside, line, script, todo, from, timeVars, heard>>

Thread == {"console", "receiver", "watch", "handler"}
Section == {"renew", "list", "announce", "logout", "clear", "test"}
Operation == Section \cup {"search", "sleep", "release", "exit", "overrun"}

(* Cameras that have a row. *)
listed == {rows[i] : i \in DOMAIN rows}

(* The first letter of a command. *)
Command == {"r", "s", "l", "q", "h"}

TypeOK ==
    /\ build \in {"loop", "threads"}
    /\ mode \in {"running", "exited", "undefined"}
    /\ rows \in Seq(Mac)
    /\ flag \in [Mac -> 0..3]
    /\ released \in BOOLEAN
    /\ inside \subseteq Thread
    /\ line \in Seq(Command)
    /\ script \in [Thread -> Seq(Operation)]
    /\ todo \in [Thread -> SUBSET Mac]
    /\ from \in Mac
    /\ wake \in Nat /\ marked \in BOOLEAN /\ alarm \in Nat /\ now \in Nat
    /\ heard \in [Mac -> Nat]

-----------------------------------------------------------------------------
(* main: the loop makes the first round after a cycle, the thread at once. *)
Init ==
    /\ build \in {"loop", "threads"}
    /\ mode = "running"
    /\ rows = <<>> /\ flag = [m \in Mac |-> 0] /\ released = FALSE
    /\ inside = {}
    /\ line = <<>> /\ script = [t \in Thread |-> <<>>] /\ todo = [t \in Thread |-> {}]
    /\ from \in Mac
    /\ now = 0 /\ wake = 0 /\ marked = FALSE
    /\ alarm = IF build = "loop" THEN CheckCycle ELSE 0
    /\ heard = [m \in Mac |-> 0]

Idle(t) == script[t] = <<>> /\ (t = "console" => line = <<>>)
Doing(t, op) == script[t] # <<>> /\ Head(script[t]) = op

(* A thread gets something to do; the loop calls one handler at a time. *)
Starts(t, s) ==
    /\ mode = "running" /\ Idle(t)
    /\ build = "loop" => \A u \in Thread : Idle(u)
    /\ script' = [script EXCEPT ![t] = s]
    /\ UNCHANGED <<build, mode, listVars, inside, todo, timeVars, heard>>

(* dealcmd and deal_console_input read a line; the loop has run the time
   events of its last turn before it reads another. *)
ReadLine ==
    /\ build = "loop" => now <= alarm + MaxLate
    /\ Starts("console", <<>>)
    /\ \E n \in 1..MaxCmds : line' \in [1..n -> Command]
    /\ UNCHANGED from

(* run_cmd_by_string; 'r' falls through to 's', and 's' to 'l'. *)
Program ==
    [ r |-> <<"renew", "search", "sleep", "list">>,
      s |-> <<"search", "sleep", "list">>,
      l |-> <<"list">>,
      q |-> <<"release">>,
      h |-> <<>> ]

(* strtok: the next command of the line. *)
NextCommand ==
    /\ mode = "running"
    /\ script["console"] = <<>> /\ line # <<>>
    /\ line' = Tail(line)
    /\ script' = [script EXCEPT !["console"] = Program[Head(line)]]
    /\ UNCHANGED <<build, mode, listVars, inside, todo, from, timeVars, heard>>

(* The console thread ends the process at the end of its input; dealcmd
   finds no command in it. *)
EndOfInput ==
    /\ build = "threads"
    /\ Starts("console", Program.q)
    /\ UNCHANGED <<line, from>>

(* recv_msg_from_ipcam and dealnet: LOGIN, HEARTBEAT and ACK_ALIVE do the
   same, LOGOUT deletes.  The copy of a LOGIN's exten_msg stays within
   remote_ipcam_info, or runs over it. *)
Receive ==
    /\ \E s \in {<<"announce">>, <<"logout">>, <<"overrun">>} : Starts("receiver", s)
    /\ from' \in Mac
    /\ UNCHANGED line

(* Faulty variant of Watch: the marks are made before the test. *)
WatchMarksFirst ==
    /\ now >= alarm
    /\ Starts("watch", IF marked THEN <<"clear", "test">> ELSE <<"clear">>)
    /\ UNCHANGED <<line, from>>

(* maintain_ipcam_link after its sleep; watch_ipcam_link_clear, which is
   called once, and watch_ipcam_link_test. *)
Watch ==
    /\ now >= alarm
    /\ Starts("watch", IF marked THEN <<"test", "clear">> ELSE <<"clear">>)
    /\ UNCHANGED <<line, from>>

(* SIGINT.  Only deal_console_input installs ctrl_c, which runs on a thread
   of its own; the loop's process is ended by the signal. *)
Interrupt ==
    \/ /\ build = "threads"
       /\ Starts("handler", <<"release">>)
       /\ UNCHANGED <<line, from>>
    \/ /\ build = "loop" /\ mode = "running"
       /\ mode' = "exited"
       /\ UNCHANGED <<build, listVars, inside, line, script, todo, from, timeVars, heard>>

-----------------------------------------------------------------------------
(* Faulty variant of Lock: the section does not wait for the mutex. *)
LockAnyway(t) ==
    /\ mode = "running"
    /\ t \notin inside
    /\ \E op \in Section : Doing(t, op)
    /\ inside' = inside \cup {t}
    /\ todo' = [todo EXCEPT ![t] = listed]
    /\ UNCHANGED <<build, mode, listVars, line, script, from, timeVars, heard>>

(* pthread_mutex_lock, and the section's walk begins. *)
Lock(t) ==
    /\ mode = "running"
    /\ inside = {}
    /\ \E op \in Section : Doing(t, op)
    /\ inside' = inside \cup {t}
    /\ todo' = [todo EXCEPT ![t] = listed]
    /\ UNCHANGED <<build, mode, listVars, line, script, from, timeVars, heard>>

Done(t) ==
    /\ script' = [script EXCEPT ![t] = Tail(@)]
    /\ todo' = [todo EXCEPT ![t] = {}]
    /\ inside' = inside \ {t}
    /\ UNCHANGED <<build, line, from, released>>

(* The rows up to n are those that strncmp takes for m's. *)
Leading(m, n) == \A i \in DOMAIN rows : i <= n <=> StrncmpEq(rows[i], m)

(* A row of m is behind one that stays.  delete_ipcam_node_by_mac does not
   unlink it; it frees it and goes on from there. *)
Behind(m) == ~\E n \in 0..Len(rows) : Leading(m, n)

(* The first n rows are unlinked and freed: all of them, or the sender's. *)
Delete(n) ==
    /\ rows' = SubSeq(rows, n + 1, Len(rows))
    /\ flag' = [m \in Mac |-> IF m \in listed' THEN flag[m] ELSE 0]
    /\ UNCHANGED <<heard, timeVars>>

(* Faulty variant of InsertOrMark: the wrong bit is set. *)
InsertOrMarkBit2 ==
    /\ rows' = IF from \in listed THEN rows ELSE <<from>> \o rows
    /\ flag' = [flag EXCEPT ![from] = 4]
    /\ heard' = [heard EXCEPT ![from] = now]
    /\ UNCHANGED timeVars

(* insert_nodulp_ipcam_node, and the row it found is marked. *)
InsertOrMark ==
    /\ rows' = IF from \in listed THEN rows ELSE <<from>> \o rows
    /\ flag' = [flag EXCEPT ![from] = 1]
    /\ heard' = [heard EXCEPT ![from] = now]
    /\ UNCHANGED timeVars

(* clear_all_dev_online, and the watch sleeps for a cycle. *)
ClearAll ==
    /\ flag' = [m \in Mac |-> IF m \in listed /\ flag[m] < 2 THEN flag[m] + 2 ELSE flag[m]]
    /\ marked' = TRUE
    /\ alarm' = now + CheckCycle
    /\ UNCHANGED <<rows, heard, wake, now>>

(* test_all_dev_online *)
TestAll ==
    /\ flag' = [m \in Mac |-> IF m \in listed /\ flag[m] # 1 THEN 0 ELSE flag[m]]
    /\ UNCHANGED <<rows, heard, timeVars>>

(* A row that the section visits, or the list itself, was freed. *)
Stale(t) == released \/ ~(todo[t] \subseteq listed)

(* The section does its work and calls pthread_mutex_unlock. *)
Unlock(t) ==
    /\ mode = "running" /\ t \in inside
    /\ ~Stale(t)
    /\ \/ Doing(t, "renew") /\ Delete(Len(rows))
       \/ Doing(t, "logout") /\ \E n \in 0..Len(rows) : Leading(from, n) /\ Delete(n)
       \/ Doing(t, "announce") /\ InsertOrMark
       \/ Doing(t, "list") /\ UNCHANGED <<rows, flag, heard, timeVars>>
       \/ Doing(t, "clear") /\ ClearAll
       \/ Doing(t, "test") /\ TestAll
    /\ Done(t)
    /\ UNCHANGED mode

(* It uses what was freed, by another thread or by its own walk. *)
UseAfterFree(t) ==
    /\ mode = "running" /\ t \in inside
    /\ \/ Stale(t)
       \/ Doing(t, "logout") /\ Behind(from)
    /\ mode' = "undefined"
    /\ UNCHANGED <<build, listVars, inside, line, script, todo, from, timeVars, heard>>

(* LOGIN: exten_len bytes are copied to the mac of remote_ipcam_info.  The
   rest of it is written again or not read; beyond it the stack is lost. *)
Overrun ==
    /\ mode = "running" /\ Doing("receiver", "overrun")
    /\ mode' = "undefined"
    /\ UNCHANGED <<build, listVars, inside, line, script, todo, from, timeVars, heard>>

(* 's': search_ipcam broadcasts a query, and the thread sleeps. *)
Search ==
    /\ mode = "running" /\ Doing("console", "search")
    /\ wake' = now + SearchSleep
    /\ Done("console")
    /\ UNCHANGED <<mode, rows, flag, marked, alarm, now, heard>>

WakeUp ==
    /\ mode = "running" /\ Doing("console", "sleep")
    /\ now >= wake
    /\ wake' = 0
    /\ Done("console")
    /\ UNCHANGED <<mode, rows, flag, marked, alarm, now, heard>>

(* release_exit: the list is freed without the mutex, and exit follows.
   When a section works on it, or when it was freed before, this may fail
   at once. *)
Release(t) ==
    /\ mode = "running" /\ Doing(t, "release")
    /\ \/ ~released /\ mode' = mode
       \/ (released \/ inside # {}) /\ mode' = "undefined"
    /\ released' = TRUE
    /\ rows' = <<>> /\ flag' = [m \in Mac |-> 0]
    /\ script' = [script EXCEPT ![t] = <<"exit">>]
    /\ UNCHANGED <<build, inside, line, todo, from, timeVars, heard>>

Exit(t) ==
    /\ mode = "running" /\ Doing(t, "exit")
    /\ mode' = "exited"
    /\ Done(t)
    /\ UNCHANGED <<rows, flag, timeVars, heard>>

(* Time passes.  The watch is done with its round at most MaxLate after its
   time, unless the loop sleeps inside dealcmd. *)
Tick ==
    /\ mode = "running"
    /\ \/ build = "threads" /\ now < alarm + MaxLate
       \/ build = "loop" /\ (\A t \in Thread : Idle(t)) /\ now < alarm + MaxLate
       \/ build = "loop" /\ Doing("console", "sleep") /\ now < wake
    /\ now' = now + 1
    /\ UNCHANGED <<build, mode, listVars, inside, line, script, todo, from, wake, marked,
                   alarm, heard>>

(* The process has ended. *)
Ended == mode # "running" /\ UNCHANGED firstVars

Next ==
    \/ ReadLine \/ NextCommand \/ EndOfInput
    \/ Receive \/ Overrun \/ Watch \/ Interrupt
    \/ \E t \in Thread : Lock(t) \/ Unlock(t) \/ UseAfterFree(t) \/ Release(t) \/ Exit(t)
    \/ Search \/ WakeUp
    \/ Tick
    \/ Ended

Spec == Init /\ [][Next]_firstVars

-----------------------------------------------------------------------------
(* Properties *)

(* Nothing but three things leads to a fault: of several threads one that
   quits has freed the list under the others; a LOGOUT names a row behind
   one that stays; a LOGIN is too long.  Wherever else two threads meet on
   the list, the mutex keeps them apart, and the loop runs no handler into
   another, although it sleeps inside one. *)
FaultHasCause ==
    mode = "undefined" =>
       \/ build = "threads" /\ released
       \/ Doing("receiver", "logout") /\ Behind(from)
       \/ Doing("receiver", "overrun")

(* How long a line with searches keeps the loop from the watch. *)
LineSleep == MaxCmds * SearchSleep

RowOf(m) ==
    IF m \notin listed THEN "absent" ELSE IF flag[m] \in {1, 3} THEN "alive" ELSE "dead"

row == [m \in Mac |-> RowOf(m)]

Queue == INSTANCE DeviceQueue
            WITH MinSilence <- CheckCycle,
                 MaxSilence <- 2 * (CheckCycle + MaxLate + LineSleep)

(* Until a fault both builds keep the promise of the queue, for addresses
   that strncmp tells apart: a LOGOUT takes the sender's row and no other; no
   camera is dead before a cycle of silence, although messages come in
   between the test and the next clear; none is alive for longer than two
   cycles, their lateness, and the sleeps of the lines that hold up the
   loop. *)
QueueUntilFault ==
    /\ Queue!QueueInit
    /\ [][mode' = "undefined" \/ Queue!QueueNext]_(Queue!queueVars)

=============================================================================
