------------------------------- MODULE Device -------------------------------
(***************************************************************************)
(* The camera's program in its two builds: ipcam_search_device.c (v1), a   *)
(* main thread that sends heartbeats between sleeps and a receiver thread  *)
(* that answers queries, and ipcam_search_devicev2.c (v2), one thread with *)
(* an event loop for both.  SIGINT and SIGTERM interrupt a thread at any   *)
(* point; the handler sends the LOGOUT and exits, and what interrupts it   *)
(* can only be the other signal's handler, which does the same.            *)
(***************************************************************************)
EXTENDS Integers

CONSTANTS
    Build,             \* the builds to look at, of "v1" and "v2"
    Signal,            \* SIGINT and SIGTERM
    HeartbeatCycle,    \* HEARTBEAT_CYCLE
    MaxLate,           \* how long a sleep or a time event may take too long
    NumLimit           \* 2^32, heartbeat_num wraps there

(* There are two builds; the cycle takes some time. *)
ASSUME DeviceAssumption ==
    /\ Build \subseteq {"v1", "v2"}
    /\ HeartbeatCycle \in Nat \ {0} /\ MaxLate \in Nat
    /\ NumLimit \in Nat \ {0}

VARIABLES
    build,           \* which program this is
    now,             \* the time
    alive,           \* whether the process exists
    main,            \* how far main has come
    receiver,        \* recv_msg_from_pc
    handler,         \* for each thread, what its signal handler does next
    taken,           \* for each thread, the signals it is handling
    open,            \* whether IPCAM_SERVER_FD is open
    knowsMac,        \* whether get_mac has filled IPCAM_MAC
    heartbeatNum,    \* heartbeat_num of the next heartbeat
    beatAt,          \* when it is due
    last,            \* the last message sent
    spoke,           \* when
    left,            \* history: whether a LOGOUT was sent
    parent           \* whether the process that forked still exists

deviceVars == <<build, now, alive, main, receiver, handler, taken, open, knowsMac,
                heartbeatNum, beatAt, last, spoke, left, parent>>

Thread == {"main", "receiver"}
Process == Thread \cup {"parent"}

(* The threads there are: the second is created after LOGIN, in v1 only. *)
Threads ==
    IF build = "v1" /\ receiver # "none" THEN Thread ELSE {"main"}

Receiving == IF build = "v1" THEN "receiver" ELSE "main"

(* main forks and its first process, the parent, exits; until it has, it still
   has the handlers. *)
Lives(t) == IF t = "parent" THEN parent ELSE alive

(* Thread t runs the program, not its signal handler. *)
Runs(t) == alive /\ handler[t] = "none"

Message == [type : {"none", "LOGIN", "LOGOUT", "HEARTBEAT", "ACK_ALIVE"},
            own : BOOLEAN, num : 0..(NumLimit - 1)]

TypeOK ==
    /\ build \in Build
    /\ now \in Nat /\ spoke \in Nat /\ beatAt \in Nat
    /\ alive \in BOOLEAN /\ open \in BOOLEAN /\ knowsMac \in BOOLEAN /\ left \in BOOLEAN
    /\ parent \in BOOLEAN
    /\ main \in {"boot", "named", "forked", "bound", "online", "beating"}
    /\ receiver \in {"none", "waiting", "answering", "failing"}
    /\ handler \in [Process -> {"none", "logout", "close", "exit"}]
    /\ taken \in [Process -> SUBSET Signal]
    /\ heartbeatNum \in 0..(NumLimit - 1)
    /\ last \in Message

(* Faulty variant of NextNum: the counter is wider than 32 bits. *)
NextNumWide(n) == n + 1

(* heartbeat_num++ on a uint32_t. *)
NextNum(n) == (n + 1) % NumLimit

Send(type, num) ==
    /\ last' = [type |-> type, own |-> knowsMac, num |-> num]
    /\ spoke' = now

-----------------------------------------------------------------------------
(* The process has just started. *)
Init ==
    /\ build \in Build
    /\ now = 0 /\ spoke = 0
    /\ last = [type |-> "none", own |-> FALSE, num |-> 0]
    /\ alive = TRUE /\ main = "boot" /\ receiver = "none"
    /\ handler = [t \in Process |-> "none"] /\ taken = [t \in Process |-> {}]
    /\ open = FALSE /\ knowsMac = FALSE /\ left = FALSE /\ parent = FALSE
    /\ heartbeatNum = 0 /\ beatAt = 0

(* main: get_mac, which finds no MAC when no interface is there; main does
   not look at its result. *)
GetMac ==
    /\ Runs("main") /\ main = "boot"
    /\ main' = "named" /\ knowsMac' \in BOOLEAN
    /\ UNCHANGED <<build, now, alive, receiver, handler, taken, open,
                   heartbeatNum, beatAt, last, spoke, left, parent>>

(* fork: the child goes on as the camera, with the MAC and the handlers. *)
Fork ==
    /\ Runs("main") /\ main = "named"
    /\ main' = "forked" /\ parent' = TRUE
    /\ UNCHANGED <<build, now, alive, receiver, handler, taken, open, knowsMac,
                   heartbeatNum, beatAt, last, spoke, left>>

(* initsocket. *)
InitSocket ==
    /\ Runs("main") /\ main = "forked"
    /\ main' = "bound" /\ open' = TRUE
    /\ UNCHANGED <<build, now, alive, receiver, handler, taken, knowsMac,
                   heartbeatNum, beatAt, last, spoke, left, parent>>

(* broadcast_login_msg. *)
BroadcastLogin ==
    /\ Runs("main") /\ main = "bound"
    /\ main' = "online"
    /\ Send("LOGIN", 0)
    /\ UNCHANGED <<build, now, alive, receiver, handler, taken, open, knowsMac,
                   heartbeatNum, beatAt, left, parent>>

(* v1 creates the receiver thread and sends its first heartbeat at once. *)
CreateReceiver ==
    /\ build = "v1" /\ Runs("main") /\ main = "online"
    /\ main' = "beating" /\ receiver' = "waiting" /\ beatAt' = now
    /\ UNCHANGED <<build, now, alive, handler, taken, open, knowsMac,
                   heartbeatNum, last, spoke, left, parent>>

(* v2 registers its events; the first heartbeat is due after a cycle. *)
EnterLoop ==
    /\ build = "v2" /\ Runs("main") /\ main = "online"
    /\ main' = "beating" /\ receiver' = "waiting" /\ beatAt' = now + HeartbeatCycle
    /\ UNCHANGED <<build, now, alive, handler, taken, open, knowsMac,
                   heartbeatNum, last, spoke, left, parent>>

(* send_heartbeat_msg of both builds: the time event of v2 does not run
   while the loop answers a query. *)
Beat ==
    /\ Runs("main") /\ main = "beating" /\ now >= beatAt
    /\ Send("HEARTBEAT", heartbeatNum)
    /\ heartbeatNum' = NextNum(heartbeatNum)
    /\ beatAt' = now + HeartbeatCycle
    /\ UNCHANGED <<build, now, alive, main, receiver, handler, taken, open, knowsMac, left, parent>>

SendHeartbeat == build = "v1" /\ Beat
HeartbeatEvent == build = "v2" /\ receiver = "waiting" /\ Beat

(* recv_msg_from_pc gets a query; a recvfrom that is already blocked does
   so even when a handler has closed the descriptor meanwhile. *)
RecvQuery ==
    /\ Runs(Receiving) /\ receiver = "waiting"
    /\ receiver' = "answering"
    /\ UNCHANGED <<build, now, alive, main, handler, taken, open, knowsMac,
                   heartbeatNum, beatAt, last, spoke, left, parent>>

(* replay_alive_msg; every later recvfrom on a closed descriptor fails. *)
ReplayAlive ==
    /\ Runs(Receiving) /\ receiver = "answering"
    /\ receiver' = IF open THEN "waiting" ELSE "failing"
    /\ Send("ACK_ALIVE", 0)
    /\ UNCHANGED <<build, now, alive, main, handler, taken, open, knowsMac,
                   heartbeatNum, beatAt, left, parent>>

-----------------------------------------------------------------------------
(* Signals.  A thread does not take a signal it is already handling. *)
TakeSignal(t, s) ==
    /\ Lives(t) /\ t \in Threads \cup {"parent"} /\ s \notin taken[t]
    /\ handler' = [handler EXCEPT ![t] = "logout"]
    /\ taken' = [taken EXCEPT ![t] = @ \cup {s}]
    /\ UNCHANGED <<build, now, alive, main, receiver, open, knowsMac,
                   heartbeatNum, beatAt, last, spoke, left, parent>>

(* release_exit: send_logout_msg, close, exit. *)
SendLogout(t) ==
    /\ alive /\ handler[t] = "logout"
    /\ handler' = [handler EXCEPT ![t] = "close"]
    /\ Send("LOGOUT", 0)
    /\ left' = TRUE
    /\ UNCHANGED <<build, now, alive, main, receiver, taken, open, knowsMac,
                   heartbeatNum, beatAt, parent>>

CloseSockets(t) ==
    /\ alive /\ handler[t] = "close"
    /\ handler' = [handler EXCEPT ![t] = "exit"]
    /\ open' = FALSE
    /\ UNCHANGED <<build, now, alive, main, receiver, taken, knowsMac,
                   heartbeatNum, beatAt, last, spoke, left, parent>>

(* Faulty variant of Exit: the handler returns to the program. *)
HandlerReturns(t) ==
    /\ alive /\ handler[t] = "exit"
    /\ handler' = [handler EXCEPT ![t] = "none"]
    /\ UNCHANGED <<build, now, alive, main, receiver, taken, open, knowsMac,
                   heartbeatNum, beatAt, last, spoke, left, parent>>

Exit(t) ==
    /\ alive /\ handler[t] = "exit"
    /\ alive' = FALSE
    /\ UNCHANGED <<build, now, main, receiver, handler, taken, open, knowsMac,
                   heartbeatNum, beatAt, last, spoke, left, parent>>

(* release_exit in the parent: a LOGOUT with the camera's MAC.  What it
   closes after that is its own. *)
ParentLogout ==
    /\ parent /\ handler["parent"] = "logout"
    /\ handler' = [handler EXCEPT !["parent"] = "exit"]
    /\ last' = [type |-> "LOGOUT", own |-> knowsMac, num |-> 0]
    /\ UNCHANGED <<build, now, alive, main, receiver, taken, open, knowsMac,
                   heartbeatNum, beatAt, spoke, left, parent>>

(* The parent exits after fork, or after its handler, or is killed. *)
ParentExit ==
    /\ parent /\ parent' = FALSE
    /\ handler' = [handler EXCEPT !["parent"] = "none"]
    /\ taken' = [taken EXCEPT !["parent"] = {}]
    /\ UNCHANGED <<build, now, alive, main, receiver, open, knowsMac,
                   heartbeatNum, beatAt, last, spoke, left>>

(* The power fails, a signal without a handler ends the process, or main
   exits on an error before LOGIN. *)
Crash ==
    /\ alive
    /\ alive' = FALSE
    /\ UNCHANGED <<build, now, main, receiver, handler, taken, open, knowsMac,
                   heartbeatNum, beatAt, last, spoke, left, parent>>

(* The program is started again, by who started it before and waits for its
   first process. *)
Restart ==
    /\ ~alive /\ ~parent
    /\ alive' = TRUE /\ main' = "boot" /\ receiver' = "none"
    /\ handler' = [t \in Process |-> "none"] /\ taken' = [t \in Process |-> {}]
    /\ open' = FALSE /\ knowsMac' = FALSE /\ left' = FALSE
    /\ heartbeatNum' = 0 /\ beatAt' = 0
    /\ UNCHANGED <<build, now, last, spoke, parent>>

(* Time passes.  What main does after LOGIN, a sleep, a time event and a
   handler's LOGOUT are at most MaxLate late. *)
Tick ==
    /\ alive /\ handler["main"] \in {"none", "logout"} =>
          /\ main = "online" => now + 1 <= spoke + MaxLate
          /\ main = "beating" => now + 1 <= beatAt + MaxLate
    /\ now' = now + 1
    /\ UNCHANGED <<build, alive, main, receiver, handler, taken, open, knowsMac,
                   heartbeatNum, beatAt, last, spoke, left, parent>>

Next ==
    \/ GetMac \/ Fork \/ InitSocket \/ BroadcastLogin
    \/ CreateReceiver \/ SendHeartbeat
    \/ EnterLoop \/ HeartbeatEvent
    \/ RecvQuery \/ ReplayAlive
    \/ \E t \in Process, s \in Signal : TakeSignal(t, s)
    \/ \E t \in Thread : SendLogout(t) \/ CloseSockets(t) \/ Exit(t)
    \/ ParentLogout \/ ParentExit
    \/ Crash \/ Restart
    \/ Tick

Spec == Init /\ [][Next]_deviceVars

-----------------------------------------------------------------------------
(* Properties *)

phase ==
    IF ~alive THEN "gone"
    ELSE IF left THEN "leaving"
    ELSE IF main \in {"online", "beating"} THEN "online" ELSE "starting"

Promise == INSTANCE Camera
             WITH Silence <- HeartbeatCycle + 2 * MaxLate, beats <- heartbeatNum, named <- knowsMac,
                  trailing <- (build = "v1")

(* Both builds keep the promise of a camera, wherever the signals interrupt
   them; only v1, whose other thread goes on, is a trailing one. *)
ImplementsCamera == Promise!CameraSpec

(* A camera sends its LOGOUT before it shuts down and answers queries while
   it is online (ipcam_search_protocol.txt:15-16, 28-29): so its LOGOUT is
   the last it says. *)
LogoutIsLast == [][left /\ last' # last => last'.type = "LOGOUT"]_deviceVars

=============================================================================
