# A TLA+ model of the IP camera search protocol

Specifications, TLC configurations and TLAPS proofs for the programs of this
repository: a camera's program that announces itself on the local network and
a PC tool that keeps a queue of the cameras it has heard.

## The system

    camera program                    network (UDP)                PC tool
    ipcam_search_device.c     LOGIN, HEARTBEAT, LOGOUT (broadcast)   ipcam_search_pcv2.c
    ipcam_search_devicev2.c  ------------------------------------>     | calls
      |                       ACK_ALIVE (unicast)                      v
      | v2: events                                                  ipcam_list.c
      v                      <------------------------------------
    ae.c, ae_epoll.c          QUERY_ALIVE (broadcast)               ae.c, ae_epoll.c

| part | state | operations | what makes it correct |
|---|---|---|---|
| `ipcam_list.c` | heap nodes linked from a head node, each with a MAC and an alive flag | insert unless present, search, delete by MAC, delete all, free | one row per camera; a chain of allocated nodes; a logout removes exactly the sender's row |
| `ipcam_search_pcv2.c` | the list, the flags, time events of the loop | a handler per message type, the commands s r l q, the procedures of the watch and of the delayed listing | a row is alive, dead or absent as the protocol says, not dead too early and not alive for long after the last message; it fails only for causes that are known |
| `ae.c`, `ae_epoll.c` | list of time events, their counter, file events, the pending sleep | create and run time events, poll, call file events | no time event early, lost, run twice in a pass or later than a bound |
| `ipcam_search_device.c` (v1) | sockets, MAC, heartbeat number; two threads, signal handlers | announce, heartbeat, answer, leave | LOGIN first, LOGOUT last, never silent for long while online |
| `ipcam_search_devicev2.c` (v2) | the same, one thread and the loop | the same | the same |
| `ipcam_search_pc.c` (first tool) | list, flags; on Linux the loop, elsewhere three threads and a mutex | as the tool above, and lines of several commands, searches that sleep, `ctrl_c` | as above, and nothing that was freed is used |
| `already_running.c` | a pid file and its record lock | open, lock, truncate, write | one running instance per executable, named by its file; nobody kept out by what a dead one left |
| `socket_wrap.c`, `get_mac.c` | none | send one datagram; read a MAC | pure I/O |
| `para_parse.c`, `config_ipcam_info.c`, `anet.c`, `ae_kqueue.c`, `ae_select.c` | none | linked and never called, stubs, or not compiled | |

What is hard here: the heap behaviour of a list that frees nodes it keeps
linked; two marks in one flag that three kinds of calls write in any order;
periods that start when the last one was handled; a loop that restarts its walk
while procedures change the list; signal handlers that run on either of two
threads, at any point, and inside each other; cameras that vanish without a
word; datagrams that are lost, late, copied or overtaken; threads that meet on
one list, one of which frees it on its way out; a length from the network that
nothing compares with the room there is; starts and crashes of programs
that compete for one lock. `PROJECT.json` lists these at their lines under `hazards`.

## The modules

The specifications come in two layers. An abstract module says what a component
promises and a detailed one follows the code; each detailed module implements
its abstract one, and the promises are what the components rely on.

    System  joins  Camera  and  DeviceQueue  by a network
      ^              ^             ^
    Deployment       |             |
     joins         Device   and  PcTool      extends  IpcamList
                                   | its time events keep
                                   v
                              TimerService  <=  AeEventLoop

    DeviceQueue  <=  PcFirst            AlreadyRunning

    IpcamList and PcFirst extend MacAddress

An arrow up, or `<=`, says that the lower or right module implements the other.

| module | code | content |
|---|---|---|
| `MacAddress` | `ipcam_list.h`, `ipcam_list.c` | the key of a row, and what `strncmp` makes of it |
| `IpcamList` | `ipcam_list.c` | the list on heap blocks |
| `PcTool` | `ipcam_search_pcv2.c` | the tool, one action per message type, command and timer procedure |
| `DeviceQueue` | protocol text, lines 11-30 | each camera is absent, alive or dead |
| `AeEventLoop` | `ae.c`, `ae_epoll.c` | one turn of `aeMain` in its steps |
| `TimerService` | what users of the loop rely on | a set of time events that run in time |
| `Device` | both camera programs | threads, signal handlers, sockets, heartbeats |
| `Camera` | protocol text, lines 14-30 | the order of messages and the longest silence |
| `System` | both sides and `socket_wrap.c` | a camera, a network with faults, and the queue |
| `Deployment` | both programs and `socket_wrap.c` | `PcTool` and `Device` on one clock, a network between them, and the other cameras |
| `PcFirst` | `ipcam_search_pc.c` | the first tool, as a loop and as threads |
| `AlreadyRunning` | `already_running.c` | processes that compete for the lock of a pid file |
| `MC...` | | values and bounds for TLC |
| `...Proofs` | | theorems |

### IpcamList

`next` and `mac` are fields of heap blocks. Walks of the list are not
recursive: `Chain(nx, S)` is the least set that holds the head's successor and
is closed under `nx` inside `S`, `Exit(nx, S)` where the walk leaves it, so a
search is `Exit` of the blocks without the MAC, a cycle is a walk without an
exit and a walk over a wild pointer leaves to `Wild`. This is the whole heap
behaviour that the code depends on, taken from glibc's allocator on the
platform of the Makefile:

- `free` overwrites the first 16 bytes of the block (the MAC is among them)
  and leaves `alive_flag` and `next` alone;
- a node (96 bytes) and the receive buffer of HEARTBEAT, ACK_ALIVE and LOGOUT
  (80 + 6 + 8) are blocks of one size class, so a freed node may come back as
  either (`buf`, `WithBuffer`). The LOGIN that the camera's program sends has a
  buffer of another class (86); one with 9 to 24 bytes of `exten_msg`, which
  another sender is free to put there, has one of this class, so `Login` has a
  `buf` too;
- freeing a block that is free aborts the process.

`DeleteByMac` follows `delete_ipcam_node_by_mac` as it is: matches before the
first node that does not match are unlinked and freed, later ones are freed
and stay linked, because `curr` then points to a local variable. `strncmp`
(`StrncmpEq`) and `strvalncmp` (`Rows`) are told apart. `mode` says how the
process ended.

### PcTool and DeviceQueue

`flag` is `alive_flag`: bit 0 online, bit 1 "not heard since the last check".
`Login`, `Heartbeat`, `AckAlive`, `Logout` are the cases of `deal_msg_func`,
`WatchClear`, `WatchTest`, `ListLater` the timer procedures, `CmdSearch`,
`CmdRenew`, `CmdList`, `CmdQuit` the commands; the program is single-threaded
and each runs to its end. The cameras are an environment that may send
anything at any time, so what is shown does not depend on them. A timer
procedure runs at most `MaxLate` after its time (`Tick`). `heard` is a history
variable.

`deal_msg_func` copies `exten_len` bytes of a LOGIN to the MAC of a record on
its stack (line 197) and compares that length with nothing. The record has 76
bytes from its MAC on; what the copy writes there beyond the MAC is the name and
the start time, which the next lines write, and padding that is never read. So
`Login` is a LOGIN with up to 76 bytes. A longer one runs over the frame: where
no harm comes of it, it is a `Login` as well, otherwise the process is lost
(`LoginOverruns`).

`SpecMeant` is the tool restricted to the messages it was meant for: no LOGIN
overruns the stack, and what `strncmp` takes for the sender of a LOGOUT is at
most the sender's own row, at the head of the list (`OwnFirstRow`). There the
deletion does what it was meant to, and the tool implements `DeviceQueue` (`row`
is the refinement mapping from list and flags). `Spec` has no such restriction,
and `FailuresHaveCause` says of it that the two exclusions of `SpecMeant` are
exactly what can turn a sound list into a damaged one or stop the tool.

### AeEventLoop and TimerService

Time is in milliseconds with `Second` of them to a second, because the code
keeps seconds and milliseconds apart and `PollTimeout` depends on the borrow
between them. `Poll`, `Sleep`, `Wake`, `FileProcReturns`, `StartPass`,
`PassOver`, `CallTimeProc`, `TimeProcReturns` and `EndPass` are the steps of
`aeProcessEvents` and `processTimeEvents`; procedures call `CreateTimeEvent`
while they run. `Work` lets time pass at any of these points, at most `MaxWork`
between two sleeps. New events are linked at the head and ids grow, so the list
is the set of events in falling order of their ids.

`MaxLate == Second + 2 * MaxWork` is the lateness the loop guarantees, and it
is the parameter `MaxLate` of `TimerService`; `PcTool` asks of its time events
only what `TimerService` promises, with its own constant `MaxLate` for it.

### Device and Camera

One module for both builds: `build` is chosen in `Init`. `main`, `receiver` and
`handler[t]` are the positions of the main thread, of the receiver and of the
signal handler on thread `t`; `taken[t]` are the signals that thread is
handling. A thread whose handler is active does not run its program, the other
thread does. `SendLogout`, `CloseSockets` and `Exit` are the steps of
`release_exit`; a second signal starts them again, since a handler never
returns. A receiver that is blocked in `recvfrom` may get one more query after
the descriptor was closed. `Crash` and `Restart` are the power switch.

`Fork` leaves two processes that have the handlers and the MAC: the child goes on
as the camera, `parent` is about to exit. A signal that finds it before
(`ParentLogout`) sends a LOGOUT for a camera that does not leave, possibly while
it is online or after it was killed. `Restart` waits for the parent, as a shell
or an init script does.

`Camera` is the promise: LOGIN before everything else but a LOGOUT, one MAC for
all messages of a life, heartbeats numbered modulo the counter's range, nothing
after a LOGOUT but another LOGOUT, and no silence longer than
`Silence = HeartbeatCycle + 2 * MaxLate` while online; and, as long as `parent` is
there, LOGOUTs of the parent that are no sign of life. `trailing` is true for
v1: its other thread may still send between LOGOUT and exit.

### System

The two abstract modules are instantiated with a clock that always shows 0:
every time is counted back from the present and a tick moves it one step into
the past, as far as `Horizon`. That makes the state space finite without a bound
on the clock, which the liveness properties need. What the camera sends
(`last`) is put into `net` or lost (`Transmit`, at most `MaxLoss` of an online
camera's messages in a row, the parent's LOGOUTs not counted), travels for at most `MaxDelay`, is overtaken, and
may arrive more than once (`DeliverCopy`). The user renews the queue at any
time, the camera crashes and comes back at any time. `calm` is a history
variable: since when the camera is in its phase and its row was left alone.

`SystemAssumption` asks that a check takes longer than the gap between two
messages that arrive. `HEARTBEAT_CYCLE` is 10 s and `CHECK_IPCAM_CYCLE` 30 s:
this holds with one message in a row lost, not with two, and that is the loss
the design of the two periods tolerates.

### Deployment

`System` says what the promises of both sides come to; `Deployment` is the
programs themselves: the actions of `PcTool` (which it extends) and of `Device`
(`Dev`), each as it is, with `Transmit` between what one sends and `Handle`
what the other receives, and one clock (`TimePasses`). So its properties are
about what the user sees, `Shown`: a row of the heap list with the camera's MAC
and the online bit set. The properties take the program as far as `phase`, the place in its
code.

Other cameras are in the list too. They send anything at any time
(`OthersSend`), so the camera's row is behind any number of rows, in any order.
Messages that the camera sends before it knows its MAC are among theirs. What
is assumed:

- the messages are those of `SpecMeant`: with other logouts the list may be
  damaged (`logout_row`, `logout_other`), with an overlong LOGIN the tool may be
  gone, and nothing can be said of what is shown;
- a tool that was quit is started again before time passes (`StartTool`); while
  no tool runs, no camera is shown;
- `DeploymentAssumption`: a check outlasts the gap between messages that arrive.

The mapping to `System` counts times back from the present (`Ago`), looks at
one row, and takes the last message away as soon as something else has happened
(`fresh`).

### PcFirst

`build` chooses between `main` with `_LINUX_`, where the loop calls one handler
at a time, and `main` with three threads and a thread of the system's for
`ctrl_c`. `script[t]` is what thread `t`, or a call of the loop, still has to do;
`Lock` and `Unlock` stand for the mutex around each section, `todo` for the rows
that a walk has ahead, and a walk whose rows or list were freed ends
"undefined" (`UseAfterFree`). `Release` is `release_exit`, which takes no mutex.
The list is the sequence of its rows here, since its blocks are the subject of
`IpcamList`: `InsertOrMark`, `Delete`, `ClearAll`, `TestAll` are what the sections
do to it. A LOGOUT calls the same `delete_ipcam_node_by_mac` as in the other
tool: it deletes the rows at the head that `strncmp` takes for the sender's
(`Leading`); when there is one behind a row that stays (`Behind`), it frees that
node without unlinking it and reads it to go on, so the model ends there, in
both builds (`PcTool` follows what such a list does later). So it does after a
LOGIN that is too long for the receiver's stack (`Overrun`, line 256), which is
handled before the mutex is taken. `line` is the rest of a line of input: `run_cmd_by_string` runs one
letter after another, 'r' falls through to 's' and 's' to 'l', and each 's'
sleeps a second inside the loop. A thread waits for the mutex no longer than
`MaxLate` counts.

### AlreadyRunning

One action for each system call of `already_running` (`Open`, `Lock`, `Refused`,
`Truncate`, `Write`, `WriteFails`), by any number of processes of any number of
executables, since the file is named after the path; `End` at any point is a
crash or an exit and takes the lock along. `write` puts the terminating byte too, so the
file names its writer even when `ftruncate` failed before. Two executables at
different paths do not exclude one another.

## What TLC checks

| run | module, cfg | what it shows |
|---|---|---|
| `pc_tool` | MCPcTool, PcTool | `NoDuplicateRows`, also after the list was damaged, `OneWatchTimer`, `NoFalseDeath`, `DeathNoticed`, `TimersFollowService` for any messages and commands; `LogoutRemovesOwn` for addresses that do not agree up to a zero byte; `FailuresHaveCause`: only an overlong LOGIN, or a logout of something else than the sender's own first row, damages the list or stops the tool |
| `pc_queue` | MCPcTool, PcQueue | `ListSound`, `LogoutRemoves`, `ImplementsQueue` for the messages the tool was meant for (`SpecMeant`) |
| `ae_loop` | MCAeEventLoop, AeEventLoop | `LateBound`, `OncePerPass`, `ImplementsService` |
| `device` | MCDevice, Device | `ImplementsCamera` for both builds |
| `system` | System, System | `OnlineIsAlive`, `GoneIsNoticed`, `AliveHasSpoken` after a bounded time, `EventuallyAlive`, `EventuallyNotAlive` for good, whatever was lost, late or copied |
| `deployment` | MCDeployment, Deployment | `OnlineIsShown`, `EndedIsNotShown`: the list shows the camera's program as it is, after a bounded time |
| `pc_first` | MCPcFirst, PcFirst | `FaultHasCause`: a list freed under another thread, a LOGOUT of a row behind one that stays, or an overlong LOGIN, and nothing else; `QueueUntilFault`: until then both builds implement the queue |
| `already_running` | AlreadyRunning, AlreadyRunning | `OneInstance`, `FileKeepsPid`, `RefusedForInstance`, and `SomeoneRuns`: those that compete do not all refuse one another |
| `logout_row` | MCPcTool, LogoutRow | **violated**: a logout leaves a freed node linked (`ipcam_list.c:54`) |
| `logout_other` | MCPcTool, LogoutOther | **violated**: a logout deletes the row of a camera whose MAC agrees up to a zero byte (`ipcam_list.c:52`) |
| `overdue_sleep` | MCAeEventLoop, OverdueSleep | **violated**: the loop sleeps with a time event due (`ae.c:308`) |
| `logout_last` | MCDevice, LogoutLast | **violated**: a v1 camera speaks after its LOGOUT (`ipcam_search_device.c:244`) |

The violated properties state what the protocol text or a comment says;
`PROJECT.json` quotes the lines under `findings`. Two more differences from the
protocol text have no run of their own: a camera is marked dead after up to two
checks of silence where the text says 30 s (`DeathNoticed` and `MaxSilence`
state the bound that holds), and the answer of a camera that has a row does not
update it (`Announce` leaves `info` alone, as the code does).

### Bounds

- *Cameras and blocks.* MACs have two bytes in place of six: all that the code
  distinguishes is equality, and equality up to a common zero byte. Two cameras
  give a row before and one behind another, and two blocks a linked freed node,
  its reuse as a node (a cycle) and as a buffer; `logout_other` has two MACs that
  are equal for `strncmp`. Lists of any length and any MACs are the subject of
  `ListCorrect`. Blocks are symmetric where no property tells them apart.
- *Periods.* `CheckCycle = 2` and `MaxLate = 1` in the tool make every order of
  message, mark and test happen within `MaxTime = 6`: a silence of two late
  cycles, 6, with the camera still shown online is reached, and the states at 7,
  where it would be too long, are checked too though not continued from
  (`pc_queue` continues to 8). `MaxTimers` bounds
  `timeEventNextId`: 3 allows a listing next to the two watch events.
- *Loop.* `Second = 3`, `MaxWork = 2`, delays 3 and 5 reach every borrow
  between seconds and milliseconds, an overdue event before and after a change
  of second, and `MaxTime = 12` several turns with up to three events.
- *Camera.* `HeartbeatCycle = 2`, `MaxLate = 1`, `NumLimit = 3` in place of
  2^32: with `MaxTime = 8` the heartbeat number wraps. The two signals are
  symmetric, since no property names one.
- *System.* One camera: rows do not disturb one another. `Silence = 2`,
  `MaxLoss = 1`, `MaxDelay = 1` and `MinSilence = 6` are the tightest values of
  `SystemAssumption`, so that a loss and a delay together come within a tick of
  a false death. The network holds any set of datagrams. No bound cuts the
  state space.
- *Deployment.* The event loop build, two cameras and two blocks, one signal,
  `HeartbeatCycle = 1`, one loss in a row, no delay and `CheckCycle = 3`, the
  tightest check; `MaxTime = 7` lets `EndedIsNotShown` come due, after 6, and
  `OnlineIsShown`, after 2, again and again. `Few` cuts what `device` and
  `pc_tool` check on their own: one datagram is under way at a time, starts are
  in the first tick, the other camera announces itself in the first tick only
  (`heard[OtherMac] = 0`; its LOGOUT may come later), and listings and restarts
  of the tool come while the camera is at rest. `View` leaves out fields that are
  not read again. What the run cannot show by these bounds: with `MaxDelay = 0` and one datagram at a
  time nothing is overtaken, so no old heartbeat follows a LOGOUT; with
  `MaxTimers = 2` a search leaves no id for the periodic check, so none is
  followed past the first mark; `EndedIsNotShown` comes due only at the end of
  the horizon, for a camera that ended at its start; the other camera's row is
  never inserted between two checks. The threaded build has more than a million
  states under these bounds. It, longer delays, reordering and all that `Few`
  excludes are covered by the theorems about `Deployment` alone, and on the level
  of the promises by `system`.
- *First tool.* Two cameras, one row behind the other, a cycle, a sleep and a
  lateness of one tick and lines of up to two commands: two searches in a line
  make the loop later than a cycle. No bound cuts the state space: the tool only
  compares times, so `View` takes them from `now`, and leaves out a sender and
  an age that are not read again. The bound of the queue is reached.
- *Lock.* Three processes and two executables: two that compete, and one that
  is elsewhere or comes later. There is no bound.

Deadlock is checked in the runs of the loop, the camera, the system, the deployment and the
first tool (whose end is a step of its own, `Ended`) and the lock. The tool on its
own does stop (quit, failure), so `CHECK_DEADLOCK FALSE` there.

### Fairness

`System` assumes weak fairness of what goes on by itself: a heartbeat is sent
when it is due (`Beat`; `DeviceIsCamera` shows that an online camera cannot stay
silent), the process that forked exits (`ParentExit`; without that it could
remove the row again and again), a datagram under way arrives (`Deliver(d)`, each; loss is `Transmit`'s
choice), the watch marks what it has to (`MarkDead`; `WatchNeverStops`), and time
passes. The user, the power switch, restarts and copies are not relied on, and
`EventuallyAlive` says so: it asks that the user stops renewing.

`AlreadyRunning` assumes that a process that was started takes its next step
and that `main` exits when it was refused; no instance need ever end and none
need be started.

The other specifications assume no fairness. What "eventually" would say is
said with bounds on time: a time event runs within `MaxLate`, a silent camera is
marked within two late cycles, an online camera speaks within `Silence`. The
bounds come from the guards of the `Tick` actions, which say that a runnable
procedure or thread is not delayed for ever; that of the loop is derived from
the work between two sleeps.

## What TLAPS proves

All theorems hold for every value of the constants under the named assumptions
(`MacAssumption`, `NameAssumption`, `PeriodAssumption`, `LoopAssumption`,
`DeviceAssumption`, `SystemAssumption`, `DeploymentAssumption`, `FirstAssumption`,
`NoPidAssumption`), among them that `MaxWork` is at most a second and less than
any delay, which the smallest, 150 ms, satisfies when handlers are short.

- `IpcamListProofs`: `ListCorrect`, types and `NoDuplicateRows`, inductive
  together as they stand: the new node of an insertion is the only one with its
  MAC because the search ended at the null pointer. The lemmas on `Chain` and
  `Exit` (where a walk goes when one `next` field changes, or when nodes are cut
  off) carry the argument; they use only that `Chain` is the least closed set.
- `PcToolProofs`: `TypeCorrect`; `WatchNeverStops`; `DeathIsTimely`
  (`NoFalseDeath`, `DeathNoticed`). These are not inductive: `TimingInv`
  relates the time of the watch timer to the flags: a row with flag 1 was heard
  since the last check, one with flag 3 in the late cycle before it, one with
  flag 2 not even then, and the watch timer is not overdue by more than
  `MaxLate`. `FailuresCaused` shows that each step that is not one of the two
  exclusions keeps `SoundInv` (a chain of allocated nodes ending in the null
  pointer), for any list that has it, whatever came before. `MeantStaysSound`,
  `ToolImplementsQueue` and `MeantLogoutRemoves` follow for `SpecMeant`.
  `ToolUsesService` maps each action to a step of `TimerService`.
  `MeantLogoutRemoves` and `LogoutRemovesOwnUnlessZero` say when the two
  properties that TLC refutes do hold: the first when logouts concern at most the
  sender's own first row, the second, also for a damaged list, when no two
  addresses agree up to a zero byte. So the two findings have these causes and
  no others.
- `AeEventLoopProofs`: `TimersAreTimely` (`LateBound`), `PassRunsOnce`
  and `LoopImplementsService`. `LoopInv` says per place of the loop how late an
  event can be: asleep, what is left of the timeout ends less than a second and
  the turn's work after its time; in a walk, an event that lies behind is late
  by no more than the work of this turn, since it was not due when the walk
  passed it. An event that ran has a time that no work of this turn can reach,
  which is why it does not run again.
- `DeviceProofs`: `DeviceIsCamera`. `PlaceInv` says that a handler past its
  LOGOUT has sent it and that the only thread of v2 does not leave its handler;
  `SilenceInv` that the next heartbeat is due within a cycle and a delay of the
  last message. `LoopBuildSpeaksNoMore` is the third refuted property,
  `LogoutIsLast`, which v2 has.

- `SystemProofs`: `OnlineCamerasAreAlive`, `GoneCamerasAreNoticed`,
  `AliveCamerasHaveSpoken`. The
  invariant behind the first (`Connected`) says that since the camera was last
  heard, or its row last removed, either all its messages were lost, so few that
  they bridge only a gap, or one that was sent within the gap is under way; a
  check is longer than that. Behind the second (`GoneInv`):
  what is under way from a former life is gone after `MaxDelay`, and from then
  on the row only ages. A LOGOUT of the parent disturbs neither: it is no
  sign of life, and when it removes a row, the time of `OnlineIsAlive` starts over.
  Behind the third (`SpokenInv`): what is under way was sent, and what was heard
  came at most `MaxDelay` after the camera spoke, also at the horizon.
- `DeploymentProofs`: `DeploymentImplementsSystem`, and from it and the theorems
  on `System` `OnlineCamerasAreShown`, `EndedCamerasAreNotShown` and
  `ShownCamerasHaveSpoken`, for both builds of the camera, any number of other
  cameras and all values of the constants. `DeploymentInv` joins the invariants
  of `DeviceProofs` and `PcToolProofs` with the ranges of what the network keeps; each is kept by the other program's
  steps, since those leave its variables alone, and a tool that starts again is
  as at its first start but for the clock. Each action is then related to
  `System` by way of the promise its program has been proved to keep: a message
  sent is `Camera`'s step and `Transmit`, a datagram handled is `DeviceQueue`'s
  step and `Receive`, a check that marks the row is `MarkDead`, one that does not
  is unseen, and a tick is allowed because neither the camera nor the watch is
  later than its invariant says. `DeploymentTypes` adds the unique rows.
- `PcFirstProofs`: `FaultsHaveCause` and `FirstKeepsQueue`, for both
  builds, the second for addresses that `strncmp` tells apart. `FirstInv` says what each thread can have in its script, that the loop
  has one busy call at a time, that sections exclude one another and find their
  rows while the list is not released, and that a loop that released has only
  its exit left. `LogoutListed` says that a LOGOUT that meets no row behind one
  that stays takes exactly the rows `strncmp` finds. `TimeInv` relates the age of a row's last message to its flag,
  measured from the next round of the watch as in `PcToolProofs`, and adds a
  budget: a loop that still has `n` commands of a line to run is early enough
  for `n` more sleeps.
- `AlreadyRunningProofs`: `AtMostOneInstance`, `PidFileIsKept`,
  `RefusalsAreFounded`. Whoever is past the lock holds it, and whoever holds it
  is past the lock; the rest follows.

Every invariant, action property and refinement of a passing run is covered by
one of these theorems; `ImplementsSystem` and `ShownHasSpoken` are proved and
have no run of their own. Only model-checked are the liveness properties
`EventuallyAlive`, `EventuallyNotAlive` and `SomeoneRuns`, since liveness under
fairness is out of the prover's reach, and the violated properties, as
counterexamples. No invariant depends on recursion over data.

## Not modelled

- `para_parse.c` and `config_ipcam_info.c`: linked and never called, or a
  constant; no behaviour of the programs depends on them.
- `ae_kqueue.c`, `ae_select.c`, `anet.c`: not compiled or not called on the
  platforms of the Makefile; `AeEventLoop` models what `ae_epoll.c` does.
- `get_mac` reads the address from the kernel or fails, which `Name` in `Camera`
  and `Device` may do late or never.
- Steps of the wall clock, exhaustion of memory,
  and the buffering of standard input are hazards without a property, with
  their reasons in `PROJECT.json`.
- The end of input in the loop build of the first tool: the loop does not look
  at `get_line`'s result and is called again at once. `dealcmd` then finds no
  command, which is no step of `PcFirst`; the time it burns is part of
  `MaxLate`.
- A user who removes a pid file under a running instance, which would let a
  second one in.

## Order of the work

`IpcamList`, `PcTool` with `DeviceQueue`, `AeEventLoop` with `TimerService` and
`Device` with `Camera` came first, since they carry the protocol; then `System`,
which says what they are for, and the parts with processes and threads of their
own, `PcFirst` and `AlreadyRunning`; last `Deployment`, which shows of the
programs what `System` shows of their promises. What could follow, by what it
would show:

1. Logouts in any order of the rows in `Deployment`, once the deletion in
   `ipcam_list.c` removes exactly the sender's row and LOGIN's length is checked;
   `PcTool`'s `SpecMeant` would then be `Spec`. Cameras that share a MAC.
2. `ParaParse`, when a program begins to call it: functions on short strings
   against a reference definition.
