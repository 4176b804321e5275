----------------------------- MODULE AeEventLoop -----------------------------
(***************************************************************************)
(* The event loop, ae.c, as the two v2 programs use it: aeMain repeats     *)
(* aeProcessEvents, which sleeps in epoll_wait, calls the procedure of     *)
(* every descriptor that fired and then walks the list of time events.     *)
(*                                                                         *)
(* Time events are linked at the head of the list and their numbers grow,  *)
(* so the list is the set of events in the order of falling numbers.  Time *)
(* is in milliseconds; a second has Second of them, because the code keeps *)
(* seconds and milliseconds apart and the sleep depends on both.  Outside  *)
(* the sleep one turn of the loop takes at most MaxWork.                   *)
(***************************************************************************)
EXTENDS Integers

CONSTANTS
    Fd,         \* descriptors with a file event
    Delay,      \* delays and periods of the program's time events
    Second,     \* milliseconds in a second, 1000 in the code
    MaxWork     \* what one turn of the loop takes outside its sleep, at most

(* The program's work takes less than a second and less than any delay it
   asks for, the smallest of which is 150 ms. *)
ASSUME LoopAssumption ==
    /\ Second \in Nat \ {0}
    /\ MaxWork \in Nat /\ MaxWork <= Second
    /\ Delay \subseteq Nat /\ \A d \in Delay : d > MaxWork

VARIABLES
    now,        \* gettimeofday, in milliseconds
    timers,     \* the time events
    nextId,     \* timeEventNextId
    pc,         \* where aeProcessEvents is
    wait,       \* the timeout of epoll_wait that is left, -1 for none
    fired,      \* descriptors that fired and were not handled yet
    maxId,      \* the last time event this pass handles
    te,         \* the time event the walk is at, None at the end
    spent,      \* work since epoll_wait returned
    ran         \* history: time events whose procedure ran in this pass

loopVars == <<now, timers, nextId, pc, wait, fired, maxId, te, spent, ran>>

None == -1
NoTimeout == -1
AE_NOMORE == -1

TimeEvent == [id : Nat, when : Nat]

Places == {"poll", "asleep", "files", "walk", "proc"}

TypeOK ==
    /\ now \in Nat
    /\ timers \subseteq TimeEvent
    /\ nextId \in Nat
    /\ pc \in Places
    /\ wait \in Nat \cup {NoTimeout}
    /\ fired \subseteq Fd
    /\ maxId \in Nat \cup {-1}
    /\ te \in Nat \cup {None}
    /\ spent \in 0..MaxWork
    /\ ran \subseteq Nat

-----------------------------------------------------------------------------
(* The list of time events *)

Ids == {t.id : t \in timers}

(* i is the number of the first event of S in the order of the list. *)
First(S, i) == IF S = {} THEN i = None ELSE i \in S /\ \A j \in S : j <= i

Head(i) == First({t.id : t \in timers'}, i)
After(i) == First({j \in Ids : j < te}, i)

(* Faulty variants: the sign is wrong, and a period is taken for none. *)
SubtractFromNow(d) == now - d
NoPause(d) == now

AddMillisecondsToNow(d) == now + d

Due(t) == now >= t.when

(* aeSearchNearestTimer. *)
Nearest(t) == t \in timers /\ \A u \in timers : t.when <= u.when

(* Faulty variant of PollTimeout: negative seconds are not set to 0. *)
UnclampedTimeout(when) == when - now

(* The timeout aeProcessEvents computes for the nearest event: seconds and
   milliseconds to its time, the seconds not below 0. *)
PollTimeout(when) ==
    LET borrow == when % Second < now % Second
        sec    == (when \div Second) - (now \div Second) - (IF borrow THEN 1 ELSE 0)
        ms     == (when % Second) - (now % Second) + (IF borrow THEN Second ELSE 0)
    IN  (IF sec < 0 THEN 0 ELSE sec * Second) + ms

-----------------------------------------------------------------------------
(* main registers one time event and enters aeMain. *)
Init ==
    /\ now \in 0..(Second - 1)
    /\ timers \in {{[id |-> 0, when |-> now + d]} : d \in Delay}
    /\ nextId = 1
    /\ pc = "poll" /\ wait = 0 /\ fired = {}
    /\ maxId = -1 /\ te = None
    /\ spent = 0 /\ ran = {}

(* aeProcessEvents up to epoll_wait. *)
Poll ==
    /\ pc = "poll"
    /\ pc' = "asleep"
    /\ IF timers = {}
       THEN wait' = NoTimeout
       ELSE \E t \in timers : Nearest(t) /\ wait' = PollTimeout(t.when)
    /\ UNCHANGED <<now, timers, nextId, fired, maxId, te, spent, ran>>

Sleep ==
    /\ pc = "asleep" /\ wait # 0
    /\ now' = now + 1
    /\ wait' = IF wait = NoTimeout THEN NoTimeout ELSE wait - 1
    /\ UNCHANGED <<timers, nextId, pc, fired, maxId, te, spent, ran>>

(* epoll_wait returns with descriptors, or because its time is over. *)
Wake ==
    /\ pc = "asleep"
    /\ fired' \in SUBSET Fd
    /\ fired' = {} => wait = 0
    /\ pc' = "files"
    /\ spent' = 0
    /\ UNCHANGED <<now, timers, nextId, wait, maxId, te, ran>>

(* Outside the sleep, and before it begins or after it ends, time passes. *)
Work ==
    /\ spent < MaxWork
    /\ spent' = spent + 1
    /\ now' = now + 1
    /\ UNCHANGED <<timers, nextId, pc, wait, fired, maxId, te, ran>>

(* Faulty variant of CreateTimeEvent: the number is used again. *)
CreateWithSameId(d) ==
    /\ pc = "proc" \/ (pc = "files" /\ fired # {})
    /\ timers' = timers \cup {[id |-> nextId - 1, when |-> AddMillisecondsToNow(d)]}
    /\ UNCHANGED <<now, nextId, pc, wait, fired, maxId, te, spent, ran>>

(* aeCreateTimeEvent, called by a procedure. *)
CreateTimeEvent(d) ==
    /\ pc = "proc" \/ (pc = "files" /\ fired # {})
    /\ timers' = timers \cup {[id |-> nextId, when |-> AddMillisecondsToNow(d)]}
    /\ nextId' = nextId + 1
    /\ UNCHANGED <<now, pc, wait, fired, maxId, te, spent, ran>>

(* The procedure of a descriptor that fired returns. *)
FileProcReturns(fd) ==
    /\ pc = "files" /\ fd \in fired
    /\ fired' = fired \ {fd}
    /\ UNCHANGED <<now, timers, nextId, pc, wait, maxId, te, spent, ran>>

(* processTimeEvents. *)
StartPass ==
    /\ pc = "files" /\ fired = {}
    /\ pc' = "walk"
    /\ maxId' = nextId - 1
    /\ UNCHANGED timers /\ Head(te')
    /\ ran' = {}
    /\ UNCHANGED <<now, nextId, wait, fired, spent>>

(* An event registered in this pass, or one whose time has not come. *)
PassOver ==
    /\ pc = "walk"
    /\ \E t \in timers : t.id = te /\ (te > maxId \/ ~Due(t))
    /\ After(te')
    /\ UNCHANGED <<now, timers, nextId, pc, wait, fired, maxId, spent, ran>>

CallTimeProc ==
    /\ pc = "walk" /\ te <= maxId
    /\ \E t \in timers : t.id = te /\ Due(t)
    /\ pc' = "proc"
    /\ ran' = ran \cup {te}
    /\ UNCHANGED <<now, timers, nextId, wait, fired, maxId, te, spent>>

(* The procedure returns: the event is deleted or gets its next time, and
   the walk starts again at the head. *)
TimeProcReturns(retval) ==
    /\ pc = "proc"
    /\ pc' = "walk"
    /\ timers' = {t \in timers : t.id # te} \cup
                 (IF retval = AE_NOMORE
                  THEN {}
                  ELSE {[id |-> te, when |-> AddMillisecondsToNow(retval)]})
    /\ Head(te')
    /\ UNCHANGED <<now, nextId, wait, fired, maxId, spent, ran>>

EndPass ==
    /\ pc = "walk" /\ te = None
    /\ pc' = "poll"
    /\ UNCHANGED <<now, timers, nextId, wait, fired, maxId, te, spent, ran>>

Next ==
    \/ Poll \/ Sleep \/ Wake \/ Work
    \/ \E d \in Delay : CreateTimeEvent(d)
    \/ \E fd \in Fd : FileProcReturns(fd)
    \/ StartPass \/ PassOver \/ CallTimeProc
    \/ \E r \in Delay \cup {AE_NOMORE} : TimeProcReturns(r)
    \/ EndPass

Spec == Init /\ [][Next]_loopVars

-----------------------------------------------------------------------------
(* Properties *)

(* No time event is ever later than a second and the work of two turns: the
   clamp of an overdue event's negative seconds leaves its milliseconds
   standing, so the loop can sleep through up to a second with a procedure
   due, but never longer. *)
MaxLate == Second + 2 * MaxWork
LateBound == \A t \in timers : now <= t.when + MaxLate

(* A pass runs no procedure twice, although it starts the walk again after
   every procedure and periodic events stay in the list: so it ends. *)
OncePerPass == [][CallTimeProc => te \notin ran]_loopVars

(* The loop keeps the promise of TimerService. *)
Service == INSTANCE TimerService WITH pending <- timers
ImplementsService == Service!ServiceSpec

(* What a comment says of the nearest event (ae.c:185-187): with its time
   the select can be put in sleep without to delay any event. *)
SleepDelaysNoEvent ==
    [][Poll => \A t \in timers : wait' # NoTimeout /\ (wait' = 0 \/ now + wait' <= t.when)]_loopVars

=============================================================================
