-------------------------- MODULE AeEventLoopProofs --------------------------
(***************************************************************************)
(* Proofs about AeEventLoop: types, the bound on how late a procedure runs *)
(* and that the loop implements TimerService.                              *)
(***************************************************************************)
EXTENDS AeEventLoop, TLAPS

(* Quotient and remainder of a time by the length of a second. *)
LEMMA SecondsAndMilliseconds ==
  ASSUME NEW x \in Nat
  PROVE  /\ x \div Second \in Int
         /\ x % Second \in Int
         /\ 0 <= x % Second /\ x % Second < Second
         /\ x = Second * (x \div Second) + (x % Second)
BY LoopAssumption

(* The timeout of an event that is not overdue is the time it is ahead. *)
LEMMA TimeoutAhead ==
  ASSUME NEW when \in Nat, now \in Nat, now <= when
  PROVE  PollTimeout(when) = when - now
<1> DEFINE a == when \div Second  b == now \div Second
           r == when % Second     s == now % Second
           carry == IF r < s THEN 1 ELSE 0
           sec == a - b - carry
           ms == r - s + carry * Second
<1>1. a \in Int /\ b \in Int /\ r \in Int /\ s \in Int /\ Second \in Nat \ {0}
  BY SecondsAndMilliseconds, LoopAssumption
<1>2. /\ 0 <= r /\ r < Second /\ 0 <= s /\ s < Second
      /\ when = Second * a + r /\ now = Second * b + s
  BY SecondsAndMilliseconds
<1> HIDE DEF a, b, r, s
<1>3. ms \in 0..(Second - 1)
  BY <1>1, <1>2
<1>4. when - now = sec * Second + ms
  BY <1>1, <1>2
<1>5. sec >= 0
  <2>1. SUFFICES ASSUME sec <= -1 PROVE FALSE
    BY <1>1
  <2>2. sec * Second <= - Second
    BY <2>1, <1>1
  <2> QED BY <2>2, <1>3, <1>4, <1>1
<1>6. PollTimeout(when) = (IF sec < 0 THEN 0 ELSE sec * Second) + ms
  BY <1>1 DEF PollTimeout, a, b, r, s
<1> QED BY <1>3, <1>4, <1>5, <1>6, <1>1

(* The timeout of an overdue event ends a second after its time. *)
LEMMA TimeoutOverdue ==
  ASSUME NEW when \in Nat, now \in Nat, when < now, now <= when + Second
  PROVE  PollTimeout(when) \in Nat /\ now + PollTimeout(when) <= when + Second
<1> DEFINE a == when \div Second  b == now \div Second
           r == when % Second     s == now % Second
           carry == IF r < s THEN 1 ELSE 0
           sec == a - b - carry
           ms == r - s + carry * Second
<1>1. a \in Int /\ b \in Int /\ r \in Int /\ s \in Int /\ Second \in Nat \ {0}
  BY SecondsAndMilliseconds, LoopAssumption
<1>2. /\ 0 <= r /\ r < Second /\ 0 <= s /\ s < Second
      /\ when = Second * a + r /\ now = Second * b + s
  BY SecondsAndMilliseconds
<1> HIDE DEF a, b, r, s
<1>3. ms \in 0..(Second - 1)
  BY <1>1, <1>2
<1>4. when - now = sec * Second + ms
  BY <1>1, <1>2
<1>5. sec <= -1
  <2>1. SUFFICES ASSUME sec >= 0 PROVE FALSE
    BY <1>1
  <2>2. sec * Second >= 0
    BY <2>1, <1>1
  <2> QED BY <2>2, <1>3, <1>4, <1>1
<1>6. sec = -1
  <2>1. SUFFICES ASSUME sec <= -2 PROVE FALSE
    BY <1>1, <1>5
  <2>2. sec * Second <= -2 * Second
    BY <2>1, <1>1
  <2> QED BY <2>2, <1>3, <1>4, <1>1
<1>7. PollTimeout(when) = (IF sec < 0 THEN 0 ELSE sec * Second) + ms
  BY <1>1 DEF PollTimeout, a, b, r, s
<1>8. PollTimeout(when) = ms
  BY <1>3, <1>5, <1>7, <1>1
<1>9. ms = when - now + Second
  BY <1>4, <1>6, <1>1
<1> QED BY <1>3, <1>8, <1>9, <1>1

-----------------------------------------------------------------------------
(* The inductive invariant *)

(* Numbers identify events and are below the next one. *)
IdInv ==
    /\ \A t, u \in timers : t.id = u.id => t = u
    /\ \A t \in timers : t.id < nextId
    /\ maxId < nextId
    /\ pc = "proc" => \E t \in timers : t.id = te /\ Due(t)

(* How late an event can be at each place of a turn.  An event that the walk
   has behind it was not due when the walk passed it, or is newer than that;
   what the loop sleeps beyond an event's time is less than a second. *)
LateInv ==
    /\ pc = "poll" => \A t \in timers : now <= t.when + spent
    /\ pc = "asleep" =>
         \A t \in timers : wait \in Nat /\ now + wait <= t.when + Second + spent
    /\ pc = "files" => \A t \in timers : now <= t.when + Second + MaxWork + spent
    /\ pc \in {"walk", "proc"} =>
         \A t \in timers :
            /\ now <= t.when + Second + MaxWork + spent
            /\ te < t.id \/ maxId < t.id => now <= t.when + spent

(* An event that ran in this pass has got a time no work of this turn can
   reach. *)
OnceInv ==
    /\ \A i \in ran : i < nextId
    /\ pc \in {"walk", "proc"} =>
         \A t \in timers :
            t.id \in ran => (pc = "proc" /\ te = t.id) \/ t.when > now - spent + MaxWork

LoopInv == TypeOK /\ IdInv /\ LateInv /\ OnceInv

LEMMA FirstIsLast ==
  ASSUME NEW S, NEW i, First(S, i)
  PROVE  /\ i \in S \cup {None}
         /\ S # {} => i \in S
         /\ \A j \in S : j <= i
BY DEF First

LEMMA InitLoopInv == Init => LoopInv
<1> SUFFICES ASSUME Init PROVE LoopInv
  OBVIOUS
<1>1. now \in Nat
  BY LoopAssumption DEF Init
<1>2. PICK d \in Delay : timers = {[id |-> 0, when |-> now + d]}
  BY DEF Init
<1>3. d \in Nat
  BY LoopAssumption
<1> QED
  BY <1>1, <1>2, <1>3, LoopAssumption
  DEF Init, LoopInv, TypeOK, IdInv, LateInv, OnceInv, TimeEvent, Places, None, NoTimeout

LEMMA NextLoopInv == LoopInv /\ [Next]_loopVars => LoopInv'
<1> SUFFICES ASSUME LoopInv, [Next]_loopVars PROVE LoopInv'
  OBVIOUS
<1> USE LoopAssumption DEF LoopInv, None, NoTimeout, AE_NOMORE
<1>1. CASE Poll
  <2>1. TypeOK'
    <3>1. wait' \in Nat \cup {NoTimeout}
      <4>1. CASE timers = {}
        BY <1>1, <4>1 DEF Poll
      <4>2. CASE timers # {}
        <5>1. PICK t \in timers : Nearest(t) /\ wait' = PollTimeout(t.when)
          BY <1>1, <4>2 DEF Poll
        <5>2. t.when \in Nat /\ now \in Nat /\ now <= t.when + Second
          BY <1>1 DEF TypeOK, TimeEvent, LateInv, Poll
        <5>3. CASE now <= t.when
          BY <5>1, <5>2, <5>3, TimeoutAhead
        <5>4. CASE t.when < now
          BY <5>1, <5>2, <5>4, TimeoutOverdue
        <5> QED BY <5>2, <5>3, <5>4
      <4> QED BY <4>1, <4>2
    <3> QED BY <1>1, <3>1 DEF Poll, TypeOK, Places
  <2>2. IdInv'
    BY <1>1 DEF Poll, IdInv, TypeOK
  <2>3. LateInv'
    <3>1. ASSUME NEW u \in timers
          PROVE  wait' \in Nat /\ now + wait' <= u.when + Second + spent
      <4>1. PICK t \in timers : Nearest(t) /\ wait' = PollTimeout(t.when)
        BY <1>1, <3>1 DEF Poll
      <4>2. /\ t.when \in Nat /\ u.when \in Nat /\ now \in Nat /\ spent \in Nat
            /\ now <= t.when + Second /\ t.when <= u.when
        BY <1>1, <4>1 DEF TypeOK, TimeEvent, LateInv, Poll, Nearest
      <4>3. CASE now <= t.when
        BY <4>1, <4>2, <4>3, TimeoutAhead
      <4>4. CASE t.when < now
        BY <4>1, <4>2, <4>4, TimeoutOverdue
      <4> QED BY <4>2, <4>3, <4>4
    <3> QED BY <1>1, <3>1 DEF Poll, LateInv
  <2>4. OnceInv'
    BY <1>1 DEF Poll, OnceInv
  <2> QED BY <2>1, <2>2, <2>3, <2>4
<1>2. CASE Sleep
  BY <1>2 DEF Sleep, TypeOK, TimeEvent, IdInv, LateInv, OnceInv, Due
<1>3. CASE Wake
  <2>1. TypeOK' /\ IdInv' /\ OnceInv'
    BY <1>3 DEF Wake, TypeOK, Places, IdInv, OnceInv
  <2>2. LateInv'
    BY <1>3 DEF Wake, TypeOK, TimeEvent, LateInv
  <2> QED BY <2>1, <2>2
<1>4. CASE Work
  <2>1. TypeOK'
    BY <1>4 DEF Work, TypeOK
  <2>2. IdInv'
    BY <1>4 DEF Work, TypeOK, TimeEvent, IdInv, Due
  <2>3. LateInv'
    BY <1>4 DEF Work, TypeOK, TimeEvent, LateInv
  <2>4. OnceInv'
    BY <1>4 DEF Work, TypeOK, TimeEvent, OnceInv
  <2> QED BY <2>1, <2>2, <2>3, <2>4
<1>5. ASSUME NEW d \in Delay, CreateTimeEvent(d) PROVE LoopInv'
  <2> DEFINE e == [id |-> nextId, when |-> now + d]
  <2>1. /\ timers' = timers \cup {e} /\ nextId' = nextId + 1
        /\ UNCHANGED <<now, pc, wait, fired, maxId, te, spent, ran>>
        /\ pc \in {"files", "proc"}
    BY <1>5 DEF CreateTimeEvent, AddMillisecondsToNow
  <2>2. e \in TimeEvent /\ e.id = nextId /\ e.when = now + d /\ now <= e.when
    BY DEF TypeOK, TimeEvent
  <2> HIDE DEF e
  <2>3. TypeOK'
    BY <2>1, <2>2 DEF TypeOK
  <2>4. IdInv'
    BY <2>1, <2>2 DEF TypeOK, TimeEvent, IdInv, Due
  <2>5. LateInv'
    BY <2>1, <2>2 DEF TypeOK, TimeEvent, LateInv
  <2>6. OnceInv'
    BY <2>1, <2>2 DEF TypeOK, TimeEvent, OnceInv
  <2> QED BY <2>3, <2>4, <2>5, <2>6
<1>6. ASSUME NEW fd \in Fd, FileProcReturns(fd) PROVE LoopInv'
  BY <1>6 DEF FileProcReturns, TypeOK, IdInv, LateInv, OnceInv, Due
<1>7. CASE StartPass
  <2>1. /\ \A t \in timers : t.id <= te'
        /\ te' \in Nat \cup {None}
    BY <1>7 DEF StartPass, Head, First, TypeOK, TimeEvent
  <2>2. TypeOK'
    BY <1>7, <2>1 DEF StartPass, TypeOK, Places
  <2>3. IdInv'
    BY <1>7 DEF StartPass, TypeOK, IdInv
  <2>4. LateInv'
    BY <1>7, <2>1 DEF StartPass, TypeOK, TimeEvent, IdInv, LateInv
  <2>5. OnceInv'
    BY <1>7 DEF StartPass, OnceInv
  <2> QED BY <2>2, <2>3, <2>4, <2>5
<1>8. CASE PassOver
  <2>1. PICK p \in timers : p.id = te /\ (te > maxId \/ ~Due(p))
    BY <1>8 DEF PassOver
  <2>2. /\ te' \in Nat \cup {None}
        /\ \A t \in timers : t.id < te => t.id <= te'
    BY <1>8 DEF PassOver, After, First, Ids, TypeOK, TimeEvent
  <2>3. TypeOK'
    BY <1>8, <2>2 DEF PassOver, TypeOK
  <2>4. IdInv'
    BY <1>8 DEF PassOver, TypeOK, IdInv
  <2>5. ASSUME NEW t \in timers, te' < t.id PROVE now <= t.when + spent
    <3>1. t.id \in Nat /\ t.when \in Nat /\ te \in Nat /\ now \in Nat /\ spent \in Nat
      BY <2>1 DEF TypeOK, TimeEvent
    <3>2. CASE te < t.id
      BY <1>8, <3>2 DEF PassOver, LateInv
    <3>3. CASE t.id = te
      <4>1. t = p
        BY <2>1, <3>3 DEF IdInv
      <4>2. CASE te > maxId
        BY <1>8, <3>3, <4>2, <3>1 DEF PassOver, LateInv, TypeOK
      <4>3. CASE ~Due(p)
        BY <4>1, <4>3, <3>1 DEF Due
      <4> QED BY <2>1, <4>2, <4>3
    <3>4. ~(t.id < te)
      BY <2>2, <2>5, <3>1
    <3> QED BY <3>1, <3>2, <3>3, <3>4
  <2>6. LateInv'
    BY <1>8, <2>5 DEF PassOver, LateInv
  <2>7. OnceInv'
    BY <1>8 DEF PassOver, OnceInv
  <2> QED BY <2>3, <2>4, <2>6, <2>7
<1>9. CASE CallTimeProc
  <2>1. PICK p \in timers : p.id = te /\ Due(p)
    BY <1>9 DEF CallTimeProc
  <2>2. te \in Nat /\ te < nextId
    BY <2>1 DEF TypeOK, TimeEvent, IdInv
  <2>3. TypeOK'
    BY <1>9, <2>2 DEF CallTimeProc, TypeOK, Places
  <2>4. IdInv'
    BY <1>9, <2>1 DEF CallTimeProc, IdInv, Due
  <2>5. LateInv'
    BY <1>9 DEF CallTimeProc, LateInv
  <2>6. OnceInv'
    BY <1>9, <2>2 DEF CallTimeProc, OnceInv
  <2> QED BY <2>3, <2>4, <2>5, <2>6
<1>10. ASSUME NEW r \in Delay \cup {AE_NOMORE}, TimeProcReturns(r) PROVE LoopInv'
  <2>1. /\ pc = "proc" /\ pc' = "walk"
        /\ UNCHANGED <<now, nextId, wait, fired, maxId, spent, ran>>
    BY <1>10 DEF TimeProcReturns
  <2>2. /\ te' \in {t.id : t \in timers'} \cup {None}
        /\ \A t \in timers' : t.id <= te'
    BY <1>10 DEF TimeProcReturns, Head, First
  <2>3. te \in Nat /\ te < nextId
    BY <2>1 DEF IdInv, TypeOK, TimeEvent
  <2>4. ASSUME NEW t \in timers'
        PROVE  \/ t \in timers /\ t.id # te
               \/ t.id = te /\ t \in TimeEvent /\ t.when > now + MaxWork
    BY <1>10, <2>3 DEF TimeProcReturns, AddMillisecondsToNow, TypeOK, TimeEvent
  <2>5. timers' \subseteq TimeEvent
    BY <2>4 DEF TypeOK
  <2>6. TypeOK'
    BY <2>1, <2>2, <2>5 DEF TypeOK, TimeEvent, Places
  <2>7. IdInv'
    <3>1. \A t, u \in timers' : t.id = u.id => t = u
      BY <1>10, <2>3 DEF TimeProcReturns, IdInv, TypeOK, TimeEvent
    <3>2. \A t \in timers' : t.id < nextId
      BY <2>3, <2>4 DEF IdInv
    <3> QED BY <2>1, <3>1, <3>2 DEF IdInv
  <2>8. LateInv'
    <3>1. ASSUME NEW t \in timers'
          PROVE  /\ now <= t.when + Second + MaxWork + spent
                 /\ ~(te' < t.id)
                 /\ maxId < t.id => now <= t.when + spent
      <4>1. t.id \in Nat /\ t.when \in Nat /\ now \in Nat /\ spent \in Nat
        BY <2>5 DEF TimeEvent, TypeOK
      <4>2. te' \in Int
        BY <2>6 DEF TypeOK
      <4>3. CASE t \in timers /\ t.id # te
        BY <2>1, <2>2, <4>1, <4>2, <4>3 DEF LateInv
      <4>4. CASE t.when > now + MaxWork
        BY <2>2, <4>1, <4>2, <4>4
      <4> QED BY <2>4, <4>3, <4>4
    <3> QED BY <2>1, <3>1 DEF LateInv
  <2>9. OnceInv'
    <3>1. ASSUME NEW t \in timers', t.id \in ran
          PROVE  t.when > now - spent + MaxWork
      <4>1. t.id \in Nat /\ t.when \in Nat /\ now \in Nat /\ spent \in Nat
        BY <2>5 DEF TimeEvent, TypeOK
      <4>2. CASE t \in timers /\ t.id # te
        BY <2>1, <3>1, <4>2 DEF OnceInv
      <4>3. CASE t.when > now + MaxWork
        BY <4>1, <4>3
      <4> QED BY <2>4, <4>2, <4>3
    <3> QED BY <2>1, <3>1 DEF OnceInv
  <2> QED BY <2>6, <2>7, <2>8, <2>9
<1>11. CASE EndPass
  <2>1. \A t \in timers : te < t.id
    BY <1>11 DEF EndPass, TypeOK, TimeEvent
  <2>2. TypeOK' /\ IdInv' /\ OnceInv'
    BY <1>11 DEF EndPass, TypeOK, Places, IdInv, OnceInv
  <2>3. LateInv'
    BY <1>11, <2>1 DEF EndPass, LateInv
  <2> QED BY <2>2, <2>3
<1>12. CASE UNCHANGED loopVars
  BY <1>12 DEF loopVars, TypeOK, IdInv, LateInv, OnceInv, Due
<1> QED
  BY <1>1, <1>2, <1>3, <1>4, <1>5, <1>6, <1>7, <1>8, <1>9, <1>10, <1>11, <1>12 DEF Next

(* No time event is ever later than a second and the work of two turns of
   the loop, whatever the second, the work and the delays are. *)
THEOREM TimersAreTimely == Spec => []TypeOK /\ []LateBound
<1>1. LoopInv => LateBound
  <2> SUFFICES ASSUME LoopInv, NEW t \in timers PROVE now <= t.when + MaxLate
    BY DEF LateBound
  <2>1. /\ now \in Nat /\ t.when \in Nat /\ spent \in 0..MaxWork /\ pc \in Places
        /\ Second \in Nat /\ MaxWork \in Nat
    BY LoopAssumption DEF LoopInv, TypeOK, TimeEvent
  <2>2. CASE pc = "asleep"
    BY <2>1, <2>2 DEF LoopInv, LateInv, MaxLate
  <2>3. CASE pc # "asleep"
    BY <2>1, <2>3 DEF LoopInv, LateInv, MaxLate, Places
  <2> QED BY <2>2, <2>3
<1> QED BY <1>1, InitLoopInv, NextLoopInv, PTL DEF Spec, LoopInv

LEMMA NotTwice == LoopInv /\ CallTimeProc => te \notin ran
<1> SUFFICES ASSUME LoopInv, CallTimeProc, te \in ran PROVE FALSE
  OBVIOUS
<1>1. PICK t \in timers : t.id = te /\ Due(t)
  BY DEF CallTimeProc
<1>2. t.when > now - spent + MaxWork
  BY <1>1 DEF LoopInv, OnceInv, CallTimeProc
<1>3. now \in Nat /\ t.when \in Nat /\ spent \in Nat /\ spent <= MaxWork /\ now >= t.when
  BY <1>1, LoopAssumption DEF LoopInv, TypeOK, TimeEvent, Due
<1> QED BY <1>2, <1>3, LoopAssumption

(* No pass runs a procedure twice: every pass ends, however often the walk
   starts again at the head. *)
THEOREM PassRunsOnce == Spec => OncePerPass
<1>1. LoopInv /\ [Next]_loopVars => [CallTimeProc => te \notin ran]_loopVars
  BY NotTwice
<1> QED BY <1>1, InitLoopInv, NextLoopInv, PTL DEF Spec, OncePerPass

LEMMA InitService == Init => Service!ServiceInit
BY LoopAssumption DEF Init, Service!ServiceInit

LEMMA NextService ==
  LoopInv /\ LoopInv' /\ LateBound' /\ [Next]_loopVars
     => [Service!ServiceNext]_(Service!serviceVars)
<1> SUFFICES ASSUME LoopInv, LoopInv', LateBound', [Next]_loopVars
             PROVE  [Service!ServiceNext]_(Service!serviceVars)
  OBVIOUS
<1> USE DEF Service!serviceVars
<1>1. \A t, u \in timers' : t.id = u.id => t = u
  BY DEF LoopInv, IdInv
<1>2. CASE now' = now + 1 /\ UNCHANGED timers
  <2>1. \A t \in timers : now + 1 <= t.when + MaxLate
    BY <1>2 DEF LateBound, MaxLate
  <2> QED BY <1>2, <2>1 DEF Service!ServiceNext, Service!Tick
<1>3. CASE Sleep
  BY <1>2, <1>3 DEF Sleep
<1>4. CASE Work
  BY <1>2, <1>4 DEF Work
<1>5. ASSUME NEW d \in Delay, CreateTimeEvent(d)
      PROVE  [Service!ServiceNext]_(Service!serviceVars)
  <2>1. now \in Nat /\ d \in Nat
    BY LoopAssumption DEF LoopInv, TypeOK
  <2>2. Service!Register
    BY <1>1, <1>5, <2>1
    DEF CreateTimeEvent, AddMillisecondsToNow, Service!Register, Service!Registered
  <2> QED BY <2>2 DEF Service!ServiceNext
<1>6. ASSUME NEW r \in Delay \cup {AE_NOMORE}, TimeProcReturns(r)
      PROVE  [Service!ServiceNext]_(Service!serviceVars)
  <2>1. now \in Nat /\ \A d \in Delay : d \in Nat
    BY LoopAssumption DEF LoopInv, TypeOK
  <2>2. PICK t \in timers : t.id = te /\ Due(t)
    BY <1>6 DEF TimeProcReturns, LoopInv, IdInv
  <2>3. t.when <= now
    BY <2>1, <2>2 DEF Due, LoopInv, TypeOK, TimeEvent
  <2>4. timers \ {t} = {u \in timers : u.id # te}
    BY <2>2 DEF LoopInv, IdInv
  <2>5. timers \ {t} \subseteq timers' /\ \A u \in timers' \ (timers \ {t}) : u.when >= now
    BY <1>6, <2>1, <2>4 DEF TimeProcReturns, AddMillisecondsToNow
  <2>6. Service!Run(t)
    BY <1>1, <1>6, <2>3, <2>5 DEF TimeProcReturns, Service!Run, Service!Registered
  <2> QED BY <2>2, <2>6 DEF Service!ServiceNext
<1>7. CASE UNCHANGED <<now, timers>>
  BY <1>7
<1>8. Poll \/ Wake \/ (\E fd \in Fd : FileProcReturns(fd)) \/ StartPass \/ PassOver
         \/ CallTimeProc \/ EndPass \/ UNCHANGED loopVars
       => UNCHANGED <<now, timers>>
  BY DEF Poll, Wake, FileProcReturns, StartPass, PassOver, CallTimeProc, EndPass, loopVars
<1> QED BY <1>3, <1>4, <1>5, <1>6, <1>7, <1>8 DEF Next

(* The loop implements TimerService: no time event is lost, run before its
   time or more than MaxLate after it. *)
THEOREM LoopImplementsService == Spec => ImplementsService
<1>1. LoopInv /\ LoopInv' /\ LateBound' /\ [Next]_loopVars
         => [Service!ServiceNext]_(Service!serviceVars)
  BY NextService
<1> QED BY <1>1, InitService, InitLoopInv, NextLoopInv, TimersAreTimely, PTL
        DEF Spec, ImplementsService, Service!ServiceSpec

=============================================================================
