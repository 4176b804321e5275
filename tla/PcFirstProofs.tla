---------------------------- MODULE PcFirstProofs ----------------------------
(***************************************************************************)
(* The first tool, for both builds and for every period, lateness and      *)
(* length of a line.  Three things carry the proofs: what each thread can  *)
(* have in its script, that sections on the list exclude one another until *)
(* the list is released, and how old a camera's last message is for each   *)
(* value of its flag, measured from the next round of the watch.           *)
(***************************************************************************)
EXTENDS PcFirst, SequenceTheorems, TLAPS

ConsoleScript ==
    { <<>>,
      <<"renew", "search", "sleep", "list">>, <<"search", "sleep", "list">>,
      <<"sleep", "list">>, <<"list">>,
      <<"release">>, <<"exit">> }

(* What each thread can have in its script. *)
ScriptsOK ==
    /\ script["console"] \in ConsoleScript
    /\ script["receiver"] \in { <<>>, <<"announce">>, <<"logout">>, <<"overrun">> }
    /\ script["watch"] \in { <<>>, <<"test", "clear">>, <<"clear">> }
    /\ script["handler"] \in { <<>>, <<"release">>, <<"exit">> }

(* The loop calls one handler at a time. *)
OneBusy ==
    build = "loop" =>
        \A t, u \in Thread : ~Idle(t) /\ ~Idle(u) => t = u

(* Sections exclude one another, and find the rows they visit. *)
MutexInv ==
    /\ \A t, u \in inside : t = u
    /\ \A t \in inside :
          /\ \E op \in Section : Doing(t, op)
          /\ ~released => todo[t] \subseteq listed

(* When the loop has released the list, only the exit is left to do. *)
ReleaseInv ==
    /\ build = "loop" /\ released /\ mode = "running" => \E t \in Thread : Doing(t, "exit")
    /\ released => rows = <<>>

-----------------------------------------------------------------------------
(* The rows *)

LEMMA SameListed == ASSUME rows' = rows PROVE listed' = listed
BY DEF listed

LEMMA ListedMacs == ASSUME TypeOK PROVE listed \subseteq Mac
<1>1. \A i \in DOMAIN rows : rows[i] \in Mac
  BY DEF TypeOK
<1> QED
  BY <1>1 DEF listed

LEMMA EmptyListed == ASSUME rows' = <<>> PROVE listed' = {}
BY DEF listed

(* The camera of a message has a row, and no other is added. *)
LEMMA InsertListed ==
    ASSUME TypeOK, InsertOrMark
    PROVE  rows' \in Seq(Mac) /\ listed' = listed \cup {from}
<1>0. rows \in Seq(Mac) /\ from \in Mac
  BY DEF TypeOK
<1>1. CASE from \in listed
  <2>1. rows' = rows
    BY <1>1 DEF InsertOrMark
  <2> QED
    BY <1>0, <1>1, <2>1, SameListed
<1>2. CASE from \notin listed
  <2>1. rows' = <<from>> \o rows
    BY <1>2 DEF InsertOrMark
  <2>2. rows' \in Seq(Mac) /\ Len(rows') = Len(rows) + 1 /\ Len(rows) \in Nat
    BY <1>0, <2>1
  <2>3. rows'[1] = from
    BY <1>0, <2>1
  <2>4. \A i \in 2..Len(rows') : rows'[i] = rows[i - 1]
    BY <1>0, <2>1
  <2>5. DOMAIN rows' = 1..Len(rows') /\ DOMAIN rows = 1..Len(rows)
    BY <1>0, <2>2
  <2>6. ASSUME NEW m \in listed' PROVE m \in listed \cup {from}
    <3>1. PICK i \in 1..Len(rows') : m = rows'[i]
      BY <2>5, <2>6 DEF listed
    <3>2. CASE i = 1
      BY <2>3, <3>1, <3>2
    <3>3. CASE i # 1
      <4>1. i \in 2..Len(rows') /\ i - 1 \in DOMAIN rows
        BY <2>2, <2>5, <3>3
      <4>2. m = rows[i - 1]
        BY <2>4, <3>1, <4>1
      <4> QED
        BY <4>1, <4>2 DEF listed
    <3> QED
      BY <3>2, <3>3
  <2>7. ASSUME NEW m \in listed PROVE m \in listed'
    <3>1. PICK i \in 1..Len(rows) : m = rows[i]
      BY <2>5, <2>7 DEF listed
    <3>2. i + 1 \in DOMAIN rows' /\ i + 1 \in 2..Len(rows') /\ (i + 1) - 1 = i
      BY <2>2, <2>5
    <3>3. rows'[i + 1] = m
      BY <2>4, <3>1, <3>2
    <3> QED
      BY <3>2, <3>3 DEF listed
  <2>8. from \in listed'
    <3>1. 1 \in DOMAIN rows'
      BY <2>2, <2>5
    <3> QED
      BY <2>3, <3>1 DEF listed
  <2> QED
    BY <2>2, <2>6, <2>7, <2>8
<1> QED
  BY <1>1, <1>2

(* The cameras of the rows behind the first n keep theirs. *)
LEMMA DeleteListed ==
    ASSUME TypeOK, NEW n \in 0..Len(rows), Delete(n)
    PROVE  /\ rows' \in Seq(Mac)
           /\ listed' = {rows[i] : i \in (n + 1)..Len(rows)}
           /\ listed' \subseteq listed
<1>0. /\ rows \in Seq(Mac) /\ rows' = SubSeq(rows, n + 1, Len(rows))
      /\ Len(rows) \in Nat /\ DOMAIN rows = 1..Len(rows)
      /\ n \in Nat /\ n <= Len(rows)
  BY DEF TypeOK, Delete
<1>1. \A i \in (n + 1)..Len(rows) : rows[i] \in Mac
  BY <1>0
<1>2. /\ rows' \in Seq(Mac) /\ Len(rows') = Len(rows) - n
      /\ \A i \in 1..(Len(rows) - n) : rows'[i] = rows[n + i]
  <2> DEFINE rest == SubSeq(rows, n + 1, Len(rows))
  <2>1. n + 1 \in Int /\ Len(rows) \in Int
    BY <1>0
  <2>2. /\ rest \in Seq(Mac)
        /\ Len(rest) = IF n + 1 <= Len(rows) THEN Len(rows) - (n + 1) + 1 ELSE 0
        /\ \A i \in 1..(Len(rows) - (n + 1) + 1) : rest[i] = rows[(n + 1) + i - 1]
    BY <1>1, <2>1, SubSeqProperties
  <2> HIDE DEF rest
  <2>3. Len(rows) - (n + 1) + 1 = Len(rows) - n
    BY <1>0
  <2>4. \A i \in 1..(Len(rows) - n) : (n + 1) + i - 1 = n + i
    BY <1>0
  <2>5. rows' = rest
    BY <1>0 DEF rest
  <2>6. Len(rest) = Len(rows) - n
    <3>1. CASE n + 1 <= Len(rows)
      BY <2>2, <2>3, <3>1
    <3>2. CASE ~(n + 1 <= Len(rows))
      <4>1. \A k, l \in Nat : k <= l /\ ~(k + 1 <= l) => l - k = 0
        OBVIOUS
      <4>2. Len(rows) - n = 0
        BY <1>0, <3>2, <4>1
      <4>3. Len(rest) = 0
        BY <2>2, <3>2
      <4> QED
        BY <4>2, <4>3
    <3> QED
      BY <3>1, <3>2
  <2> QED
    BY <2>2, <2>3, <2>4, <2>5, <2>6
<1>3. DOMAIN rows' = 1..(Len(rows) - n)
  BY <1>2
<1>4. ASSUME NEW m \in listed' PROVE m \in {rows[i] : i \in (n + 1)..Len(rows)}
  <2>1. PICK i \in 1..(Len(rows) - n) : m = rows'[i]
    BY <1>3, <1>4 DEF listed
  <2>2. n + i \in (n + 1)..Len(rows)
    BY <1>0
  <2>3. m = rows[n + i]
    BY <1>2, <2>1
  <2> QED
    BY <2>2, <2>3
<1>5. ASSUME NEW i \in (n + 1)..Len(rows) PROVE rows[i] \in listed' /\ rows[i] \in listed
  <2>1. i - n \in 1..(Len(rows) - n) /\ n + (i - n) = i /\ i \in DOMAIN rows
    BY <1>0
  <2>2. rows'[i - n] = rows[i]
    BY <1>2, <2>1
  <2> QED
    BY <1>3, <2>1, <2>2 DEF listed
<1> QED
  BY <1>2, <1>4, <1>5

(* Of rows that none is behind, a logout takes those of the addresses that
   strncmp takes for the sender's. *)
LEMMA LogoutListed ==
    ASSUME TypeOK, NEW m \in Mac, NEW n \in 0..Len(rows), Leading(m, n), Delete(n)
    PROVE  listed' = {k \in listed : ~StrncmpEq(k, m)}
<1>0. rows \in Seq(Mac) /\ Len(rows) \in Nat /\ DOMAIN rows = 1..Len(rows)
  BY DEF TypeOK
<1>1. listed' = {rows[i] : i \in (n + 1)..Len(rows)}
  BY DeleteListed
<1>2. ASSUME NEW k \in listed' PROVE k \in listed /\ ~StrncmpEq(k, m)
  <2>1. PICK i \in (n + 1)..Len(rows) : k = rows[i]
    BY <1>1, <1>2
  <2>2. i \in DOMAIN rows /\ ~(i <= n)
    BY <1>0
  <2> QED
    BY <2>1, <2>2 DEF Leading, listed
<1>3. ASSUME NEW k \in listed, ~StrncmpEq(k, m) PROVE k \in listed'
  <2>1. PICK i \in DOMAIN rows : k = rows[i]
    BY <1>3 DEF listed
  <2>2. ~(i <= n)
    BY <1>3, <2>1 DEF Leading
  <2>3. i \in (n + 1)..Len(rows)
    BY <1>0, <2>2
  <2> QED
    BY <1>1, <2>1, <2>3
<1> QED
  BY <1>2, <1>3

-----------------------------------------------------------------------------
(* What the scripts begin with, and what they leave. *)
LEMMA Scripts ==
    /\ Head(<<"renew", "search", "sleep", "list">>) = "renew"
    /\ Tail(<<"renew", "search", "sleep", "list">>) = <<"search", "sleep", "list">>
    /\ Head(<<"search", "sleep", "list">>) = "search"
    /\ Tail(<<"search", "sleep", "list">>) = <<"sleep", "list">>
    /\ Head(<<"sleep", "list">>) = "sleep" /\ Tail(<<"sleep", "list">>) = <<"list">>
    /\ Head(<<"test", "clear">>) = "test" /\ Tail(<<"test", "clear">>) = <<"clear">>
    /\ \A op \in Operation : Head(<<op>>) = op /\ Tail(<<op>>) = <<>> /\ <<op>> # <<>>
<1>1. \A op \in Operation : Head(<<op>>) = op /\ Tail(<<op>>) = <<>> /\ <<op>> # <<>>
  OBVIOUS
<1> QED
  BY <1>1

(* The same by threads: what a thread does tells its script. *)
LEMMA ScriptHeads ==
    ASSUME ScriptsOK
    PROVE  /\ \A op : Doing("console", op) =>
                 op \in {"renew", "search", "sleep", "list", "release", "exit"}
           /\ \A op : Doing("receiver", op) => op \in {"announce", "logout", "overrun"}
           /\ \A op : Doing("watch", op) => op \in {"test", "clear"}
           /\ \A op : Doing("handler", op) => op \in {"release", "exit"}
           /\ Doing("console", "renew") => Tail(script["console"]) = <<"search", "sleep", "list">>
           /\ Doing("console", "search") => Tail(script["console"]) = <<"sleep", "list">>
           /\ Doing("console", "sleep") => Tail(script["console"]) = <<"list">>
           /\ Doing("console", "list") => Tail(script["console"]) = <<>>
           /\ Doing("watch", "test") => Tail(script["watch"]) = <<"clear">>
           /\ Doing("watch", "clear") => script["watch"] = <<"clear">> /\ Tail(script["watch"]) = <<>>
           /\ \A t \in {"receiver", "handler"} : script[t] # <<>> => Tail(script[t]) = <<>>
           /\ \A t \in Thread : Doing(t, "exit") => Tail(script[t]) = <<>>
<1> USE Scripts DEF Operation, Section, Doing
<1>1. /\ \A op : Doing("receiver", op) => op \in {"announce", "logout", "overrun"}
      /\ \A op : Doing("handler", op) => op \in {"release", "exit"}
      /\ \A t \in {"receiver", "handler"} : script[t] # <<>> => Tail(script[t]) = <<>>
  <2>1. script["receiver"] \in { <<>>, <<"announce">>, <<"logout">>, <<"overrun">> }
    BY DEF ScriptsOK
  <2>2. script["handler"] \in { <<>>, <<"release">>, <<"exit">> }
    BY DEF ScriptsOK
  <2> QED
    BY <2>1, <2>2
<1>2. /\ \A op : Doing("watch", op) => op \in {"test", "clear"}
      /\ Doing("watch", "test") => Tail(script["watch"]) = <<"clear">>
      /\ Doing("watch", "clear") => script["watch"] = <<"clear">> /\ Tail(script["watch"]) = <<>>
  BY DEF ScriptsOK
<1>3. /\ \A op : Doing("console", op) =>
            op \in {"renew", "search", "sleep", "list", "release", "exit"}
      /\ Doing("console", "renew") => Tail(script["console"]) = <<"search", "sleep", "list">>
      /\ Doing("console", "search") => Tail(script["console"]) = <<"sleep", "list">>
      /\ Doing("console", "sleep") => Tail(script["console"]) = <<"list">>
      /\ Doing("console", "list") => Tail(script["console"]) = <<>>
      /\ Doing("console", "exit") => Tail(script["console"]) = <<>>
  <2>1. PICK s \in ConsoleScript : s = script["console"]
    BY DEF ScriptsOK
  <2>2. CASE s = <<>>
    BY <2>1, <2>2
  <2>3. CASE s = <<"renew", "search", "sleep", "list">>
    BY <2>1, <2>3
  <2>4. CASE s = <<"search", "sleep", "list">>
    BY <2>1, <2>4
  <2>5. CASE s = <<"sleep", "list">>
    BY <2>1, <2>5
  <2>6. CASE s \in { <<"list">>, <<"release">>, <<"exit">> }
    BY <2>1, <2>6
  <2> QED
    BY <2>2, <2>3, <2>4, <2>5, <2>6 DEF ConsoleScript
<1>4. \A t \in Thread : Doing(t, "exit") => Tail(script[t]) = <<>>
  BY <1>1, <1>2, <1>3 DEF Thread
<1> QED
  BY <1>1, <1>2, <1>3, <1>4

-----------------------------------------------------------------------------
(* What the steps do to scripts *)

(* The actions of a thread that has something to do. *)
Works(t) ==
    \/ Lock(t) \/ Unlock(t) \/ UseAfterFree(t) \/ Release(t) \/ Exit(t)
    \/ t = "console" /\ (Search \/ WakeUp \/ NextCommand)
    \/ t = "receiver" /\ Overrun

(* The actions that give a thread something to do. *)
Begins(t) ==
    \/ t = "console" /\ (ReadLine \/ EndOfInput)
    \/ t = "receiver" /\ Receive
    \/ t = "watch" /\ Watch
    \/ t = "handler" /\ build = "threads" /\ Interrupt

(* The other steps change the time or the mode. *)
Rests ==
    /\ UNCHANGED <<build, listVars, inside, line, script, todo, from, wake, marked, alarm, heard>>
    /\ mode' = mode \/ mode' = "exited"
    /\ now' = now \/ Tick

LEMMA NextSplit ==
    ASSUME [Next]_firstVars
    PROVE  (\E t \in Thread : Works(t) \/ Begins(t)) \/ Rests
<1>1. CASE Next
  <2>1. CASE Interrupt
    BY <2>1 DEF Interrupt, Begins, Rests, Thread, timeVars
  <2>2. CASE \E t \in Thread : Lock(t) \/ Unlock(t) \/ UseAfterFree(t) \/ Release(t) \/ Exit(t)
    BY <2>2 DEF Works
  <2>3. CASE Search \/ WakeUp \/ NextCommand \/ ReadLine \/ EndOfInput \/ Receive \/ Overrun
             \/ Watch
    BY <2>3 DEF Works, Begins, Thread
  <2>4. CASE Tick \/ Ended
    BY <2>4 DEF Tick, Ended, firstVars, timeVars, Rests
  <2> QED
    BY <1>1, <2>1, <2>2, <2>3, <2>4 DEF Next
<1>2. CASE UNCHANGED firstVars
  BY <1>2 DEF firstVars, timeVars, Rests
<1> QED
  BY <1>1, <1>2

(* The inductive invariant of everything but the times. *)
FirstInv == TypeOK /\ ScriptsOK /\ OneBusy /\ MutexInv /\ ReleaseInv

(* A thread works on its own script, when it has something to do. *)
LEMMA WorksAlone ==
    ASSUME FirstInv, NEW t \in Thread, Works(t)
    PROVE  /\ mode = "running" /\ ~Idle(t)
           /\ build' = build
           /\ \A u \in Thread \ {t} : script'[u] = script[u]
           /\ t # "console" => line' = line
<1>0. script \in [Thread -> Seq(Operation)]
  BY DEF FirstInv, TypeOK
<1>1. CASE Lock(t)
  BY <1>1 DEF Lock, Idle, Doing
<1>2. CASE UseAfterFree(t)
  BY <1>2 DEF UseAfterFree, FirstInv, MutexInv, Idle, Doing
<1>3. CASE Unlock(t)
  BY <1>0, <1>3 DEF Unlock, FirstInv, MutexInv, Idle, Doing, Done
<1>4. CASE Release(t)
  BY <1>0, <1>4 DEF Release, Idle, Doing
<1>5. CASE Exit(t)
  BY <1>0, <1>5 DEF Exit, Idle, Doing, Done
<1>6. CASE t = "console" /\ (Search \/ WakeUp)
  BY <1>0, <1>6 DEF Search, WakeUp, Idle, Doing, Done
<1>7. CASE t = "console" /\ NextCommand
  BY <1>0, <1>7 DEF NextCommand, Idle
<1>8. CASE t = "receiver" /\ Overrun
  BY <1>8 DEF Overrun, Idle, Doing
<1> QED
  BY <1>1, <1>2, <1>3, <1>4, <1>5, <1>6, <1>7, <1>8 DEF Works

(* A thread that begins something was idle, in the loop like all others. *)
LEMMA BeginsAlone ==
    ASSUME FirstInv, NEW t \in Thread, Begins(t)
    PROVE  /\ mode = "running" /\ mode' = mode
           /\ build = "loop" => \A u \in Thread : Idle(u)
           /\ build' = build
           /\ \A u \in Thread \ {t} : script'[u] = script[u]
           /\ t # "console" => line' = line
           /\ UNCHANGED <<listVars, inside, todo, timeVars, heard>>
           /\ script[t] = <<>>
<1>0. script \in [Thread -> Seq(Operation)]
  BY DEF FirstInv, TypeOK
<1>1. ASSUME NEW s, Starts(t, s)
      PROVE  /\ mode = "running" /\ mode' = mode
             /\ build = "loop" => \A u \in Thread : Idle(u)
             /\ build' = build
             /\ \A u \in Thread \ {t} : script'[u] = script[u]
             /\ UNCHANGED <<listVars, inside, todo, timeVars, heard>>
             /\ script[t] = <<>>
  BY <1>0, <1>1 DEF Starts, Idle
<1>2. (\E s : Starts(t, s)) /\ (t # "console" => line' = line)
  <2>1. CASE t = "console" /\ (ReadLine \/ EndOfInput)
    BY <2>1 DEF ReadLine, EndOfInput
  <2>2. CASE t = "receiver" /\ Receive
    BY <2>2 DEF Receive
  <2>3. CASE t = "watch" /\ Watch
    BY <2>3 DEF Watch
  <2>4. CASE t = "handler" /\ build = "threads" /\ Interrupt
    BY <2>4 DEF Interrupt
  <2> QED
    BY <2>1, <2>2, <2>3, <2>4 DEF Begins
<1> QED
  BY <1>1, <1>2

LEMMA OneBusyStep ==
    ASSUME FirstInv, [Next]_firstVars
    PROVE  OneBusy'
<1>0. FirstInv /\ script \in [Thread -> Seq(Operation)]
  BY DEF FirstInv, TypeOK
<1>1. ASSUME NEW t \in Thread, Works(t)
      PROVE  OneBusy'
  <2>1. \A u \in Thread \ {t} : Idle(u) => Idle(u)'
    BY <1>1, WorksAlone DEF Idle, Thread
  <2>2. ~Idle(t) /\ build' = build
    BY <1>1, WorksAlone
  <2>3. build = "loop" => \A u \in Thread \ {t} : Idle(u)
    BY <2>2 DEF FirstInv, OneBusy
  <2> QED
    BY <2>1, <2>2, <2>3 DEF OneBusy
<1>2. ASSUME NEW t \in Thread, Begins(t)
      PROVE  OneBusy'
  <2>1. \A u \in Thread \ {t} : Idle(u) => Idle(u)'
    BY <1>2, BeginsAlone DEF Idle, Thread
  <2>2. build' = build /\ (build = "loop" => \A u \in Thread : Idle(u))
    BY <1>2, BeginsAlone
  <2> QED
    BY <2>1, <2>2 DEF OneBusy
<1>3. CASE Rests
  BY <1>3 DEF Rests, OneBusy, Idle, FirstInv
<1> QED
  BY <1>1, <1>2, <1>3, NextSplit

(* What a thread that is done with its section has left to do. *)
LEMMA AfterDone ==
    ASSUME FirstInv, NEW t \in Thread, NEW op, Doing(t, op), op # "release",
           Done(t)
    PROVE  ScriptsOK'
<1>0. script \in [Thread -> Seq(Operation)] /\ ScriptsOK
  BY DEF FirstInv, TypeOK
<1>1. script'[t] = Tail(script[t]) /\ \A u \in Thread \ {t} : script'[u] = script[u]
  BY <1>0 DEF Done
<1>2. CASE t = "console"
  <2>1. script'["console"] \in ConsoleScript
    BY <1>0, <1>1, <1>2, ScriptHeads DEF ConsoleScript
  <2> QED
    BY <1>0, <1>1, <1>2, <2>1 DEF ScriptsOK, Thread
<1>3. CASE t = "receiver"
  BY <1>0, <1>1, <1>3, ScriptHeads DEF ScriptsOK, Thread, Doing
<1>4. CASE t = "watch"
  BY <1>0, <1>1, <1>4, ScriptHeads DEF ScriptsOK, Thread, Doing
<1>5. CASE t = "handler"
  BY <1>0, <1>1, <1>5, ScriptHeads DEF ScriptsOK, Thread, Doing
<1> QED
  BY <1>2, <1>3, <1>4, <1>5 DEF Thread

LEMMA ScriptsStep ==
    ASSUME FirstInv, [Next]_firstVars
    PROVE  ScriptsOK'
<1>0. script \in [Thread -> Seq(Operation)] /\ ScriptsOK
  BY DEF FirstInv, TypeOK
<1>1. ASSUME NEW t \in Thread, Works(t)
      PROVE  ScriptsOK'
  <2>1. CASE Lock(t) \/ UseAfterFree(t) \/ (t = "receiver" /\ Overrun)
    BY <1>0, <2>1 DEF Lock, UseAfterFree, Overrun, ScriptsOK
  <2>2. CASE Unlock(t)
    <3>1. PICK op \in Section : Doing(t, op)
      BY <2>2 DEF FirstInv, MutexInv, Unlock
    <3> QED
      BY <2>2, <3>1, AfterDone DEF Unlock, Section
  <2>3. CASE Release(t)
    <3>1. script'[t] = <<"exit">> /\ \A u \in Thread \ {t} : script'[u] = script[u]
      BY <1>0, <2>3 DEF Release
    <3>2. t \in {"console", "handler"}
      <4>1. Doing(t, "release")
        BY <2>3 DEF Release
      <4>2. ~Doing("receiver", "release") /\ ~Doing("watch", "release")
        BY <1>0, ScriptHeads
      <4> QED
        BY <4>1, <4>2 DEF Thread
    <3> QED
      BY <1>0, <3>1, <3>2 DEF ScriptsOK, ConsoleScript, Thread
  <2>4. CASE Exit(t)
    BY <2>4, AfterDone DEF Exit
  <2>5. CASE t = "console" /\ (Search \/ WakeUp)
    BY <2>5, AfterDone DEF Search, WakeUp
  <2>6. CASE t = "console" /\ NextCommand
    <3>1. line # <<>> /\ line \in Seq(Command)
      BY <2>6 DEF NextCommand, FirstInv, TypeOK
    <3>2. Head(line) \in Command
      BY <3>1
    <3>3. Program[Head(line)] \in ConsoleScript
      BY <3>2 DEF Command, Program, ConsoleScript
    <3>4. script'["console"] \in ConsoleScript /\ \A u \in Thread \ {"console"} : script'[u] = script[u]
      BY <1>0, <2>6, <3>3 DEF NextCommand, Thread
    <3> QED
      BY <1>0, <3>4 DEF ScriptsOK, Thread
  <2> QED
    BY <1>1, <2>1, <2>2, <2>3, <2>4, <2>5, <2>6 DEF Works
<1>2. ASSUME NEW t \in Thread, Begins(t)
      PROVE  ScriptsOK'
  <2>1. \A u \in Thread \ {t} : script'[u] = script[u]
    BY <1>2, BeginsAlone
  <2>2. ASSUME NEW s, Starts(t, s)
        PROVE  script'[t] = s
    BY <1>0, <2>2 DEF Starts
  <2>3. CASE t = "console" /\ (ReadLine \/ EndOfInput)
    <3>1. script'[t] \in ConsoleScript
      BY <2>2, <2>3 DEF ReadLine, EndOfInput, Program, ConsoleScript
    <3> QED
      BY <1>0, <2>1, <2>3, <3>1 DEF ScriptsOK, Thread
  <2>4. CASE t = "receiver" /\ Receive
    BY <1>0, <2>1, <2>2, <2>4 DEF Receive, ScriptsOK, Thread
  <2>5. CASE t = "watch" /\ Watch
    BY <1>0, <2>1, <2>2, <2>5 DEF Watch, ScriptsOK, Thread
  <2>6. CASE t = "handler" /\ build = "threads" /\ Interrupt
    BY <1>0, <2>1, <2>2, <2>6 DEF Interrupt, ScriptsOK, Thread
  <2> QED
    BY <1>2, <2>3, <2>4, <2>5, <2>6 DEF Begins
<1>3. CASE Rests
  BY <1>0, <1>3 DEF Rests, ScriptsOK
<1> QED
  BY <1>1, <1>2, <1>3, NextSplit

LEMMA MutexStep ==
    ASSUME FirstInv, [Next]_firstVars
    PROVE  MutexInv'
<1>0. FirstInv /\ MutexInv /\ script \in [Thread -> Seq(Operation)]
      /\ inside \subseteq Thread /\ todo \in [Thread -> SUBSET Mac]
  BY DEF FirstInv, TypeOK
<1>1. ASSUME NEW t \in Thread, Works(t)
      PROVE  MutexInv'
  <2>1. CASE Lock(t)
    BY <1>0, <2>1, SameListed DEF Lock, MutexInv, Doing, listVars
  <2>2. CASE Unlock(t)
    BY <1>0, <2>2 DEF Unlock, Done, MutexInv
  <2>3. CASE UseAfterFree(t) \/ (t = "receiver" /\ Overrun)
    BY <1>0, <2>3, SameListed DEF UseAfterFree, Overrun, MutexInv, Doing, listVars
  <2>4. CASE Release(t)
    <3>1. t \notin inside
      BY <1>0, <2>4 DEF Release, MutexInv, Doing, Section
    <3> QED
      BY <1>0, <2>4, <3>1 DEF Release, MutexInv, Doing
  <2>5. CASE Exit(t) \/ (t = "console" /\ (Search \/ WakeUp))
    <3>1. t \notin inside /\ Done(t) /\ listed' = listed
      BY <1>0, <2>5, SameListed DEF Exit, Search, WakeUp, MutexInv, Doing, Section
    <3> QED
      BY <1>0, <3>1 DEF Done, MutexInv, Doing
  <2>6. CASE t = "console" /\ NextCommand
    <3>1. t \notin inside
      BY <1>0, <2>6 DEF NextCommand, MutexInv, Doing
    <3> QED
      BY <1>0, <2>6, <3>1, SameListed DEF NextCommand, MutexInv, Doing, listVars
  <2> QED
    BY <1>1, <2>1, <2>2, <2>3, <2>4, <2>5, <2>6 DEF Works
<1>2. ASSUME NEW t \in Thread, Begins(t)
      PROVE  MutexInv'
  <2>1. t \notin inside
    BY <1>0, <1>2, BeginsAlone DEF MutexInv, Doing
  <2> QED
    <3>1. /\ UNCHANGED <<listed, released, inside, todo>>
          /\ \A u \in Thread \ {t} : script'[u] = script[u]
      BY <1>0, <1>2, BeginsAlone, SameListed DEF listVars
    <3> QED
      BY <1>0, <2>1, <3>1 DEF MutexInv, Doing
<1>3. CASE Rests
  BY <1>0, <1>3, SameListed DEF Rests, MutexInv, Doing, listVars
<1> QED
  BY <1>1, <1>2, <1>3, NextSplit

LEMMA ReleaseStep ==
    ASSUME FirstInv, [Next]_firstVars
    PROVE  ReleaseInv'
<1>0. FirstInv /\ ReleaseInv /\ OneBusy /\ script \in [Thread -> Seq(Operation)]
  BY DEF FirstInv, TypeOK
<1>1. ASSUME NEW t \in Thread, Works(t)
      PROVE  ReleaseInv'
  <2>0. build' = build /\ ~Idle(t)
    BY <1>0, <1>1, WorksAlone
  <2>1. ASSUME build = "loop", released, mode = "running"
        PROVE  Doing(t, "exit")
    <3>1. PICK u \in Thread : Doing(u, "exit")
      BY <1>0, <2>1 DEF ReleaseInv
    <3>2. ~Idle(u)
      BY <3>1 DEF Idle, Doing
    <3> QED
      BY <1>0, <2>0, <2>1, <3>1, <3>2 DEF OneBusy
  <2>2. CASE Lock(t)
    BY <1>0, <2>1, <2>2 DEF Lock, ReleaseInv, Doing, listVars, Section
  <2>3. CASE Unlock(t)
    <3>1. ~released /\ released' = released
      BY <2>3 DEF Unlock, Stale, Done
    <3> QED
      BY <3>1 DEF ReleaseInv
  <2>4. CASE UseAfterFree(t) \/ (t = "receiver" /\ Overrun)
    BY <1>0, <2>4 DEF UseAfterFree, Overrun, ReleaseInv, listVars
  <2>5. CASE Release(t)
    <3>1. script'[t] = <<"exit">> /\ rows' = <<>>
      BY <1>0, <2>5 DEF Release
    <3>2. Doing(t, "exit")'
      BY <3>1, Scripts DEF Doing, Operation
    <3> QED
      BY <3>1, <3>2 DEF ReleaseInv
  <2>6. CASE Exit(t)
    BY <1>0, <2>6 DEF Exit, Done, ReleaseInv
  <2>7. CASE t = "console" /\ (Search \/ WakeUp)
    <3>1. /\ mode = "running" /\ ~Doing(t, "exit")
          /\ UNCHANGED <<rows, released>>
      BY <2>7 DEF Search, WakeUp, Doing, Done
    <3> QED
      BY <1>0, <2>0, <2>1, <3>1 DEF ReleaseInv
  <2>8. CASE t = "console" /\ NextCommand
    <3>1. /\ mode = "running" /\ ~Doing(t, "exit")
          /\ UNCHANGED <<rows, released>>
      BY <2>8 DEF NextCommand, Doing, listVars
    <3> QED
      BY <1>0, <2>0, <2>1, <3>1 DEF ReleaseInv
  <2> QED
    BY <1>1, <2>2, <2>3, <2>4, <2>5, <2>6, <2>7, <2>8 DEF Works
<1>2. ASSUME NEW t \in Thread, Begins(t)
      PROVE  ReleaseInv'
  <2>1. /\ mode = "running" /\ build' = build /\ UNCHANGED <<rows, released>>
        /\ build = "loop" => \A u \in Thread : Idle(u)
    BY <1>0, <1>2, BeginsAlone DEF listVars
  <2>2. build = "loop" => ~released
    BY <1>0, <2>1 DEF ReleaseInv, Idle, Doing
  <2> QED
    BY <1>0, <2>1, <2>2 DEF ReleaseInv
<1>3. CASE Rests
  BY <1>0, <1>3 DEF Rests, ReleaseInv, Doing, listVars
<1> QED
  BY <1>1, <1>2, <1>3, NextSplit

(* What a thread can be given to do. *)
LEMMA ScriptTypes ==
    /\ <<>> \in Seq(Operation) /\ <<>> \in Seq(Command)
    /\ \A op \in Operation : <<op>> \in Seq(Operation)
    /\ <<"test", "clear">> \in Seq(Operation)
    /\ \A c \in Command : Program[c] \in Seq(Operation)
<1>1. \A op \in Operation : <<op>> \in Seq(Operation)
  OBVIOUS
<1>2. <<"renew", "search", "sleep", "list">> \in Seq(Operation)
  BY DEF Operation, Section
<1>3. <<"search", "sleep", "list">> \in Seq(Operation)
  BY DEF Operation, Section
<1>4. <<"test", "clear">> \in Seq(Operation)
  BY DEF Operation, Section
<1>5. ASSUME NEW c \in Command PROVE Program[c] \in Seq(Operation)
  <2>1. CASE c = "r"
    BY <1>2, <2>1 DEF Program
  <2>2. CASE c = "s"
    BY <1>3, <2>2 DEF Program
  <2>3. CASE c = "l"
    <3>1. <<"list">> \in Seq(Operation)
      BY <1>1 DEF Operation, Section
    <3>2. Program[c] = <<"list">>
      BY <2>3 DEF Program
    <3> QED
      BY <3>1, <3>2
  <2>5. CASE c = "q"
    <3>1. <<"release">> \in Seq(Operation)
      BY <1>1 DEF Operation
    <3>2. Program[c] = <<"release">>
      BY <2>5 DEF Program
    <3> QED
      BY <3>1, <3>2
  <2>4. CASE c = "h"
    BY <2>4 DEF Program
  <2> QED
    BY <2>1, <2>2, <2>3, <2>4, <2>5 DEF Command
<1> QED
  BY <1>1, <1>4, <1>5

LEMMA TypeStep ==
    ASSUME FirstInv, [Next]_firstVars
    PROVE  TypeOK'
<1> USE FirstAssumption
<1>0. FirstInv /\ TypeOK
  BY DEF FirstInv
<1>1. ASSUME NEW t \in Thread, Done(t), script[t] # <<>>
      PROVE  /\ script' \in [Thread -> Seq(Operation)] /\ todo' \in [Thread -> SUBSET Mac]
             /\ inside' \subseteq Thread
             /\ UNCHANGED <<build, line, from, released>>
  <2>1. Tail(script[t]) \in Seq(Operation)
    BY <1>0, <1>1 DEF TypeOK
  <2> QED
    BY <1>0, <1>1, <2>1 DEF TypeOK, Done
<1>2. ASSUME NEW t \in Thread, Lock(t)
      PROVE  TypeOK'
  BY <1>0, <1>2, ListedMacs DEF TypeOK, Lock, listVars, timeVars
<1>3. ASSUME NEW t \in Thread, Unlock(t)
      PROVE  TypeOK'
  <2>1. /\ script' \in [Thread -> Seq(Operation)] /\ todo' \in [Thread -> SUBSET Mac]
        /\ inside' \subseteq Thread
        /\ UNCHANGED <<build, line, from, released>>
    BY <1>0, <1>1, <1>3 DEF Unlock, FirstInv, MutexInv, Doing
  <2>2. mode' = mode
    BY <1>3 DEF Unlock
  <2>3. ASSUME NEW n \in 0..Len(rows), Delete(n)
        PROVE  TypeOK'
    <3>1. rows' \in Seq(Mac)
      BY <1>0, <2>3, DeleteListed
    <3> QED
      BY <1>0, <2>1, <2>2, <2>3, <3>1 DEF TypeOK, Delete, timeVars
  <2>4. CASE InsertOrMark
    <3>1. rows' \in Seq(Mac)
      BY <1>0, <2>4, InsertListed
    <3> QED
      BY <1>0, <2>1, <2>2, <2>4, <3>1 DEF TypeOK, InsertOrMark, timeVars
  <2>5. CASE UNCHANGED <<rows, flag, heard, timeVars>>
    BY <1>0, <2>1, <2>2, <2>5 DEF TypeOK, timeVars
  <2>6. CASE ClearAll
    BY <1>0, <2>1, <2>2, <2>6 DEF TypeOK, ClearAll
  <2>7. CASE TestAll
    BY <1>0, <2>1, <2>2, <2>7 DEF TypeOK, TestAll, timeVars
  <2>8. Len(rows) \in 0..Len(rows)
    BY <1>0 DEF TypeOK
  <2> QED
    BY <1>3, <2>3, <2>4, <2>5, <2>6, <2>7, <2>8 DEF Unlock
<1>4. ASSUME NEW t \in Thread, UseAfterFree(t) \/ Overrun
      PROVE  TypeOK'
  BY <1>0, <1>4 DEF TypeOK, UseAfterFree, Overrun, listVars, timeVars
<1>5. ASSUME NEW t \in Thread, Release(t)
      PROVE  TypeOK'
  <2>1. <<"exit">> \in Seq(Operation)
    BY DEF Operation
  <2>2. script' \in [Thread -> Seq(Operation)]
    BY <1>0, <1>5, <2>1 DEF TypeOK, Release
  <2> QED
    BY <1>0, <1>5, <2>2 DEF TypeOK, Release, timeVars
<1>6. ASSUME NEW t \in Thread, Exit(t)
      PROVE  TypeOK'
  <2>1. script[t] # <<>> /\ Done(t)
    BY <1>6 DEF Exit, Doing
  <2> QED
    BY <1>0, <1>1, <1>6, <2>1 DEF TypeOK, Exit, timeVars
<1>7. CASE Search \/ WakeUp
  <2>1. script["console"] # <<>> /\ Done("console") /\ "console" \in Thread
    BY <1>7 DEF Search, WakeUp, Doing, Thread
  <2>2. wake' \in Nat /\ UNCHANGED <<mode, rows, flag, marked, alarm, now, heard>>
    BY <1>0, <1>7 DEF TypeOK, Search, WakeUp
  <2> QED
    BY <1>0, <1>1, <2>1, <2>2 DEF TypeOK
<1>8. CASE NextCommand
  <2>1. line' \in Seq(Command) /\ Head(line) \in Command
    BY <1>0, <1>8 DEF TypeOK, NextCommand
  <2>2. Program[Head(line)] \in Seq(Operation)
    BY <2>1, ScriptTypes
  <2>3. script' \in [Thread -> Seq(Operation)]
    BY <1>0, <1>8, <2>2 DEF TypeOK, NextCommand
  <2> QED
    BY <1>0, <1>8, <2>1, <2>3 DEF TypeOK, NextCommand, listVars, timeVars
<1>9. ASSUME NEW t \in Thread, NEW s \in Seq(Operation), Starts(t, s),
             line' \in Seq(Command), from' \in Mac
      PROVE  TypeOK'
  BY <1>0, <1>9 DEF TypeOK, Starts, listVars, timeVars
<1>10. CASE ReadLine
  <2>1. Starts("console", <<>>) /\ from' = from
    BY <1>10 DEF ReadLine
  <2>2. line' \in Seq(Command)
    <3>1. PICK n \in 1..MaxCmds : line' \in [1..n -> Command]
      BY <1>10 DEF ReadLine
    <3> QED
      BY <3>1
  <2> QED
    BY <1>0, <1>9, <2>1, <2>2, ScriptTypes DEF TypeOK, Thread
<1>11. CASE EndOfInput \/ Receive \/ Watch
  <2>1. \E t \in Thread : \E s \in Seq(Operation) : Starts(t, s)
    <3>1. CASE EndOfInput
      <4>1. Program.q \in Seq(Operation)
        BY ScriptTypes DEF Program, Operation
      <4> QED
        BY <3>1, <4>1 DEF EndOfInput, Thread
    <3>2. CASE Receive
      BY <3>2, ScriptTypes DEF Receive, Thread, Operation, Section
    <3>3. CASE Watch
      BY <3>3, ScriptTypes DEF Watch, Thread, Operation, Section
    <3> QED
      BY <1>11, <3>1, <3>2, <3>3
  <2>2. line' = line /\ from' \in Mac
    BY <1>0, <1>11 DEF EndOfInput, Receive, Watch, TypeOK
  <2> QED
    BY <1>0, <1>9, <2>1, <2>2 DEF TypeOK
<1>12. CASE Interrupt
  <2>1. CASE Starts("handler", <<"release">>) /\ UNCHANGED <<line, from>>
    <3>1. <<"release">> \in Seq(Operation)
      BY ScriptTypes DEF Operation
    <3>2. line' \in Seq(Command) /\ from' \in Mac
      BY <1>0, <2>1 DEF TypeOK
    <3> QED
      BY <1>9, <2>1, <3>1, <3>2 DEF Thread
  <2>2. CASE /\ mode' = "exited"
             /\ UNCHANGED <<build, listVars, inside, line, script, todo, from, timeVars, heard>>
    BY <1>0, <2>2 DEF TypeOK, listVars, timeVars
  <2> QED
    BY <1>12, <2>1, <2>2 DEF Interrupt
<1>13. CASE Tick
  BY <1>0, <1>13 DEF TypeOK, Tick, listVars
<1>14. CASE Ended \/ UNCHANGED firstVars
  BY <1>0, <1>14 DEF TypeOK, Ended, firstVars, listVars, timeVars
<1> QED
  BY <1>2, <1>3, <1>4, <1>5, <1>6, <1>7, <1>8, <1>10, <1>11, <1>12, <1>13, <1>14
     DEF Next, Thread

LEMMA FirstInvInit == Init => FirstInv
<1> SUFFICES ASSUME Init PROVE FirstInv
  OBVIOUS
<1> USE FirstAssumption
<1>2. TypeOK
  <2>1. CheckCycle \in Nat /\ alarm \in Nat
    BY DEF Init
  <2>2. flag \in [Mac -> 0..3] /\ heard \in [Mac -> Nat]
    BY DEF Init
  <2>3. script \in [Thread -> Seq(Operation)] /\ line \in Seq(Command)
    BY ScriptTypes DEF Init
  <2>4. todo \in [Thread -> SUBSET Mac]
    BY DEF Init
  <2>5. rows \in Seq(Mac)
    BY DEF Init
  <2> QED
    BY <2>1, <2>2, <2>3, <2>4, <2>5 DEF Init, TypeOK
<1>3. ScriptsOK
  BY DEF Init, ScriptsOK, ConsoleScript, Thread
<1>4. OneBusy /\ MutexInv /\ ReleaseInv
  BY DEF Init, OneBusy, MutexInv, ReleaseInv, Idle
<1> QED
  BY <1>2, <1>3, <1>4 DEF FirstInv

LEMMA FirstInvStep == FirstInv /\ [Next]_firstVars => FirstInv'
BY TypeStep, ScriptsStep, OneBusyStep, MutexStep, ReleaseStep DEF FirstInv

THEOREM FirstInvariant == Spec => []FirstInv
<1> QED
  BY FirstInvInit, FirstInvStep, PTL DEF Spec

(* The first tool keeps its types in both builds: a flag has two bits, and
   what a thread has left to do is a list of operations of the source. *)
THEOREM FirstTypes == Spec => []TypeOK
<1>1. FirstInv => TypeOK
  BY DEF FirstInv
<1> QED
  BY <1>1, FirstInvariant, PTL

-----------------------------------------------------------------------------
(* Faults *)

LEMMA FaultStep ==
    ASSUME FirstInv, FaultHasCause, [Next]_firstVars
    PROVE  FaultHasCause'
<1>0. FirstInv /\ OneBusy /\ MutexInv /\ ReleaseInv /\ ScriptsOK
  BY DEF FirstInv
<1>1. ASSUME NEW t \in Thread, Works(t)
      PROVE  FaultHasCause'
  <2>0. build' = build /\ mode = "running" /\ ~Idle(t)
    BY <1>0, <1>1, WorksAlone
  <2>1. build = "loop" /\ released => Doing(t, "exit")
    BY <1>0, <2>0 DEF ReleaseInv, OneBusy, Idle, Doing
  <2>2. CASE UseAfterFree(t)
    <3>0. UNCHANGED <<build, rows, script, from, released>>
      BY <2>2 DEF UseAfterFree, listVars
    <3>1. CASE Stale(t)
      <4>1. ~Doing(t, "exit") /\ released
        BY <1>0, <2>2, <3>1 DEF UseAfterFree, Stale, MutexInv, Doing, Section
      <4>2. build \in {"loop", "threads"}
        BY <1>0 DEF FirstInv, TypeOK
      <4> QED
        BY <2>1, <3>0, <4>1, <4>2 DEF FaultHasCause
    <3>2. CASE Doing(t, "logout") /\ Behind(from)
      <4>1. Doing("receiver", "logout") /\ Behind(from)
        BY <1>0, <3>2, ScriptHeads DEF Thread
      <4> QED
        BY <3>0, <4>1 DEF FaultHasCause, Doing, Behind, Leading
    <3> QED
      BY <2>2, <3>1, <3>2 DEF UseAfterFree
  <2>3. CASE Release(t)
    <3>1. ~Doing(t, "exit") /\ Doing(t, "release") /\ released'
      BY <2>3 DEF Release, Doing
    <3>2. build = "loop" => inside = {}
      <4> SUFFICES ASSUME build = "loop", NEW u \in inside PROVE FALSE
        OBVIOUS
      <4>1. u \in Thread /\ ~Idle(u) /\ ~Doing(u, "release")
        BY <1>0 DEF FirstInv, TypeOK, MutexInv, Doing, Idle, Section
      <4> QED
        BY <1>0, <2>0, <3>1, <4>1 DEF OneBusy
    <3>3. build \in {"loop", "threads"}
      BY <1>0 DEF FirstInv, TypeOK
    <3> QED
      BY <2>0, <2>1, <2>3, <3>1, <3>2, <3>3 DEF FaultHasCause, Release
  <2>4. CASE Overrun
    BY <2>4 DEF Overrun, FaultHasCause, Doing
  <2>5. CASE ~UseAfterFree(t) /\ ~Release(t) /\ ~Overrun
    <3>1. mode' # "undefined"
      BY <1>1, <2>0, <2>5 DEF Works, Lock, Unlock, Exit, Search, WakeUp, NextCommand
    <3> QED
      BY <3>1 DEF FaultHasCause
  <2> QED
    BY <2>2, <2>3, <2>4, <2>5
<1>2. ASSUME NEW t \in Thread, Begins(t)
      PROVE  FaultHasCause'
  BY <1>0, <1>2, BeginsAlone DEF FaultHasCause
<1>3. CASE Rests
  BY <1>3 DEF Rests, FaultHasCause, listVars, Doing, Behind, Leading
<1> QED
  BY <1>0, <1>1, <1>2, <1>3, NextSplit

(* In either build a fault has one of three causes, whatever cameras send,
   whatever the lines ask for and whenever the tool is interrupted: a list
   freed under a thread, a LOGOUT of a row behind one that stays, a LOGIN
   that is too long.  The loop knows only the last two. *)
THEOREM FaultsHaveCause == Spec => []FaultHasCause
<1>1. Init => FaultHasCause
  BY DEF Init, FaultHasCause
<1>2. FirstInv /\ FaultHasCause /\ [Next]_firstVars => FaultHasCause'
  BY FaultStep
<1> QED
  BY <1>1, <1>2, FirstInvariant, PTL DEF Spec

-----------------------------------------------------------------------------
(* Times *)

(* How late the watch can be done in any build. *)
Late == MaxLate + LineSleep

(* How long the searches of n commands sleep. *)
Cost(n) == n * SearchSleep

(* The watch is awake only when its time has come, and is never too late. *)
AlarmInv ==
    /\ alarm <= now + CheckCycle
    /\ now <= alarm + Late
    /\ script["watch"] # <<>> => now >= alarm

(* How old the last message of a camera is for each value of its flag; the
   last round was a cycle before the alarm. *)
AgeInv ==
    \A m \in listed :
        /\ heard[m] <= now
        /\ flag[m] = 1 => heard[m] >= alarm - CheckCycle
        /\ flag[m] = 3 => /\ heard[m] <= alarm - CheckCycle
                          /\ heard[m] >= alarm - 2 * CheckCycle - Late
        /\ ~marked \/ script["watch"] = <<"clear">> => flag[m] \in {0, 1}

(* What is left of a line cannot make the loop later than the line could. *)
BudgetInv ==
    build = "loop" /\ ~Idle("console") =>
        /\ Doing("console", "renew") \/ Doing("console", "search") =>
              now + Cost(Len(line) + 1) <= alarm + Late
        /\ Doing("console", "sleep") =>
              now <= wake /\ wake + Cost(Len(line)) <= alarm + Late
        /\ ~(\E op \in {"renew", "search", "sleep"} : Doing("console", op)) =>
              now + Cost(Len(line)) <= alarm + Late

TimeInv == AlarmInv /\ AgeInv /\ BudgetInv

LEMMA CostFacts ==
    /\ \A n \in Nat : Cost(n) \in Nat /\ Cost(n + 1) = Cost(n) + SearchSleep
    /\ \A n \in 0..MaxCmds : Cost(n) <= LineSleep
    /\ LineSleep \in Nat /\ Late \in Nat /\ MaxLate <= Late
<1> USE FirstAssumption DEF Cost, LineSleep, Late
<1>1. \A n \in Nat : Cost(n) \in Nat /\ Cost(n + 1) = Cost(n) + SearchSleep
  OBVIOUS
<1>2. ASSUME NEW n \in 0..MaxCmds PROVE Cost(n) <= LineSleep
  <2>1. (MaxCmds - n) * SearchSleep >= 0
    OBVIOUS
  <2>2. (MaxCmds - n) * SearchSleep = MaxCmds * SearchSleep - n * SearchSleep
    OBVIOUS
  <2> QED
    BY <2>1, <2>2
<1> QED
  BY <1>1, <1>2

(* The loop's other threads leave the budget of the line alone. *)
LEMMA BudgetOfOthers ==
    ASSUME FirstInv, BudgetInv, NEW t \in Thread \ {"console"}, Works(t) \/ Begins(t)
    PROVE  BudgetInv'
<1>1. CASE Works(t)
  <2>1. /\ build' = build /\ script'["console"] = script["console"] /\ line' = line
        /\ ~Idle(t)
    BY <1>1, WorksAlone DEF Thread
  <2>2. build = "loop" => Idle("console")
    BY <2>1 DEF FirstInv, OneBusy, Thread
  <2> QED
    BY <2>1, <2>2 DEF BudgetInv, Idle
<1>2. CASE Begins(t)
  <2>1. /\ build' = build /\ script'["console"] = script["console"] /\ line' = line
        /\ build = "loop" => Idle("console")
    BY <1>2, BeginsAlone DEF Thread
  <2> QED
    BY <2>1 DEF BudgetInv, Idle
<1> QED
  BY <1>1, <1>2

LEMMA BudgetStep ==
    ASSUME FirstInv, TimeInv, [Next]_firstVars
    PROVE  BudgetInv'
<1> USE FirstAssumption
<1>0. /\ FirstInv /\ BudgetInv /\ TypeOK /\ ScriptsOK
      /\ script \in [Thread -> Seq(Operation)] /\ line \in Seq(Command)
      /\ now \in Nat /\ wake \in Nat /\ alarm \in Nat
  BY DEF FirstInv, TypeOK, TimeInv
<1>00. /\ Len(line) \in Nat /\ Cost(Len(line)) \in Nat
       /\ Cost(Len(line) + 1) = Cost(Len(line)) + SearchSleep
       /\ Late \in Nat /\ LineSleep \in Nat
  <2>1. Len(line) \in Nat
    BY <1>0
  <2> QED
    BY <2>1, CostFacts
<1>1. ASSUME NEW t \in Thread \ {"console"}, Works(t) \/ Begins(t)
      PROVE  BudgetInv'
  BY <1>0, <1>1, BudgetOfOthers
<1>2. CASE Works("console")
  <2>0. "console" # "receiver"
    OBVIOUS
  <2>1. CASE Lock("console") \/ UseAfterFree("console")
    <3>1. UNCHANGED <<build, script, line, now, wake, alarm>>
      BY <2>1 DEF Lock, UseAfterFree, timeVars
    <3> QED
      BY <1>0, <3>1 DEF BudgetInv, Idle, Doing
  <2>2. CASE Unlock("console")
    <3>0. PICK op \in Section : Doing("console", op)
      BY <1>0, <2>2 DEF FirstInv, MutexInv, Unlock
    <3>1. op \in {"renew", "list"}
      BY <1>0, <3>0, ScriptHeads DEF Section
    <3>2. UNCHANGED <<build, line, now, wake, alarm>> /\ script'["console"] = Tail(script["console"])
      BY <1>0, <2>2, <3>0, <3>1 DEF Unlock, Done, Delete, timeVars, Doing, Thread
    <3>3. CASE op = "renew"
      <4>1. script'["console"] = <<"search", "sleep", "list">>
        BY <1>0, <3>0, <3>2, <3>3, ScriptHeads
      <4>2. build = "loop" => now + Cost(Len(line) + 1) <= alarm + Late
        BY <1>0, <3>0, <3>3 DEF BudgetInv, Idle, Doing
      <4>3. Doing("console", "search")' /\ ~Doing("console", "sleep")'
        BY <4>1, Scripts DEF Doing
      <4> QED
        BY <3>2, <4>2, <4>3 DEF BudgetInv
    <3>4. CASE op = "list"
      <4>1. script'["console"] = <<>>
        BY <1>0, <3>0, <3>2, <3>4, ScriptHeads
      <4>2. build = "loop" => now + Cost(Len(line)) <= alarm + Late
        BY <1>0, <3>0, <3>4 DEF BudgetInv, Idle, Doing
      <4> QED
        BY <3>2, <4>1, <4>2 DEF BudgetInv, Doing
    <3> QED
      BY <3>1, <3>3, <3>4
  <2>3. CASE Release("console") \/ Exit("console")
    <3>1. UNCHANGED <<build, line, now, wake, alarm>>
      BY <2>3 DEF Release, Exit, Done, timeVars
    <3>2. script'["console"] \in {<<"exit">>, <<>>}
      BY <1>0, <2>3, ScriptHeads DEF Release, Exit, Done, Thread
    <3>3. build = "loop" => now + Cost(Len(line)) <= alarm + Late
      BY <1>0, <2>3 DEF BudgetInv, Release, Exit, Idle, Doing
    <3> QED
      BY <3>1, <3>2, <3>3, Scripts DEF BudgetInv, Doing, Operation
  <2>4. CASE Search
    <3>1. /\ UNCHANGED <<build, line, now, alarm>> /\ wake' = now + SearchSleep
          /\ script'["console"] = <<"sleep", "list">>
      BY <1>0, <2>4, ScriptHeads DEF Search, Done, Thread
    <3>2. build = "loop" => now + Cost(Len(line) + 1) <= alarm + Late
      BY <1>0, <2>4 DEF BudgetInv, Search, Idle, Doing
    <3>3. build = "loop" => now <= wake' /\ wake' + Cost(Len(line)) <= alarm + Late
      BY <1>0, <1>00, <3>1, <3>2
    <3> QED
      BY <3>1, <3>3, Scripts DEF BudgetInv, Doing
  <2>5. CASE WakeUp
    <3>1. /\ UNCHANGED <<build, line, now, alarm>>
          /\ script'["console"] = <<"list">>
      BY <1>0, <2>5, ScriptHeads DEF WakeUp, Done, Thread
    <3>2. build = "loop" => now + Cost(Len(line)) <= alarm + Late
      BY <1>0, <1>00, <2>5 DEF BudgetInv, WakeUp, Idle, Doing
    <3> QED
      BY <3>1, <3>2, Scripts DEF BudgetInv, Doing, Operation, Section
  <2>6. CASE NextCommand
    <3>1. /\ UNCHANGED <<build, now, alarm>> /\ line' = Tail(line) /\ line # <<>>
          /\ script["console"] = <<>>
      BY <2>6 DEF NextCommand, timeVars
    <3>2. build = "loop" => now + Cost(Len(line)) <= alarm + Late
      BY <1>0, <3>1 DEF BudgetInv, Idle, Doing
    <3>3. /\ Cost(Len(line')) \in Nat
          /\ Cost(Len(line)) = Cost(Len(line')) + SearchSleep
          /\ Cost(Len(line') + 1) = Cost(Len(line))
      <4>1. Len(line') \in Nat /\ Len(line) = Len(line') + 1
        BY <1>0, <3>1
      <4> QED
        BY <4>1, CostFacts
    <3>4. script'["console"] \in {<<"renew", "search", "sleep", "list">>,
                <<"search", "sleep", "list">>, <<"list">>, <<"release">>, <<>>}
      <4>1. PICK c \in Command : c = Head(line)
        BY <1>0, <3>1
      <4>2. Program[c] \in {<<"renew", "search", "sleep", "list">>,
                <<"search", "sleep", "list">>, <<"list">>, <<"release">>, <<>>}
        BY DEF Command, Program
      <4> QED
        BY <1>0, <2>6, <4>1, <4>2 DEF NextCommand, Thread
    <3>5. ~Doing("console", "sleep")'
      BY <3>4, Scripts DEF Doing, Operation, Section
    <3>6. build = "loop" => /\ now + Cost(Len(line')) <= alarm + Late
                            /\ now + Cost(Len(line') + 1) <= alarm + Late
      BY <1>0, <1>00, <3>2, <3>3
    <3> QED
      BY <3>1, <3>5, <3>6 DEF BudgetInv
  <2> QED
    BY <1>2, <2>0, <2>1, <2>2, <2>3, <2>4, <2>5, <2>6 DEF Works
<1>3. CASE Begins("console")
  <2>1. CASE ReadLine
    <3>1. /\ UNCHANGED <<build, now, alarm>> /\ script'["console"] = <<>>
          /\ build = "loop" => now <= alarm + MaxLate
      BY <1>0, <2>1 DEF ReadLine, Starts, timeVars, Thread
    <3>2. PICK n \in 1..MaxCmds : line' \in [1..n -> Command]
      BY <2>1 DEF ReadLine
    <3>3. Len(line') = n
      BY <3>2
    <3>4. Cost(n) <= LineSleep /\ Cost(n) \in Nat
      BY CostFacts
    <3>5. build = "loop" => now + Cost(n) <= alarm + Late
      BY <1>0, <1>00, <3>1, <3>4 DEF Late
    <3> QED
      BY <3>1, <3>3, <3>5 DEF BudgetInv, Doing
  <2>2. CASE EndOfInput
    <3>1. build' = "threads"
      BY <2>2 DEF EndOfInput, Starts
    <3> QED
      BY <3>1 DEF BudgetInv
  <2> QED
    BY <1>3, <2>1, <2>2 DEF Begins
<1>4. CASE Tick
  <2>1. /\ UNCHANGED <<build, line, script, wake, alarm>> /\ now' = now + 1
        /\ build = "loop" => Idle("console") \/ (Doing("console", "sleep") /\ now < wake)
    BY <1>4 DEF Tick, Thread
  <2>2. CASE build = "loop" /\ Doing("console", "sleep") /\ now < wake
    BY <1>0, <2>1, <2>2 DEF BudgetInv, Idle, Doing
  <2>3. CASE build # "loop" \/ Idle("console")
    BY <1>0, <2>1, <2>3 DEF BudgetInv, Idle
  <2> QED
    BY <2>1, <2>2, <2>3
<1>5. CASE Rests /\ now' = now
  BY <1>0, <1>5 DEF Rests, BudgetInv, Idle, Doing
<1> QED
  BY <1>1, <1>2, <1>3, <1>4, <1>5, NextSplit DEF Rests

(* What a step of a thread does to the rows and the times. *)
Keeps == UNCHANGED <<now, alarm, marked>> /\ script'["watch"] = script["watch"]

RowEffect ==
    \/ UNCHANGED <<rows, flag, heard>>
    \/ InsertOrMark
    \/ \E n \in 0..Len(rows) : Leading(from, n) /\ Delete(n)
    \/ Delete(Len(rows))
    \/ rows' = <<>> /\ UNCHANGED heard

LEMMA WorkEffect ==
    ASSUME FirstInv, NEW t \in Thread, Works(t)
    PROVE  \/ Keeps /\ RowEffect
           \/ ClearAll /\ script["watch"] = <<"clear">> /\ script'["watch"] = <<>>
           \/ TestAll /\ script["watch"] # <<>> /\ script'["watch"] = <<"clear">>
<1>0. FirstInv /\ ScriptsOK /\ script \in [Thread -> Seq(Operation)]
  BY DEF FirstInv, TypeOK
<1>1. CASE Lock(t) \/ UseAfterFree(t) \/ (t = "receiver" /\ Overrun)
  BY <1>1 DEF Lock, UseAfterFree, Overrun, Keeps, RowEffect, listVars, timeVars
<1>2. CASE Unlock(t)
  <2>1. CASE t = "watch"
    <3>1. /\ ~Doing(t, "renew") /\ ~Doing(t, "logout") /\ ~Doing(t, "announce")
          /\ ~Doing(t, "list")
      BY <1>0, <2>1, ScriptHeads
    <3>2. script'["watch"] = Tail(script["watch"])
      BY <1>0, <1>2, <2>1 DEF Unlock, Done, Thread
    <3>3. CASE Doing(t, "clear") /\ ClearAll
      BY <1>0, <2>1, <3>2, <3>3, ScriptHeads
    <3>4. CASE Doing(t, "test") /\ TestAll
      BY <1>0, <2>1, <3>2, <3>4, ScriptHeads DEF Doing
    <3> QED
      BY <1>2, <3>1, <3>3, <3>4 DEF Unlock
  <2>2. CASE t # "watch"
    <3>1. ~Doing(t, "clear") /\ ~Doing(t, "test")
      <4>1. \A u \in {"console", "receiver", "handler"} : ~Doing(u, "clear") /\ ~Doing(u, "test")
        BY <1>0, ScriptHeads
      <4> QED
        BY <2>2, <4>1 DEF Thread
    <3>2. script'["watch"] = script["watch"]
      BY <1>0, <1>2, <2>2 DEF Unlock, Done, Thread
    <3>3. RowEffect /\ UNCHANGED timeVars
      BY <1>2, <3>1 DEF Unlock, RowEffect, Delete, InsertOrMark, timeVars
    <3> QED
      BY <3>2, <3>3 DEF Keeps, timeVars
  <2> QED
    BY <2>1, <2>2
<1>3. CASE Release(t)
  <2>1. t # "watch"
    <3>1. Doing(t, "release") /\ ~Doing("watch", "release")
      BY <1>0, <1>3, ScriptHeads DEF Release
    <3> QED
      BY <3>1
  <2> QED
    BY <1>0, <1>3, <2>1 DEF Release, Keeps, RowEffect, timeVars, Thread
<1>4. CASE Exit(t)
  <2>1. t # "watch"
    <3>1. Doing(t, "exit") /\ ~Doing("watch", "exit")
      BY <1>0, <1>4, ScriptHeads DEF Exit
    <3> QED
      BY <3>1
  <2> QED
    BY <1>0, <1>4, <2>1 DEF Exit, Done, Keeps, RowEffect, timeVars, Thread
<1>5. CASE t = "console" /\ (Search \/ WakeUp)
  BY <1>0, <1>5 DEF Search, WakeUp, Done, Keeps, RowEffect, Thread
<1>6. CASE t = "console" /\ NextCommand
  BY <1>0, <1>6 DEF NextCommand, Keeps, RowEffect, listVars, timeVars, Thread
<1> QED
  BY <1>1, <1>2, <1>3, <1>4, <1>5, <1>6 DEF Works

LEMMA BeginEffect ==
    ASSUME FirstInv, NEW t \in Thread, Begins(t)
    PROVE  /\ UNCHANGED <<now, alarm, marked, rows, flag, heard>>
           /\ \/ script'["watch"] = script["watch"]
              \/ /\ now >= alarm
                 /\ script'["watch"] = IF marked THEN <<"test", "clear">> ELSE <<"clear">>
<1>0. FirstInv /\ script \in [Thread -> Seq(Operation)]
  BY DEF FirstInv, TypeOK
<1>1. UNCHANGED <<now, alarm, marked, rows, flag, heard>>
  BY <1>0, BeginsAlone DEF listVars, timeVars
<1>2. CASE t = "watch"
  BY <1>0, <1>1, <1>2 DEF Begins, Watch, Starts, Thread
<1>3. CASE t # "watch"
  BY <1>0, <1>1, <1>3, BeginsAlone DEF Thread
<1> QED
  BY <1>1, <1>2, <1>3

LEMMA AlarmStep ==
    ASSUME FirstInv, TimeInv, [Next]_firstVars
    PROVE  AlarmInv'
<1> USE FirstAssumption
<1>0. /\ FirstInv /\ AlarmInv /\ BudgetInv
      /\ now \in Nat /\ wake \in Nat /\ alarm \in Nat /\ build \in {"loop", "threads"}
      /\ Late \in Nat /\ MaxLate <= Late
  BY CostFacts DEF FirstInv, TypeOK, TimeInv
<1>1. ASSUME NEW t \in Thread, Works(t)
      PROVE  AlarmInv'
  <2>1. CASE Keeps
    BY <1>0, <2>1 DEF AlarmInv, Keeps
  <2>2. CASE ClearAll /\ script'["watch"] = <<>>
    BY <1>0, <2>2 DEF AlarmInv, ClearAll
  <2>3. CASE TestAll /\ script["watch"] # <<>>
    BY <1>0, <2>3 DEF AlarmInv, TestAll, timeVars
  <2> QED
    BY <1>0, <1>1, <2>1, <2>2, <2>3, WorkEffect
<1>2. ASSUME NEW t \in Thread, Begins(t)
      PROVE  AlarmInv'
  BY <1>0, <1>2, BeginEffect DEF AlarmInv
<1>3. CASE Rests /\ now' = now
  BY <1>0, <1>3 DEF Rests, AlarmInv
<1>4. CASE Tick
  <2>1. now' = now + 1 /\ UNCHANGED <<alarm, script>>
    BY <1>4 DEF Tick
  <2>2. CASE now < alarm + MaxLate
    BY <1>0, <2>1, <2>2 DEF AlarmInv
  <2>3. CASE build = "loop" /\ Doing("console", "sleep") /\ now < wake
    <3>1. Len(line) \in Nat
      BY <1>0 DEF FirstInv, TypeOK
    <3>2. Cost(Len(line)) \in Nat /\ wake + Cost(Len(line)) <= alarm + Late
      BY <1>0, <2>3, <3>1, CostFacts DEF BudgetInv, Idle, Doing
    <3> QED
      BY <1>0, <2>1, <2>3, <3>2 DEF AlarmInv
  <2> QED
    BY <1>4, <2>2, <2>3 DEF Tick
<1> QED
  BY <1>1, <1>2, <1>3, <1>4, NextSplit DEF Rests

LEMMA AgeStep ==
    ASSUME FirstInv, TimeInv, [Next]_firstVars
    PROVE  AgeInv'
<1> USE FirstAssumption
<1>0. /\ FirstInv /\ AlarmInv /\ AgeInv
      /\ now \in Nat /\ alarm \in Nat /\ Late \in Nat /\ from \in Mac
      /\ listed \subseteq Mac /\ flag \in [Mac -> 0..3] /\ heard \in [Mac -> Nat]
      /\ TypeOK /\ Len(rows) \in 0..Len(rows)
  <2>1. TypeOK /\ AlarmInv /\ AgeInv
    BY DEF FirstInv, TimeInv
  <2>2. listed \subseteq Mac /\ Late \in Nat
    BY <2>1, ListedMacs, CostFacts
  <2>3. Len(rows) \in Nat
    BY <2>1 DEF TypeOK
  <2> QED
    BY <2>1, <2>2, <2>3 DEF TypeOK
<1>1. ASSUME NEW t \in Thread, Works(t)
      PROVE  AgeInv'
  <2>1. CASE Keeps /\ RowEffect
    <3>1. UNCHANGED <<now, alarm, marked>> /\ script'["watch"] = script["watch"]
      BY <2>1 DEF Keeps
    <3>2. CASE UNCHANGED <<rows, flag, heard>>
      BY <1>0, <3>1, <3>2, SameListed DEF AgeInv
    <3>3. CASE InsertOrMark
      <4> SUFFICES ASSUME NEW m \in listed'
                   PROVE  /\ heard'[m] <= now
                          /\ flag'[m] = 1 => heard'[m] >= alarm - CheckCycle
                          /\ flag'[m] = 3 => /\ heard'[m] <= alarm - CheckCycle
                                             /\ heard'[m] >= alarm - 2 * CheckCycle - Late
                          /\ ~marked \/ script["watch"] = <<"clear">> => flag'[m] \in {0, 1}
        BY <3>1 DEF AgeInv
      <4>1. CASE m = from
        <5>1. flag'[m] = 1 /\ heard'[m] = now
          BY <1>0, <3>3, <4>1 DEF InsertOrMark
        <5> QED
          BY <1>0, <5>1 DEF AlarmInv
      <4>2. CASE m # from
        <5>1. m \in listed /\ flag'[m] = flag[m] /\ heard'[m] = heard[m]
          BY <1>0, <3>3, <4>2, InsertListed DEF InsertOrMark
        <5> QED
          BY <1>0, <5>1 DEF AgeInv
      <4> QED
        BY <4>1, <4>2
    <3>4. ASSUME NEW n \in 0..Len(rows), Delete(n)
          PROVE  AgeInv'
      <4>1. heard' = heard /\ \A m \in listed' : m \in listed /\ flag'[m] = flag[m]
        BY <1>0, <3>4, DeleteListed DEF Delete
      <4> QED
        BY <1>0, <3>1, <4>1 DEF AgeInv
    <3>5. CASE rows' = <<>>
      BY <3>5, EmptyListed DEF AgeInv
    <3> QED
      BY <1>0, <2>1, <3>2, <3>3, <3>4, <3>5 DEF RowEffect
  <2>2. CASE ClearAll /\ script["watch"] = <<"clear">> /\ script'["watch"] = <<>>
    <3>1. UNCHANGED <<listed, heard, now>> /\ alarm' = now + CheckCycle /\ marked' = TRUE
      BY <2>2, SameListed DEF ClearAll
    <3>2. now >= alarm
      BY <1>0, <2>2 DEF AlarmInv
    <3> SUFFICES ASSUME NEW m \in listed
                 PROVE  /\ heard[m] <= now
                        /\ flag'[m] = 1 => heard[m] >= now
                        /\ flag'[m] = 3 => /\ heard[m] <= now
                                           /\ heard[m] >= now - CheckCycle - Late
      BY <1>0, <2>2, <3>1 DEF AgeInv
    <3>3. /\ flag[m] \in {0, 1} /\ heard[m] <= now /\ heard[m] \in Nat
          /\ flag[m] = 1 => heard[m] >= alarm - CheckCycle
      BY <1>0, <2>2 DEF AgeInv
    <3>4. flag'[m] = flag[m] + 2
      BY <1>0, <2>2, <3>3 DEF ClearAll
    <3> QED
      BY <1>0, <3>2, <3>3, <3>4 DEF AlarmInv
  <2>3. CASE TestAll /\ script["watch"] # <<>> /\ script'["watch"] = <<"clear">>
    <3>1. UNCHANGED <<listed, heard, now, alarm, marked>>
      BY <2>3, SameListed DEF TestAll, timeVars
    <3>2. \A m \in listed : flag'[m] \in {0, flag[m]} /\ flag'[m] \in {0, 1}
      BY <1>0, <2>3 DEF TestAll
    <3> QED
      BY <1>0, <3>1, <3>2 DEF AgeInv
  <2> QED
    BY <1>0, <1>1, <2>1, <2>2, <2>3, WorkEffect
<1>2. ASSUME NEW t \in Thread, Begins(t)
      PROVE  AgeInv'
  <2>1. UNCHANGED <<now, alarm, marked, listed, flag, heard>>
    BY <1>0, <1>2, BeginEffect, SameListed
  <2>2. script'["watch"] = <<"clear">> => ~marked \/ script["watch"] = <<"clear">>
    BY <1>0, <1>2, BeginEffect, Scripts
  <2> QED
    BY <1>0, <2>1, <2>2 DEF AgeInv
<1>3. CASE Rests
  <2>1. UNCHANGED <<alarm, marked, listed, flag, heard, script>> /\ now' \in Nat /\ now' >= now
    BY <1>0, <1>3, SameListed DEF Rests, listVars, Tick
  <2> QED
    BY <1>0, <2>1 DEF AgeInv
<1> QED
  BY <1>1, <1>2, <1>3, NextSplit

LEMMA TimeInvInit == Init => TimeInv
BY FirstAssumption, CostFacts DEF Init, TimeInv, AlarmInv, AgeInv, BudgetInv, Idle, Thread, listed

LEMMA TimeInvStep == FirstInv /\ TimeInv /\ [Next]_firstVars => TimeInv'
BY AlarmStep, AgeStep, BudgetStep DEF TimeInv

THEOREM TimeInvariant == Spec => []TimeInv
<1> QED
  BY TimeInvInit, TimeInvStep, FirstInvariant, PTL DEF Spec

-----------------------------------------------------------------------------
(* The first tool implements DeviceQueue *)

(* Rows that keep their flag are the same rows to the queue. *)
LEMMA SameRow ==
    ASSUME NEW m, m \in listed' <=> m \in listed, m \in listed => flag'[m] = flag[m]
    PROVE  RowOf(m)' = RowOf(m)
BY DEF RowOf

LEMMA MarkQueue ==
    ASSUME TypeOK, InsertOrMark
    PROVE  Queue!Announce(from)
<1>0. /\ from \in Mac /\ listed \subseteq Mac /\ flag \in [Mac -> 0..3]
      /\ heard \in [Mac -> Nat] /\ listed' = listed \cup {from}
  BY ListedMacs, InsertListed DEF TypeOK
<1>1. ASSUME NEW m \in Mac
      PROVE  RowOf(m)' = IF m = from THEN "alive" ELSE RowOf(m)
  <2>1. CASE m # from
    BY <1>0, <2>1, SameRow DEF InsertOrMark
  <2>2. CASE m = from
    <3>1. m \in listed' /\ flag'[m] = 1
      BY <1>0, <2>2 DEF InsertOrMark
    <3> QED
      BY <2>2, <3>1 DEF RowOf
  <2> QED
    BY <2>1, <2>2
<1>3. row' = [row EXCEPT ![from] = "alive"]
  BY <1>0, <1>1 DEF row
<1> QED
  BY <1>3 DEF InsertOrMark, timeVars, Queue!Announce

(* A logout takes the row of the camera, when strncmp tells it from others. *)
LEMMA LogoutQueue ==
    ASSUME TypeOK, \A m, n \in Mac : StrncmpEq(m, n) => m = n,
           NEW k \in 0..Len(rows), Leading(from, k), Delete(k)
    PROVE  Queue!Leave(from)
<1>0. from \in Mac /\ listed \subseteq Mac
  BY ListedMacs DEF TypeOK
<1>1. \A m \in Mac : StrncmpEq(m, from) <=> m = from
  BY <1>0 DEF StrncmpEq
<1>2. listed' = listed \ {from}
  BY <1>0, <1>1, LogoutListed
<1>3. UNCHANGED <<now, heard>> /\ \A m \in listed' : m \in Mac => flag'[m] = flag[m]
  BY DEF Delete, timeVars
<1>4. ASSUME NEW m \in Mac
      PROVE  RowOf(m)' = IF m = from THEN "absent" ELSE RowOf(m)
  <2>1. CASE m = from
    BY <1>2, <2>1 DEF RowOf
  <2>2. CASE m # from
    <3>1. m \in listed' <=> m \in listed
      BY <1>2, <2>2
    <3> QED
      BY <1>3, <2>2, <3>1, SameRow
  <2> QED
    BY <2>1, <2>2
<1>5. row' = [row EXCEPT ![from] = "absent"]
  BY <1>0, <1>4 DEF row
<1> QED
  BY <1>3, <1>5 DEF Queue!Leave

LEMMA EmptyQueue ==
    ASSUME rows' = <<>>
    PROVE  row' = [m \in Mac |-> "absent"]
BY EmptyListed DEF row, RowOf

LEMMA TestQueue ==
    ASSUME FirstInv, TimeInv, TestAll, script["watch"] # <<>>
    PROVE  Queue!Expire
<1>0. /\ listed \subseteq Mac /\ flag \in [Mac -> 0..3] /\ heard \in [Mac -> Nat]
      /\ now \in Nat /\ alarm \in Nat /\ AgeInv /\ now >= alarm
      /\ listed' = listed /\ heard' = heard /\ now' = now
  BY ListedMacs, SameListed DEF FirstInv, TypeOK, TimeInv, AlarmInv, TestAll, timeVars
<1>1. ASSUME NEW m \in Mac
      PROVE  /\ RowOf(m)' \in {"absent", "alive", "dead"}
             /\ RowOf(m)' # RowOf(m) =>
                   RowOf(m) = "alive" /\ RowOf(m)' = "dead" /\ now - heard[m] >= CheckCycle
  <2>1. CASE m \notin listed
    BY <1>0, <2>1 DEF RowOf
  <2>2. CASE m \in listed
    <3>1. /\ flag[m] \in 0..3 /\ flag'[m] = IF flag[m] # 1 THEN 0 ELSE 1
      BY <1>0, <2>2 DEF TestAll
    <3>2. RowOf(m)' = IF flag[m] = 1 THEN "alive" ELSE "dead"
      BY <1>0, <2>2, <3>1 DEF RowOf
    <3>3. RowOf(m) = IF flag[m] \in {1, 3} THEN "alive" ELSE "dead"
      BY <2>2 DEF RowOf
    <3>4. flag[m] = 3 => now - heard[m] >= CheckCycle
      BY <1>0, <2>2, FirstAssumption DEF AgeInv
    <3> QED
      BY <3>1, <3>2, <3>3, <3>4
  <2> QED
    BY <2>1, <2>2
<1>2. row' \in [Mac -> {"absent", "alive", "dead"}]
  BY <1>1 DEF row
<1>3. \A m \in Mac : row'[m] # row[m] =>
         row[m] = "alive" /\ row'[m] = "dead" /\ now - heard[m] >= CheckCycle
  BY <1>1 DEF row
<1> QED
  BY <1>0, <1>2, <1>3 DEF Queue!Expire

LEMMA ClearQueue ==
    ASSUME FirstInv, TimeInv, ClearAll, script["watch"] = <<"clear">>
    PROVE  UNCHANGED <<now, row, heard>>
<1>0. /\ listed \subseteq Mac /\ flag \in [Mac -> 0..3] /\ AgeInv
      /\ listed' = listed /\ heard' = heard /\ now' = now
  BY ListedMacs, SameListed DEF FirstInv, TypeOK, TimeInv, ClearAll
<1>1. ASSUME NEW m \in Mac
      PROVE  RowOf(m)' = RowOf(m)
  <2>1. CASE m \notin listed
    BY <1>0, <2>1 DEF RowOf
  <2>2. CASE m \in listed
    <3>1. flag[m] \in {0, 1}
      BY <1>0, <2>2 DEF AgeInv
    <3>2. flag'[m] = flag[m] + 2
      BY <1>0, <2>2, <3>1 DEF ClearAll
    <3> QED
      BY <1>0, <2>2, <3>1, <3>2 DEF RowOf
  <2> QED
    BY <2>1, <2>2
<1> QED
  BY <1>0, <1>1 DEF row

(* A tick keeps the watch in time, and no row older than its flag allows. *)
LEMMA TickQueue ==
    ASSUME FirstInv, TimeInv, Tick, AlarmInv'
    PROVE  Queue!Tick
<1> USE FirstAssumption
<1>0. /\ listed \subseteq Mac /\ flag \in [Mac -> 0..3] /\ heard \in [Mac -> Nat]
      /\ now \in Nat /\ alarm \in Nat /\ AgeInv /\ LineSleep \in Nat
      /\ UNCHANGED <<listed, flag, heard, alarm>> /\ now' = now + 1
  BY CostFacts, ListedMacs, SameListed DEF FirstInv, TypeOK, TimeInv, Tick, listVars
<1>1. now + 1 <= alarm + Late
  BY <1>0 DEF AlarmInv, Late, LineSleep
<1>2. ASSUME NEW m \in Mac, RowOf(m) = "alive"
      PROVE  now + 1 - heard[m] <= 2 * (CheckCycle + MaxLate + LineSleep)
  <2>1. m \in listed /\ flag[m] \in {1, 3} /\ heard[m] \in Nat
    BY <1>0, <1>2 DEF RowOf
  <2>2. heard[m] >= alarm - CheckCycle \/ heard[m] >= alarm - 2 * CheckCycle - Late
    BY <1>0, <2>1 DEF AgeInv
  <2> QED
    BY <1>0, <1>1, <2>1, <2>2 DEF Late
<1>3. row' = row
  BY <1>0 DEF row, RowOf
<1> QED
  BY <1>0, <1>2, <1>3 DEF row, Queue!Tick

LEMMA QueueStep ==
    ASSUME FirstInv, TimeInv, AlarmInv', [Next]_firstVars,
           \A m, n \in Mac : StrncmpEq(m, n) => m = n
    PROVE  [Queue!QueueNext]_Queue!queueVars
<1>0. TypeOK /\ from \in Mac /\ rows \in Seq(Mac)
  BY DEF FirstInv, TypeOK
<1>00. ASSUME UNCHANGED <<rows, flag, heard, now>>
       PROVE  UNCHANGED <<now, row, heard>>
  BY <1>00, SameListed DEF row, RowOf
<1>1. ASSUME NEW t \in Thread, Works(t)
      PROVE  [Queue!QueueNext]_Queue!queueVars
  <2>1. CASE Keeps /\ RowEffect
    <3>1. CASE UNCHANGED <<rows, flag, heard>>
      BY <1>00, <2>1, <3>1 DEF Keeps, Queue!queueVars
    <3>2. CASE InsertOrMark
      BY <1>0, <3>2, MarkQueue DEF Queue!QueueNext
    <3>3. CASE \E n \in 0..Len(rows) : Leading(from, n) /\ Delete(n)
      BY <1>0, <3>3, LogoutQueue DEF Queue!QueueNext
    <3>4. CASE Delete(Len(rows))
      <4>1. rows' = <<>> /\ UNCHANGED <<now, heard>>
        BY <1>0, <3>4 DEF Delete, timeVars
      <4> QED
        BY <4>1, EmptyQueue DEF Queue!Forget, Queue!QueueNext
    <3>5. CASE rows' = <<>> /\ UNCHANGED heard
      BY <2>1, <3>5, EmptyQueue DEF Keeps, Queue!Forget, Queue!QueueNext
    <3> QED
      BY <2>1, <3>1, <3>2, <3>3, <3>4, <3>5 DEF RowEffect
  <2>2. CASE ClearAll /\ script["watch"] = <<"clear">>
    BY <2>2, ClearQueue DEF Queue!queueVars
  <2>3. CASE TestAll /\ script["watch"] # <<>>
    BY <2>3, TestQueue DEF Queue!QueueNext
  <2> QED
    BY <1>1, <2>1, <2>2, <2>3, WorkEffect
<1>2. ASSUME NEW t \in Thread, Begins(t)
      PROVE  [Queue!QueueNext]_Queue!queueVars
  BY <1>00, <1>2, BeginEffect DEF Queue!queueVars
<1>3. CASE Tick
  BY <1>3, TickQueue DEF Queue!QueueNext
<1>4. CASE Rests /\ now' = now
  BY <1>00, <1>4 DEF Rests, listVars, Queue!queueVars
<1> QED
  BY <1>1, <1>2, <1>3, <1>4, NextSplit DEF Rests

(* Both builds implement DeviceQueue until a fault, for any cameras that
   strncmp tells apart, every period and lateness and lines of any length:
   none of the interleavings of the threads, and no sleep inside the loop,
   marks a camera dead before a cycle of silence or leaves one alive beyond
   the bound.  FaultsHaveCause says what the faults are. *)
THEOREM FirstKeepsQueue ==
    ASSUME \A m, n \in Mac : StrncmpEq(m, n) => m = n
    PROVE  Spec => QueueUntilFault
<1>1. Init => Queue!QueueInit
  <2> SUFFICES ASSUME Init PROVE Queue!QueueInit
    OBVIOUS
  <2>1. row = [m \in Mac |-> "absent"]
    BY DEF Init, row, RowOf, listed
  <2> QED
    BY <2>1 DEF Init, Queue!QueueInit
<1>2. FirstInv /\ TimeInv /\ AlarmInv' /\ [Next]_firstVars
         => [mode' = "undefined" \/ Queue!QueueNext]_(Queue!queueVars)
  BY QueueStep
<1>3. TimeInv => AlarmInv
  BY DEF TimeInv
<1> QED
  BY <1>1, <1>2, <1>3, FirstInvariant, TimeInvariant, PTL DEF Spec, QueueUntilFault

=============================================================================
