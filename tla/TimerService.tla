---------------------------- MODULE TimerService ----------------------------
(***************************************************************************)
(* What the event loop promises about time events, without lists, polling  *)
(* or passes: a registered time event stays registered until its procedure *)
(* runs, which is not before its time and at most MaxLate after it; the    *)
(* procedure may leave it registered for a later time and register others. *)
(***************************************************************************)
EXTENDS Integers

CONSTANT MaxLate

VARIABLES
    now,        \* the time
    pending     \* the registered time events: records with an id and a time

serviceVars == <<now, pending>>

(* Time events that appear in a step are for now or later, one per id. *)
Registered(kept) ==
    /\ kept \subseteq pending'
    /\ \A e \in pending' \ kept : e.when >= now
    /\ \A e, f \in pending' : e.id = f.id => e = f

ServiceInit ==
    /\ now \in Nat
    /\ \A e \in pending : e.when >= now
    /\ \A e, f \in pending : e.id = f.id => e = f

(* A time event is registered. *)
Register ==
    /\ Registered(pending)
    /\ UNCHANGED now

(* The procedure of a time event runs. *)
Run(e) ==
    /\ e.when <= now
    /\ Registered(pending \ {e})
    /\ UNCHANGED now

(* Time passes; no procedure is more than MaxLate late. *)
Tick ==
    /\ \A e \in pending : now + 1 <= e.when + MaxLate
    /\ now' = now + 1
    /\ UNCHANGED pending

ServiceNext ==
    \/ Register
    \/ \E e \in pending : Run(e)
    \/ Tick

ServiceSpec == ServiceInit /\ [][ServiceNext]_serviceVars

=============================================================================
