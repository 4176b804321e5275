------------------------------ MODULE MCPcFirst ------------------------------
(***************************************************************************)
(* Two cameras for model checking PcFirst, and a view of its states that   *)
(* needs no bound of the clock: the tool compares times and never reads    *)
(* one, and what was last read of a camera or a message that is not there  *)
(* any more matters to nothing.                                            *)
(***************************************************************************)
EXTENDS PcFirst

(* Addresses that differ in their first byte. *)
Cameras == { <<1>>, <<2>> }

(* Times are taken from now, and only those that are still compared. *)
Age(m) == IF RowOf(m) = "alive" THEN now - heard[m] ELSE 0
SleepLeft == IF Doing("console", "sleep") /\ now < wake THEN wake - now ELSE 0
Sender == IF Idle("receiver") THEN <<>> ELSE from

View == <<build, mode, listVars, inside, line, script, todo, Sender, SleepLeft, marked,
          alarm - now, [m \in Mac |-> Age(m)]>>

=============================================================================
