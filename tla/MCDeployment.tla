---------------------------- MODULE MCDeployment ----------------------------
(***************************************************************************)
(* Values and bounds for model checking Deployment with the event loop     *)
(* build, whose one thread makes the camera small enough.                  *)
(***************************************************************************)
EXTENDS Deployment, FiniteSets, TLC

CONSTANTS
    MaxTime,     \* bound of the clock
    MaxTimers    \* bound of timeEventNextId

(* The camera and one other. *)
CameraMac == <<1>>
OtherMac == <<2>>
TwoMacs == {CameraMac, OtherMac}

OnlyV2 == {"v2"}

(* Bounds.  A listing, a restart of the tool and a start of the camera each
   come while the others are at rest: the camera starts in the first tick,
   its parent does not outlive the start, and it ends only when it has been
   in its loop, with its MAC. *)
AtRest == alive /\ handler["main"] = "none" /\ receiver = "waiting" /\ net = {}

Few ==
    /\ now <= MaxTime /\ nextId <= MaxTimers
    /\ Cardinality(net) <= 1
    /\ heard[OtherMac] = 0
    /\ main # "beating" => now <= 1 /\ alive
    /\ main = "beating" => knowsMac
    /\ parent => main \in {"forked", "bound", "online"}
    /\ (mode = "exited" \/ \E t \in timers : t.proc = "list") => main = "boot" \/ AtRest

(* What the camera does next, for this build: nothing when it has ended,
   only what the handler does once that is past its LOGOUT. *)
CameraView ==
    CASE ~alive -> <<>>
      [] alive /\ handler["main"] \in {"close", "exit"} ->
            <<handler["main"], taken["main"], open>>
      [] OTHER ->
            <<handler["main"], taken["main"], left, main, receiver, open,
              heartbeatNum, beatAt, spoke>>

(* What neither the next steps nor OnlineIsShown and EndedIsNotShown depend on
   is left out: the last message, the history variable fresh, and the fields
   of a camera that will not read them again. *)
View == <<toolState, now, net, missed, calm, build, alive, CameraView, knowsMac,
          parent, handler["parent"], taken["parent"]>>

(* Blocks are interchangeable. *)
CellSymmetry == Permutations(Cell)

=============================================================================
