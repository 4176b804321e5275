--------------------------- MODULE AlreadyRunning ---------------------------
(***************************************************************************)
(* The single instance lock, already_running.c: a starting process opens   *)
(* the pid file beside its executable, asks for a record lock on it, and   *)
(* when it gets the lock writes its pid and keeps the file open until it   *)
(* ends.  The file is never removed; it is the lock that tells, and the    *)
(* kernel takes it back when its holder ends, in whatever way.             *)
(***************************************************************************)
EXTENDS Naturals

CONSTANTS
    Process,   \* pids
    Path,      \* executables, each with its pid file
    NoPid      \* what a file names that is absent or empty

ASSUME NoPidAssumption == NoPid \notin Process

VARIABLES
    exe,       \* the executable of a process
    at,        \* where each process is, "off" before and after its life
    holder,    \* who has the lock on a path's file
    file       \* the pid in a path's file

instanceVars == <<exe, at, holder, file>>

(* In the order of the code: open, lock, ftruncate, write, and the program
   itself, or close when the lock is taken. *)
Place == {"off", "opening", "locking", "truncating", "writing", "running", "refused"}

TypeOK ==
    /\ exe \in [Process -> Path]
    /\ at \in [Process -> Place]
    /\ holder \in [Path -> Process \cup {NoPid}]
    /\ file \in [Path -> Process \cup {NoPid}]

Init ==
    /\ exe \in [Process -> Path]
    /\ at = [p \in Process |-> "off"]
    /\ holder = [x \in Path |-> NoPid]
    /\ file = [x \in Path |-> NoPid]

Goes(p, from, to) == at[p] = from /\ at' = [at EXCEPT ![p] = to]

(* The program is started, from any of the paths. *)
Start(p) ==
    /\ Goes(p, "off", "opening")
    /\ \E x \in Path : exe' = [exe EXCEPT ![p] = x]
    /\ UNCHANGED <<holder, file>>

(* Faulty variant of Open: the file is emptied when it is opened. *)
OpenTruncating(p) ==
    /\ Goes(p, "opening", "locking")
    /\ file' = [file EXCEPT ![exe[p]] = NoPid]
    /\ UNCHANGED <<exe, holder>>

(* open with O_CREAT. *)
Open(p) == Goes(p, "opening", "locking") /\ UNCHANGED <<exe, holder, file>>

(* Faulty variant of Lock: the lock of another process does not count. *)
LockAnyway(p) ==
    /\ Goes(p, "locking", "truncating")
    /\ holder' = [holder EXCEPT ![exe[p]] = p]
    /\ UNCHANGED <<exe, file>>

(* Faulty variant of Refused: the pid in the file tells, not the lock. *)
RefusedByFile(p) ==
    /\ file[exe[p]] # NoPid
    /\ Goes(p, "locking", "refused")
    /\ UNCHANGED <<exe, holder, file>>

(* fcntl F_SETLK: the lock is granted, or refused at once. *)
Lock(p) ==
    /\ holder[exe[p]] = NoPid
    /\ Goes(p, "locking", "truncating")
    /\ holder' = [holder EXCEPT ![exe[p]] = p]
    /\ UNCHANGED <<exe, file>>

Refused(p) ==
    /\ holder[exe[p]] # NoPid
    /\ Goes(p, "locking", "refused")
    /\ UNCHANGED <<exe, holder, file>>

(* ftruncate; an error is reported and nothing else. *)
Truncate(p) ==
    /\ Goes(p, "truncating", "writing")
    /\ file' \in {file, [file EXCEPT ![exe[p]] = NoPid]}
    /\ UNCHANGED <<exe, holder>>

(* Faulty variant of Write: without the byte that ends it, digits of a
   longer pid may be left behind it. *)
WriteUnterminated(p) ==
    /\ Goes(p, "writing", "running")
    /\ file' = [file EXCEPT ![exe[p]] = IF @ \in {NoPid, p} THEN p ELSE "mixed"]
    /\ UNCHANGED <<exe, holder>>

(* write: the pid and the byte that ends it go over what is there, so the
   file names this process also when it was not truncated. *)
Write(p) ==
    /\ Goes(p, "writing", "running")
    /\ file' = [file EXCEPT ![exe[p]] = p]
    /\ UNCHANGED <<exe, holder>>

(* An error of write is reported, and the program runs all the same. *)
WriteFails(p) == Goes(p, "writing", "running") /\ UNCHANGED <<exe, holder, file>>

(* The process ends: main exits when it was refused or when open or fcntl
   fail, the user quits the tool, or it is killed at any point.  The kernel
   closes its file, and with it goes the lock. *)
End(p) ==
    /\ at[p] # "off" /\ at' = [at EXCEPT ![p] = "off"]
    /\ holder' = [x \in Path |-> IF holder[x] = p THEN NoPid ELSE holder[x]]
    /\ UNCHANGED <<exe, file>>

Steps(p) ==
    \/ Open(p)
    \/ Lock(p) \/ Refused(p)
    \/ Truncate(p)
    \/ Write(p) \/ WriteFails(p)

Next == \E p \in Process : Start(p) \/ Steps(p) \/ End(p)

Spec == Init /\ [][Next]_instanceVars

(* A process that was started goes on, and one that was refused ends; none
   that runs need ever end. *)
Fairness ==
    \A p \in Process :
        /\ WF_instanceVars(Steps(p))
        /\ WF_instanceVars(at[p] = "refused" /\ End(p))

FairSpec == Spec /\ Fairness

-----------------------------------------------------------------------------
(* Properties *)

Entered(p) == at[p] \in {"truncating", "writing", "running"}

(* However the starts of several processes interleave, and wherever they are
   killed, at most one process of an executable is past the lock. *)
OneInstance ==
    \A p, q \in Process : Entered(p) /\ Entered(q) /\ exe[p] = exe[q] => p = q

(* Once an instance has written its pid, the file keeps it for as long as it
   runs: others that are started, refused or killed do not disturb it. *)
FileKeepsPid ==
    [][\A p \in Process :
          at[p] = "running" /\ at'[p] = "running" /\ file[exe[p]] = p
              => file'[exe[p]] = p]_instanceVars

(* A start is refused only while another instance of the same executable is
   past the lock; the pid file that a killed instance has left behind keeps
   nobody out. *)
RefusedForInstance ==
    [][\A p \in Process :
          at[p] = "locking" /\ at'[p] = "refused" =>
              \E q \in Process \ {p} : exe[q] = exe[p] /\ Entered(q)]_instanceVars

(* Nobody quits, fails or is killed, only the refused end. *)
NobodyQuits ==
    <>[][\A p \in Process : at[p] # "off" /\ at'[p] = "off" => at[p] = "refused"]_instanceVars

(* The instances that compete do not all refuse one another: a program that
   is started again and again comes to run, when nobody quits any more. *)
SomeoneRuns ==
    \A x \in Path :
        NobodyQuits /\ []<>(\E p \in Process : at[p] = "opening" /\ exe[p] = x)
            => <>[](\E p \in Process : at[p] = "running" /\ exe[p] = x)

=============================================================================
