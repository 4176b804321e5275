------------------------ MODULE AlreadyRunningProofs ------------------------
(***************************************************************************)
(* The single instance lock for every number of processes and executables. *)
(* The invariant ties the lock to the place of its holder: the processes   *)
(* past the lock are those that the kernel has as holders.                 *)
(***************************************************************************)
EXTENDS AlreadyRunning, TLAPS

HolderEntered ==
    \A x \in Path : \A p \in Process :
        holder[x] = p <=> Entered(p) /\ exe[p] = x

InstanceInv == TypeOK /\ HolderEntered

-----------------------------------------------------------------------------
LEMMA TypeStep == TypeOK /\ [Next]_instanceVars => TypeOK'
<1> SUFFICES ASSUME TypeOK, [Next]_instanceVars PROVE TypeOK'
  OBVIOUS
<1> USE DEF TypeOK, Place, Goes
<1>1. ASSUME NEW p \in Process, Start(p) PROVE TypeOK'
  BY <1>1 DEF Start
<1>2. ASSUME NEW p \in Process, Steps(p) PROVE TypeOK'
  <2>1. CASE Open(p)
    BY <2>1 DEF Open
  <2>2. CASE Lock(p)
    BY <2>2 DEF Lock
  <2>3. CASE Refused(p)
    BY <2>3 DEF Refused
  <2>4. CASE Truncate(p)
    BY <2>4 DEF Truncate
  <2>5. CASE Write(p) \/ WriteFails(p)
    BY <2>5 DEF Write, WriteFails
  <2> QED
    BY <1>2, <2>1, <2>2, <2>3, <2>4, <2>5 DEF Steps
<1>3. ASSUME NEW p \in Process, End(p) PROVE TypeOK'
  BY <1>3 DEF End
<1>4. CASE UNCHANGED instanceVars
  BY <1>4 DEF instanceVars
<1> QED
  BY <1>1, <1>2, <1>3, <1>4 DEF Next

(* A process gets the lock when it goes past it, and loses it at its end. *)
LEMMA HolderStep ==
    ASSUME InstanceInv, [Next]_instanceVars
    PROVE  HolderEntered'
<1> USE NoPidAssumption DEF InstanceInv, TypeOK, HolderEntered, Entered, Place, Goes
<1>1. ASSUME NEW p \in Process, Start(p) PROVE HolderEntered'
  BY <1>1 DEF Start
<1>2. ASSUME NEW p \in Process, Steps(p) PROVE HolderEntered'
  <2>1. CASE Open(p) \/ Refused(p)
    BY <2>1 DEF Open, Refused
  <2>2. CASE Lock(p)
    BY <2>2 DEF Lock
  <2>3. CASE Truncate(p) \/ Write(p) \/ WriteFails(p)
    BY <2>3 DEF Truncate, Write, WriteFails
  <2> QED
    BY <1>2, <2>1, <2>2, <2>3 DEF Steps
<1>3. ASSUME NEW p \in Process, End(p) PROVE HolderEntered'
  BY <1>3 DEF End
<1>4. CASE UNCHANGED instanceVars
  BY <1>4 DEF instanceVars
<1> QED
  BY <1>1, <1>2, <1>3, <1>4 DEF Next

LEMMA InstanceInvAlways == Spec => []InstanceInv
<1>1. Init => InstanceInv
  BY NoPidAssumption DEF Init, InstanceInv, TypeOK, HolderEntered, Entered, Place
<1>2. InstanceInv /\ [Next]_instanceVars => InstanceInv'
  BY TypeStep, HolderStep DEF InstanceInv
<1> QED
  BY <1>1, <1>2, PTL DEF Spec

(* Places, holders and files keep to their types. *)
THEOREM InstanceTypes == Spec => []TypeOK
BY InstanceInvAlways, PTL DEF InstanceInv

(* At most one process of an executable is past the lock, for any number of
   them, started, refused and killed in any order. *)
THEOREM AtMostOneInstance == Spec => []OneInstance
<1>1. InstanceInv => OneInstance
  BY DEF InstanceInv, TypeOK, HolderEntered, OneInstance
<1> QED
  BY <1>1, InstanceInvAlways, PTL

(* The pid of a running instance stays in the file: only the holder of the
   lock writes to it, and it does so before it runs. *)
THEOREM PidFileIsKept == Spec => FileKeepsPid
<1>1. ASSUME InstanceInv, [Next]_instanceVars, NEW p \in Process,
             at[p] = "running", at'[p] = "running", file[exe[p]] = p
      PROVE  file'[exe[p]] = p
  <2> USE <1>1 DEF InstanceInv, TypeOK, Goes
  <2>1. ASSUME NEW q \in Process, Truncate(q) \/ Write(q) PROVE exe[q] # exe[p]
    BY <2>1 DEF HolderEntered, Entered, Truncate, Write
  <2>2. ASSUME NEW q \in Process, Truncate(q) \/ Write(q) PROVE file'[exe[p]] = p
    BY <2>1, <2>2 DEF Truncate, Write
  <2>3. CASE UNCHANGED file
    BY <2>3
  <2>4. UNCHANGED file \/ \E q \in Process : Truncate(q) \/ Write(q)
    BY DEF Next, Steps, Start, Open, Lock, Refused, WriteFails, End, instanceVars
  <2> QED
    BY <2>2, <2>3, <2>4
<1>2. InstanceInv /\ [Next]_instanceVars =>
         [\A p \in Process :
               at[p] = "running" /\ at'[p] = "running" /\ file[exe[p]] = p
                   => file'[exe[p]] = p]_instanceVars
  BY <1>1
<1> QED
  BY <1>2, InstanceInvAlways, PTL DEF Spec, FileKeepsPid

(* Whoever is refused is refused for an instance that is past the lock at
   that moment, not for the remains of one. *)
THEOREM RefusalsAreFounded == Spec => RefusedForInstance
<1>1. ASSUME InstanceInv, [Next]_instanceVars, NEW p \in Process,
             at[p] = "locking", at'[p] = "refused"
      PROVE  \E q \in Process \ {p} : exe[q] = exe[p] /\ Entered(q)
  <2> USE <1>1 DEF InstanceInv, TypeOK, Goes
  <2>1. Refused(p)
    BY DEF Next, Steps, Start, Open, Lock, Refused, Truncate, Write, WriteFails, End, instanceVars
  <2>2. PICK q \in Process : holder[exe[p]] = q
    BY <2>1 DEF Refused
  <2>3. Entered(q) /\ exe[q] = exe[p]
    BY <2>2 DEF HolderEntered
  <2>4. q # p
    BY <2>3 DEF Entered
  <2> QED
    BY <2>3, <2>4
<1>2. InstanceInv /\ [Next]_instanceVars =>
         [\A p \in Process :
               at[p] = "locking" /\ at'[p] = "refused" =>
                   \E q \in Process \ {p} : exe[q] = exe[p] /\ Entered(q)]_instanceVars
  BY <1>1
<1> QED
  BY <1>2, InstanceInvAlways, PTL DEF Spec, RefusedForInstance

=============================================================================
