--------------------------- MODULE StoreLockProofs ---------------------------
(***************************************************************************)
(* One instance of the store at a time gets beyond Init, and those that    *)
(* have locks never wait for each other, for any number of instances and   *)
(* processes, with failures of Init and crashes.                           *)
(*                                                                         *)
(* The strengthening says whose the locks are: an instance between Init    *)
(* and the end of its process has metadata.db, which is why there is one   *)
(* at a time; and the snapshotter's database belongs to nobody, or to an   *)
(* instance that is past the point where it wanted it.                     *)
(***************************************************************************)
EXTENDS StoreLock, TLAPS

\* Init has opened metadata.db, and not failed since.
Opened(i) == \E l \in {"db_init", "ready", "working", "done", "closed"} : At(i, l)

MetaHeld == \A i \in Instances : Opened(i) => metaLock = i

SnapHeld == snapLock # NoOne => At(snapLock, "working") \/ At(snapLock, "done")

IInv == TypeOK /\ MetaHeld /\ SnapHeld

-----------------------------------------------------------------------------

\* Every step of an instance leaves the others where they are.
LEMMA StepTypeOK ==
    ASSUME TypeOK, NEW i \in Instances, Step(i) \/ CollectFailed(i)
    PROVE  TypeOK'
  BY OwnerAssumption DEF TypeOK, Step, InitStart, OpenMeta, InitDatabase, OpenSnapshots,
     CallReturns, Finalize, CollectFailed, At, Goto

LEMMA EndTypeOK ==
    ASSUME TypeOK, NEW p \in Processes, EndOf(p)
    PROVE  TypeOK'
  BY OwnerAssumption DEF TypeOK, EndOf

LEMMA StepKeeps ==
    ASSUME IInv, NEW i \in Instances, Step(i) \/ CollectFailed(i)
    PROVE  IInv'
  <1>1. TypeOK'
    BY StepTypeOK DEF IInv
  <1>2. MetaHeld'
    BY OwnerAssumption DEF IInv, MetaHeld, Opened, TypeOK, Step, InitStart, OpenMeta,
       InitDatabase, OpenSnapshots, CallReturns, Finalize, CollectFailed, At, Goto
  <1>3. SnapHeld'
    BY OwnerAssumption DEF IInv, MetaHeld, SnapHeld, Opened, TypeOK, Step, InitStart, OpenMeta,
       InitDatabase, OpenSnapshots, CallReturns, Finalize, CollectFailed, At, Goto
  <1>4. QED
    BY <1>1, <1>2, <1>3 DEF IInv

LEMMA EndKeeps ==
    ASSUME IInv, NEW p \in Processes, EndOf(p)
    PROVE  IInv'
  <1>1. TypeOK'
    BY EndTypeOK DEF IInv
  <1>2. MetaHeld'
    BY OwnerAssumption DEF IInv, MetaHeld, Opened, TypeOK, EndOf, At
  <1>3. SnapHeld'
    BY OwnerAssumption DEF IInv, SnapHeld, TypeOK, EndOf, At
  <1>4. QED
    BY <1>1, <1>2, <1>3 DEF IInv

LEMMA Invariant == Spec => []IInv
  <1>1. Init => IInv
    BY OwnerAssumption DEF Init, IInv, TypeOK, MetaHeld, SnapHeld, Opened, At
  <1>2. ASSUME IInv, [Next]_vars
        PROVE  IInv'
    <2>1. CASE UNCHANGED vars
      BY <1>2, <2>1 DEF vars, IInv, TypeOK, MetaHeld, SnapHeld, Opened, At
    <2>2. QED
      BY <1>2, <2>1, StepKeeps, EndKeeps DEF Next, Exit, Crash
  <1>3. QED
    BY <1>1, <1>2, PTL DEF Spec

-----------------------------------------------------------------------------

\* The types, and that the lock of a file goes with the process that has it
\* open: no lock is ever that of a process that has ended (bolt's flock).
THEOREM LockTypeOK == Spec => []TypeOK
  <1>1. IInv => TypeOK
    BY DEF IInv
  <1>2. QED
    BY <1>1, Invariant, PTL

\* At most one instance is past bolt.Open of metadata.db and has not ended or
\* failed, whoever calls Init, fails in it, or crashes (ociStore.go Init).
THEOREM LockOneUser == Spec => []OneUser
  <1>1. IInv => OneUser
    BY DEF IInv, OneUser, MetaHeld, Opened
  <1>2. QED
    BY <1>1, Invariant, PTL

\* Who wants the snapshotter's database never finds it locked by another one:
\* waiting for one of the two databases with the other one locked is waiting
\* for nobody, so that the two locks cannot make a deadlock.
THEOREM LockNoCycle == Spec => []NoLockCycle
  <1>1. IInv => NoLockCycle
    BY OwnerAssumption DEF IInv, NoLockCycle, TypeOK, MetaHeld, SnapHeld, Opened, At
  <1>2. QED
    BY <1>1, Invariant, PTL
=============================================================================
