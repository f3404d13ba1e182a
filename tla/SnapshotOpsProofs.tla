------------------------- MODULE SnapshotOpsProofs -------------------------
(***************************************************************************)
(* Lemmas about the transactions of the snapshotter: each one that         *)
(* succeeds preserves the promises of SnapshotOps, for every store value   *)
(* that satisfies them and every set of names.                             *)
(***************************************************************************)
EXTENDS SnapshotOps, TLAPS

\* Removing a name: the resulting function.
LEMMA RemovedFacts ==
    ASSUME NEW s, NEW n
    PROVE  /\ DOMAIN Removed(s, n) = DOMAIN s \ {n}
           /\ \A m \in DOMAIN s \ {n} : Removed(s, n)[m] = s[m]
  BY DEF Removed, Restrict

-----------------------------------------------------------------------------
(* Prepare and View.                                                       *)

\* A Prepare or View that succeeds hangs the new snapshot below a committed
\* parent and takes no parent away (bolt.go CreateSnapshot).
LEMMA CreateKeepsParents ==
    ASSUME NEW s, NEW kind, NEW n, NEW p, NEW label,
           ParentsCommittedIn(s), CreateResult(s, n, p) = "ok"
    PROVE  ParentsCommittedIn(Created(s, kind, n, p, label))
  <1> DEFINE r == [kind |-> kind, parent |-> p, label |-> label, diff |-> {}]
             t == Put(s, n, r)
  <1>1. /\ DOMAIN t = DOMAIN s \cup {n}
        /\ t[n] = r
        /\ \A m \in DOMAIN s \ {n} : t[m] = s[m]
    BY DEF Put
  <1>2. n \notin DOMAIN s /\ (p # NoParent => IsCommitted(s, p))
    BY DEF CreateResult, IsCommitted
  <1>3. r.parent = p
    OBVIOUS
  <1> HIDE DEF r, t
  <1>4. ASSUME NEW m \in DOMAIN t, t[m].parent # NoParent
        PROVE  IsCommitted(t, t[m].parent)
    <2>1. CASE m = n
      BY <1>1, <1>2, <1>3, <1>4, <2>1 DEF IsCommitted
    <2>2. CASE m # n
      <3>1. m \in DOMAIN s /\ t[m] = s[m]
        BY <1>1, <2>2
      <3>2. IsCommitted(s, s[m].parent)
        BY <1>4, <3>1 DEF ParentsCommittedIn
      <3>3. QED
        BY <1>1, <1>2, <3>1, <3>2 DEF IsCommitted
    <2>3. QED
      BY <2>1, <2>2
  <1>5. QED
    BY <1>4 DEF ParentsCommittedIn, Created, r, t

\* The new snapshot has no child and its parent is older: no cycle.
LEMMA CreateKeepsAcyclic ==
    ASSUME NEW s, NEW kind, NEW n, NEW p, NEW label,
           NoParent \notin DOMAIN s, n # NoParent,
           ParentsCommittedIn(s), AcyclicIn(s), CreateResult(s, n, p) = "ok"
    PROVE  AcyclicIn(Created(s, kind, n, p, label))
  <1> DEFINE r == [kind |-> kind, parent |-> p, label |-> label, diff |-> {}]
             t == Put(s, n, r)
  <1>1. /\ DOMAIN t = DOMAIN s \cup {n}
        /\ t[n] = r
        /\ \A m \in DOMAIN s \ {n} : t[m] = s[m]
    BY DEF Put
  <1>2. /\ n \notin DOMAIN s
        /\ p = NoParent \/ p \in DOMAIN s
    BY DEF CreateResult
  <1>3. r.parent = p
    OBVIOUS
  <1> HIDE DEF r, t
  <1>4. ASSUME NEW S \in SUBSET DOMAIN t, S # {}
        PROVE  \E m \in S : t[m].parent \notin S
    <2>1. CASE S = {n}
      BY <1>1, <1>2, <1>3, <2>1
    <2>2. CASE S # {n}
      <3>1. S \ {n} \in SUBSET DOMAIN s /\ S \ {n} # {}
        BY <1>1, <1>4, <2>2
      <3>2. PICK m \in S \ {n} : s[m].parent \notin S \ {n}
        BY <3>1 DEF AcyclicIn
      <3>3. s[m].parent # n
        BY <1>2, <3>1, <3>2 DEF ParentsCommittedIn, IsCommitted
      <3>4. QED
        BY <1>1, <3>1, <3>2, <3>3
    <2>3. QED
      BY <2>1, <2>2
  <1>5. QED
    BY <1>4 DEF AcyclicIn, Created, r, t

-----------------------------------------------------------------------------
(* Remove.                                                                 *)

\* Only leaves are removed, so nobody loses its parent (bolt.go Remove).
LEMMA RemoveKeepsParents ==
    ASSUME NEW s, NEW n,
           ParentsCommittedIn(s), RemoveResult(s, n) = "ok"
    PROVE  ParentsCommittedIn(Removed(s, n))
  <1>1. /\ DOMAIN Removed(s, n) = DOMAIN s \ {n}
        /\ \A m \in DOMAIN s \ {n} : Removed(s, n)[m] = s[m]
    BY RemovedFacts
  <1>2. \A m \in DOMAIN s : s[m].parent # n
    BY DEF RemoveResult, HasChild
  <1>3. QED
    BY <1>1, <1>2 DEF ParentsCommittedIn, IsCommitted

LEMMA RemoveKeepsAcyclic ==
    ASSUME NEW s, NEW n, AcyclicIn(s)
    PROVE  AcyclicIn(Removed(s, n))
  <1>1. /\ DOMAIN Removed(s, n) = DOMAIN s \ {n}
        /\ \A m \in DOMAIN s \ {n} : Removed(s, n)[m] = s[m]
    BY RemovedFacts
  <1>2. ASSUME NEW S \in SUBSET (DOMAIN s \ {n}), S # {}
        PROVE  \E m \in S : Removed(s, n)[m].parent \notin S
    <2>1. PICK m \in S : s[m].parent \notin S
      BY <1>2 DEF AcyclicIn
    <2>2. QED
      BY <1>1, <2>1
  <1>3. QED
    BY <1>1, <1>2 DEF AcyclicIn

-----------------------------------------------------------------------------
(* Commit.                                                                 *)

\* The renamed snapshot had no child, because it was not committed, and
\* keeps its own parent (bolt.go CommitActive).
LEMMA CommitKeepsParents ==
    ASSUME NEW s, NEW n, NEW c, NEW label,
           ParentsCommittedIn(s), CommitResult(s, n, c) = "ok"
    PROVE  ParentsCommittedIn(Committed(s, n, c, label))
  <1> DEFINE r == [s[n] EXCEPT !.kind = "committed", !.label = label]
             t == Committed(s, n, c, label)
  <1>1. /\ n \in DOMAIN s
        /\ c \notin DOMAIN s
        /\ s[n].kind = "active"
    BY DEF CommitResult
  <1>2. /\ DOMAIN t = (DOMAIN s \ {n}) \cup {c}
        /\ t[c] = r
        /\ \A m \in DOMAIN s \ {n} : t[m] = s[m]
    BY <1>1 DEF Committed, Put, Removed, Restrict
  <1>3. \A m \in DOMAIN s : s[m].parent # NoParent => s[m].parent # n
    BY <1>1 DEF ParentsCommittedIn, IsCommitted
  <1>4. r.parent = s[n].parent
    OBVIOUS
  <1> HIDE DEF r, t
  <1>5. ASSUME NEW m \in DOMAIN t, t[m].parent # NoParent
        PROVE  IsCommitted(t, t[m].parent)
    <2>1. PICK o \in DOMAIN s : t[m].parent = s[o].parent
      BY <1>1, <1>2, <1>4
    <2>2. IsCommitted(s, s[o].parent) /\ s[o].parent # n
      BY <1>3, <1>5, <2>1 DEF ParentsCommittedIn
    <2>3. QED
      BY <1>1, <1>2, <2>1, <2>2 DEF IsCommitted
  <1>6. QED
    BY <1>5 DEF ParentsCommittedIn, t

LEMMA CommitKeepsAcyclic ==
    ASSUME NEW s, NEW n, NEW c, NEW label,
           NoParent \notin DOMAIN s, c # NoParent,
           ParentsCommittedIn(s), AcyclicIn(s), CommitResult(s, n, c) = "ok"
    PROVE  AcyclicIn(Committed(s, n, c, label))
  <1> DEFINE r == [s[n] EXCEPT !.kind = "committed", !.label = label]
             t == Committed(s, n, c, label)
  <1>1. /\ n \in DOMAIN s
        /\ c \notin DOMAIN s
        /\ s[n].kind = "active"
    BY DEF CommitResult
  <1>2. /\ DOMAIN t = (DOMAIN s \ {n}) \cup {c}
        /\ t[c] = r
        /\ \A m \in DOMAIN s \ {n} : t[m] = s[m]
    BY <1>1 DEF Committed, Put, Removed, Restrict
  <1>3. \A m \in DOMAIN s : s[m].parent # c
    BY <1>1 DEF ParentsCommittedIn, IsCommitted
  <1>4. r.parent = s[n].parent
    OBVIOUS
  <1> HIDE DEF r, t
  <1>5. ASSUME NEW S \in SUBSET DOMAIN t, S # {}
        PROVE  \E m \in S : t[m].parent \notin S
    <2>1. CASE S = {c}
      BY <1>1, <1>2, <1>3, <1>4, <2>1
    <2>2. CASE S # {c}
      <3>1. S \ {c} \in SUBSET (DOMAIN s \ {n}) /\ S \ {c} # {}
        BY <1>2, <1>5, <2>2
      <3>2. PICK m \in S \ {c} : s[m].parent \notin S \ {c}
        BY <3>1 DEF AcyclicIn
      <3>3. QED
        BY <1>2, <1>3, <3>1, <3>2
    <2>3. QED
      BY <2>1, <2>2
  <1>6. QED
    BY <1>5 DEF AcyclicIn, t

-----------------------------------------------------------------------------
(* Steps that leave kinds, parents and names alone: writes through mounts  *)
(* and label updates.                                                      *)

\* The part of a store value the promises are about.
SameShape(s, t) ==
    /\ DOMAIN t = DOMAIN s
    /\ \A m \in DOMAIN s : t[m].kind = s[m].kind /\ t[m].parent = s[m].parent

LEMMA ShapeKeepsParents ==
    ASSUME NEW s, NEW t, SameShape(s, t), ParentsCommittedIn(s)
    PROVE  ParentsCommittedIn(t)
  BY DEF SameShape, ParentsCommittedIn, IsCommitted

LEMMA ShapeKeepsAcyclic ==
    ASSUME NEW s, NEW t, SameShape(s, t), AcyclicIn(s)
    PROVE  AcyclicIn(t)
  BY DEF SameShape, AcyclicIn

LEMMA WriteKeepsShape ==
    ASSUME NEW s, NEW n, NEW d
    PROVE  SameShape(s, Written(s, n, d))
  BY DEF SameShape, Written

LEMMA RelabelKeepsShape ==
    ASSUME NEW s, NEW n, NEW label
    PROVE  SameShape(s, Relabelled(s, n, label))
  BY DEF SameShape, Relabelled
=============================================================================
