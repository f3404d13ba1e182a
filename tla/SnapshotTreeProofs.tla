------------------------- MODULE SnapshotTreeProofs -------------------------
(***************************************************************************)
(* The forest of snapshots stays a forest: for every set of names, labels  *)
(* and changes, no interleaving of Prepare, View, Commit, Remove, Update   *)
(* and writes leaves a snapshot below a missing or writable parent, or     *)
(* closes a cycle of parents.                                              *)
(***************************************************************************)
EXTENDS SnapshotTree, SnapshotOpsProofs

\* The domain half of TypeOK, which the proof of acyclicity needs: the empty
\* name is never the name of a snapshot.
NamesOK == DOMAIN snaps \subseteq Names

IInv == NamesOK /\ ParentsCommitted /\ Acyclic

LEMMA InitIInv == Init => IInv
  <1> SUFFICES ASSUME Init PROVE IInv
    OBVIOUS
  <1>1. DOMAIN snaps = {}
    BY DEF Init
  <1>2. QED
    BY <1>1 DEF IInv, NamesOK, ParentsCommitted, ParentsCommittedIn, Acyclic, AcyclicIn

LEMMA NextIInv == IInv /\ [Next]_snaps => IInv'
  <1> SUFFICES ASSUME IInv, [Next]_snaps PROVE IInv'
    OBVIOUS
  <1> USE DEF ParentsCommitted, Acyclic
  <1>0. /\ NamesOK
        /\ ParentsCommittedIn(snaps)
        /\ AcyclicIn(snaps)
        /\ NoParent \notin DOMAIN snaps
    BY NamesAssumption DEF IInv, NamesOK
  <1>1. ASSUME NEW n \in Names, NEW kind, NEW p, NEW label,
               Create(kind, n, p, label)
        PROVE  IInv'
    <2>1. CreateResult(snaps, n, p) = "ok" /\ snaps' = Created(snaps, kind, n, p, label)
      BY <1>1 DEF Create
    <2>2. n # NoParent
      BY NamesAssumption
    <2>3. ParentsCommittedIn(snaps')
      BY <1>0, <2>1, CreateKeepsParents
    <2>4. AcyclicIn(snaps')
      BY <1>0, <2>1, <2>2, CreateKeepsAcyclic
    <2>5. DOMAIN snaps' = DOMAIN snaps \cup {n}
      BY <2>1 DEF Created, Put
    <2>6. QED
      BY <1>0, <2>3, <2>4, <2>5 DEF IInv, NamesOK
  <1>2. ASSUME NEW n \in Names, NEW c \in Names, NEW label, Commit(n, c, label)
        PROVE  IInv'
    <2>1. CommitResult(snaps, n, c) = "ok" /\ snaps' = Committed(snaps, n, c, label)
      BY <1>2 DEF Commit
    <2>2. c # NoParent
      BY NamesAssumption
    <2>3. ParentsCommittedIn(snaps')
      BY <1>0, <2>1, CommitKeepsParents
    <2>4. AcyclicIn(snaps')
      BY <1>0, <2>1, <2>2, CommitKeepsAcyclic
    <2>5. DOMAIN snaps' = (DOMAIN snaps \ {n}) \cup {c}
      BY <2>1 DEF Committed, Put, Removed, Restrict
    <2>6. QED
      BY <1>0, <2>3, <2>4, <2>5 DEF IInv, NamesOK
  <1>3. ASSUME NEW n \in Names, Remove(n)
        PROVE  IInv'
    <2>1. RemoveResult(snaps, n) = "ok" /\ snaps' = Removed(snaps, n)
      BY <1>3 DEF Remove
    <2>2. ParentsCommittedIn(snaps') /\ AcyclicIn(snaps')
      BY <1>0, <2>1, RemoveKeepsParents, RemoveKeepsAcyclic
    <2>3. DOMAIN snaps' = DOMAIN snaps \ {n}
      BY <2>1, RemovedFacts
    <2>4. QED
      BY <1>0, <2>2, <2>3 DEF IInv, NamesOK
  <1>4. ASSUME SameShape(snaps, snaps')
        PROVE  IInv'
    <2>1. ParentsCommittedIn(snaps') /\ AcyclicIn(snaps')
      BY <1>0, <1>4, ShapeKeepsParents, ShapeKeepsAcyclic
    <2>2. QED
      BY <1>0, <1>4, <2>1 DEF IInv, NamesOK, SameShape
  <1>5. ASSUME NEW n, NEW d, Write(n, d)
        PROVE  IInv'
    BY <1>4, <1>5, WriteKeepsShape DEF Write
  <1>6. ASSUME NEW n, NEW label, Update(n, label)
        PROVE  IInv'
    BY <1>4, <1>6, RelabelKeepsShape DEF Update
  <1>7. CASE UNCHANGED snaps
    BY <1>4, <1>7 DEF SameShape
  <1>8. QED
    BY <1>1, <1>2, <1>3, <1>5, <1>6, <1>7 DEF Next

\* The parent of every snapshot exists and is committed.
THEOREM TreeParentsCommitted == Spec => []ParentsCommitted
  <1>1. IInv => ParentsCommitted
    BY DEF IInv
  <1>2. QED
    BY <1>1, InitIInv, NextIInv, PTL DEF Spec

\* The parent links never form a cycle.
THEOREM TreeAcyclic == Spec => []Acyclic
  <1>1. IInv => Acyclic
    BY DEF IInv
  <1>2. QED
    BY <1>1, InitIInv, NextIInv, PTL DEF Spec

-----------------------------------------------------------------------------
(* Types.                                                                  *)

\* TypeOK of a store value.
TypedIn(s) ==
    /\ DOMAIN s \subseteq Names
    /\ \A n \in DOMAIN s : s[n] \in Snapshot
    /\ s = [n \in DOMAIN s |-> s[n]]

LEMMA PutTyped ==
    ASSUME NEW s, NEW n \in Names, NEW r \in Snapshot, TypedIn(s)
    PROVE  TypedIn(Put(s, n, r))
  <1>1. /\ DOMAIN Put(s, n, r) = DOMAIN s \cup {n}
        /\ Put(s, n, r)[n] = r
        /\ \A m \in DOMAIN s \ {n} : Put(s, n, r)[m] = s[m]
    BY DEF Put
  <1>2. Put(s, n, r) = [m \in DOMAIN Put(s, n, r) |-> Put(s, n, r)[m]]
    BY DEF Put
  <1>3. QED
    BY <1>1, <1>2 DEF TypedIn

LEMMA RemovedTyped ==
    ASSUME NEW s, NEW n, TypedIn(s)
    PROVE  TypedIn(Removed(s, n))
  <1>1. /\ DOMAIN Removed(s, n) = DOMAIN s \ {n}
        /\ \A m \in DOMAIN s \ {n} : Removed(s, n)[m] = s[m]
    BY RemovedFacts
  <1>2. Removed(s, n) = [m \in DOMAIN Removed(s, n) |-> Removed(s, n)[m]]
    BY DEF Removed, Restrict
  <1>3. QED
    BY <1>1, <1>2 DEF TypedIn

\* An update of one record is a Put.
LEMMA ExceptTyped ==
    ASSUME NEW s, NEW n \in DOMAIN s, NEW r \in Snapshot, TypedIn(s)
    PROVE  TypedIn([s EXCEPT ![n] = r])
  BY DEF TypedIn

LEMMA NextTyped == TypeOK /\ [Next]_snaps => TypeOK'
  <1> SUFFICES ASSUME TypeOK, [Next]_snaps PROVE TypeOK'
    OBVIOUS
  <1>0. TypedIn(snaps) /\ (TypedIn(snaps') => TypeOK')
    BY DEF TypeOK, TypedIn
  <1>1. ASSUME NEW n \in Names, NEW kind \in {"active", "view"},
               NEW par \in Names \cup {NoParent}, NEW label \in Labels \cup {NoLabel},
               Create(kind, n, par, label)
        PROVE  TypedIn(snaps')
    <2>1. [kind |-> kind, parent |-> par, label |-> label, diff |-> {}] \in Snapshot
      BY DEF Snapshot, Kinds
    <2>2. QED
      BY <1>0, <1>1, <2>1, PutTyped DEF Create, Created
  <1>2. ASSUME NEW n \in Names, NEW c \in Names, NEW label \in Labels \cup {NoLabel},
               Commit(n, c, label)
        PROVE  TypedIn(snaps')
    <2>1. snaps[n] \in Snapshot
      BY <1>0, <1>2 DEF Commit, CommitResult, TypedIn
    <2>2. [snaps[n] EXCEPT !.kind = "committed", !.label = label] \in Snapshot
      BY <2>1 DEF Snapshot, Kinds
    <2>3. QED
      BY <1>0, <1>2, <2>2, PutTyped, RemovedTyped DEF Commit, Committed
  <1>3. ASSUME NEW n \in Names, Remove(n)
        PROVE  TypedIn(snaps')
    BY <1>0, <1>3, RemovedTyped DEF Remove
  <1>4. ASSUME NEW n \in Names, NEW d \in SUBSET Changes, Write(n, d)
        PROVE  TypedIn(snaps')
    <2>1. n \in DOMAIN snaps /\ snaps' = [snaps EXCEPT ![n] = [snaps[n] EXCEPT !.diff = snaps[n].diff \cup d]]
      BY <1>4 DEF Write, Written
    <2>2. [snaps[n] EXCEPT !.diff = snaps[n].diff \cup d] \in Snapshot
      BY <1>0, <2>1 DEF TypedIn, Snapshot
    <2>3. QED
      BY <1>0, <2>1, <2>2, ExceptTyped
  <1>5. ASSUME NEW n \in Names, NEW label \in Labels \cup {NoLabel}, Update(n, label)
        PROVE  TypedIn(snaps')
    <2>1. n \in DOMAIN snaps /\ snaps' = [snaps EXCEPT ![n] = [snaps[n] EXCEPT !.label = label]]
      BY <1>5 DEF Update, Relabelled
    <2>2. [snaps[n] EXCEPT !.label = label] \in Snapshot
      BY <1>0, <2>1 DEF TypedIn, Snapshot
    <2>3. QED
      BY <1>0, <2>1, <2>2, ExceptTyped
  <1>6. CASE UNCHANGED snaps
    BY <1>0, <1>6
  <1>7. QED
    BY <1>0, <1>1, <1>2, <1>3, <1>4, <1>5, <1>6 DEF Next

\* The store is a function from names to well-formed snapshots, so that no
\* transaction meets a record with a field missing.
THEOREM TreeTypeOK == Spec => []TypeOK
  <1>1. Init => TypeOK
    <2>1. Init => DOMAIN snaps = {} /\ snaps = [n \in DOMAIN snaps |-> snaps[n]]
      BY DEF Init
    <2>2. QED
      BY <2>1 DEF TypeOK
  <1>2. QED
    BY <1>1, NextTyped, PTL DEF Spec

-----------------------------------------------------------------------------
(* What a step may never do.                                               *)

\* The snapshot m survives the step from s to t with parent and, once it is
\* committed, with everything but its labels.
KeptIn(s, t, m) ==
    /\ t[m].parent = s[m].parent
    /\ IsCommitted(s, m) => t[m] = [s[m] EXCEPT !.label = t[m].label]

\* m stays in place if its record does not change.
LEMMA SameKept ==
    ASSUME NEW s, NEW t, NEW m \in DOMAIN s, s[m] \in Snapshot, t[m] = s[m]
    PROVE  KeptIn(s, t, m)
  BY DEF KeptIn, Snapshot

\* No transaction touches a snapshot other than the ones it is given, and
\* none of them touches a committed one but for its labels.
LEMMA NextKeeps ==
    ASSUME TypeOK, [Next]_snaps, NEW m \in DOMAIN snaps \cap DOMAIN snaps'
    PROVE  KeptIn(snaps, snaps', m)
  <1>0. snaps[m] \in Snapshot
    BY DEF TypeOK
  <1>1. ASSUME NEW n, NEW kind, NEW par, NEW label, Create(kind, n, par, label)
        PROVE  snaps'[m] = snaps[m]
    <2>1. n \notin DOMAIN snaps
      BY <1>1 DEF Create, CreateResult
    <2>2. QED
      BY <1>1, <2>1 DEF Create, Created, Put
  <1>2. ASSUME NEW n, NEW c, NEW label, Commit(n, c, label)
        PROVE  snaps'[m] = snaps[m]
    <2>1. n \in DOMAIN snaps /\ c \notin DOMAIN snaps
      BY <1>2 DEF Commit, CommitResult
    <2>2. /\ DOMAIN snaps' = (DOMAIN snaps \ {n}) \cup {c}
          /\ \A o \in DOMAIN snaps \ {n} : snaps'[o] = snaps[o]
      BY <1>2, <2>1 DEF Commit, Committed, Put, Removed, Restrict
    <2>3. QED
      BY <2>1, <2>2
  <1>3. ASSUME NEW n, Remove(n)
        PROVE  snaps'[m] = snaps[m]
    BY <1>3, RemovedFacts DEF Remove
  <1>4. ASSUME NEW n, NEW d, Write(n, d)
        PROVE  KeptIn(snaps, snaps', m)
    <2>1. snaps' = [snaps EXCEPT ![n] = [snaps[n] EXCEPT !.diff = snaps[n].diff \cup d]]
      BY <1>4 DEF Write, Written
    <2>2. CASE m = n
      <3>1. ~ IsCommitted(snaps, m)
        BY <1>4, <2>2 DEF Write, IsCommitted
      <3>2. snaps'[m] = [snaps[m] EXCEPT !.diff = snaps[m].diff \cup d]
        BY <2>1, <2>2
      <3>3. QED
        BY <1>0, <3>1, <3>2 DEF KeptIn, Snapshot
    <2>3. CASE m # n
      BY <1>0, <2>1, <2>3, SameKept
    <2>4. QED
      BY <2>2, <2>3
  <1>5. ASSUME NEW n, NEW label, Update(n, label)
        PROVE  KeptIn(snaps, snaps', m)
    <2>1. snaps' = [snaps EXCEPT ![n] = [snaps[n] EXCEPT !.label = label]]
      BY <1>5 DEF Update, Relabelled
    <2>2. CASE m = n
      <3>1. snaps'[m] = [snaps[m] EXCEPT !.label = label]
        BY <2>1, <2>2
      <3>2. snaps'[m].label = label
        BY <1>0, <3>1 DEF Snapshot
      <3>3. QED
        BY <1>0, <3>1, <3>2 DEF KeptIn, Snapshot
    <2>3. CASE m # n
      BY <1>0, <2>1, <2>3, SameKept
    <2>4. QED
      BY <2>2, <2>3
  <1>6. CASE UNCHANGED snaps
    BY <1>0, <1>6, SameKept
  <1>7. ASSUME snaps'[m] = snaps[m]
        PROVE  KeptIn(snaps, snaps', m)
    BY <1>0, <1>7, SameKept
  <1>8. QED
    BY <1>1, <1>2, <1>3, <1>4, <1>5, <1>6, <1>7 DEF Next

\* A parent goes in no step in which one of its children stays.
LEMMA NextKeepsParent ==
    ASSUME ParentsCommitted, [Next]_snaps,
           NEW m \in DOMAIN snaps \cap DOMAIN snaps', snaps[m].parent # NoParent
    PROVE  snaps[m].parent \in DOMAIN snaps'
  <1> DEFINE up == snaps[m].parent
  <1>0. IsCommitted(snaps, up)
    BY DEF ParentsCommitted, ParentsCommittedIn
  <1>1. ASSUME NEW n, NEW kind, NEW par, NEW label, Create(kind, n, par, label)
        PROVE  up \in DOMAIN snaps'
    BY <1>0, <1>1 DEF Create, Created, Put, IsCommitted
  <1>2. ASSUME NEW n, NEW c, NEW label, Commit(n, c, label)
        PROVE  up \in DOMAIN snaps'
    <2>1. snaps[n].kind = "active"
      BY <1>2 DEF Commit, CommitResult
    <2>2. DOMAIN snaps' = (DOMAIN snaps \ {n}) \cup {c}
      BY <1>2 DEF Commit, Committed, Put, Removed, Restrict
    <2>3. QED
      BY <1>0, <2>1, <2>2 DEF IsCommitted
  <1>3. ASSUME NEW n, Remove(n)
        PROVE  up \in DOMAIN snaps'
    <2>1. up # n
      BY <1>3 DEF Remove, RemoveResult, HasChild
    <2>2. DOMAIN snaps' = DOMAIN snaps \ {n}
      BY <1>3, RemovedFacts DEF Remove
    <2>3. QED
      BY <1>0, <2>1, <2>2 DEF IsCommitted
  <1>4. ASSUME DOMAIN snaps' = DOMAIN snaps
        PROVE  up \in DOMAIN snaps'
    BY <1>0, <1>4 DEF IsCommitted
  <1>5. ASSUME NEW n, NEW d, Write(n, d)
        PROVE  up \in DOMAIN snaps'
    BY <1>4, <1>5 DEF Write, Written
  <1>6. ASSUME NEW n, NEW label, Update(n, label)
        PROVE  up \in DOMAIN snaps'
    BY <1>4, <1>6 DEF Update, Relabelled
  <1>7. CASE UNCHANGED snaps
    BY <1>4, <1>7
  <1>8. QED
    BY <1>1, <1>2, <1>3, <1>5, <1>6, <1>7 DEF Next

\* Whatever the others do, a committed snapshot keeps its contents for as
\* long as its name exists: layers extracted once can be shared.
THEOREM TreeCommittedImmutable == Spec => CommittedImmutable
  <1> DEFINE A == \A n \in DOMAIN snaps \cap DOMAIN snaps' :
                     IsCommitted(snaps, n) =>
                         snaps'[n] = [snaps[n] EXCEPT !.label = snaps'[n].label]
  <1>1. TypeOK /\ [Next]_snaps => [A]_snaps
    BY NextKeeps DEF KeptIn
  <1>2. QED
    BY <1>1, TreeTypeOK, PTL DEF Spec, CommittedImmutable

\* A snapshot keeps its ancestry, and the contents of it, for as long as it
\* exists: what an overlay mount is stacked on does not change below it.
THEOREM TreeAncestorsKept == Spec => AncestorsKept
  <1> DEFINE A == \A n \in DOMAIN snaps \cap DOMAIN snaps' :
                     LET p == snaps[n].parent
                     IN  /\ snaps'[n].parent = p
                         /\ p # NoParent => /\ p \in DOMAIN snaps'
                                            /\ snaps'[p].diff = snaps[p].diff
  <1>1. ASSUME TypeOK, ParentsCommitted, [Next]_snaps,
               NEW n \in DOMAIN snaps \cap DOMAIN snaps'
        PROVE  /\ snaps'[n].parent = snaps[n].parent
               /\ snaps[n].parent # NoParent =>
                     /\ snaps[n].parent \in DOMAIN snaps'
                     /\ snaps'[snaps[n].parent].diff = snaps[snaps[n].parent].diff
    <2>1. snaps'[n].parent = snaps[n].parent
      BY <1>1, NextKeeps DEF KeptIn
    <2>2. ASSUME NEW up, up = snaps[n].parent, up # NoParent
          PROVE  up \in DOMAIN snaps' /\ snaps'[up].diff = snaps[up].diff
      <3>1. IsCommitted(snaps, up) /\ up \in DOMAIN snaps
        BY <1>1, <2>2 DEF ParentsCommitted, ParentsCommittedIn, IsCommitted
      <3>2. up \in DOMAIN snaps'
        BY <1>1, <2>2, NextKeepsParent
      <3>3. snaps'[up] = [snaps[up] EXCEPT !.label = snaps'[up].label]
        BY <1>1, <3>1, <3>2, NextKeeps DEF KeptIn
      <3>4. snaps[up] \in Snapshot
        BY <1>1, <3>1 DEF TypeOK
      <3>5. QED
        BY <3>2, <3>3, <3>4 DEF Snapshot
    <2>3. QED
      BY <2>1, <2>2
  <1>2. TypeOK /\ ParentsCommitted /\ [Next]_snaps => [A]_snaps
    BY <1>1
  <1>3. QED
    BY <1>2, TreeTypeOK, TreeParentsCommitted, PTL DEF Spec, AncestorsKept
=============================================================================
