---------------------------- MODULE SnapshotOps ----------------------------
(***************************************************************************)
(* The snapshotter as pure operators on a store value s: a function from   *)
(* the names that exist to their snapshots.  Each operator is one write    *)
(* transaction of the overlay snapshotter's metadata database              *)
(* (core/snapshots/storage/bolt.go): a "result" operator gives the error   *)
(* the transaction ends with, in the order in which the code tests for it, *)
(* and a "state" operator the store after a transaction that succeeds.     *)
(*                                                                         *)
(* A snapshot keeps its kind, the name of its parent, the image reference  *)
(* its creator recorded in its labels, and the changes its upper directory *)
(* holds with respect to the parent.                                       *)
(***************************************************************************)
EXTENDS Functions

CONSTANT NoParent   \* the empty parent name

Kinds == {"active", "view", "committed"}

\* The store s with record r under the name n.
Put(s, n, r) == [m \in DOMAIN s \cup {n} |-> IF m = n THEN r ELSE s[m]]

HasChild(s, n) == \E m \in DOMAIN s : s[m].parent = n

IsCommitted(s, n) == n \in DOMAIN s /\ s[n].kind = "committed"

(***************************************************************************)
(* Prepare and View: the parent is looked up before the key.               *)
(***************************************************************************)
\* A faulty CreateResult, which would overwrite an existing key.
CreateResultNoExists(s, n, p) ==
    IF p # NoParent /\ p \notin DOMAIN s THEN "not_found"
    ELSE IF p # NoParent /\ s[p].kind # "committed" THEN "invalid"
    ELSE "ok"

CreateResult(s, n, p) ==
    IF p # NoParent /\ p \notin DOMAIN s THEN "not_found"
    ELSE IF p # NoParent /\ s[p].kind # "committed" THEN "invalid"
    ELSE IF n \in DOMAIN s THEN "exists"
    ELSE "ok"

\* A faulty Created, which drops the labels.
CreatedUnlabelled(s, kind, n, p, label) ==
    Put(s, n, [kind |-> kind, parent |-> p, diff |-> {}])

Created(s, kind, n, p, label) ==
    Put(s, n, [kind |-> kind, parent |-> p, label |-> label, diff |-> {}])

(***************************************************************************)
(* Mounts: only active and view snapshots have mounts.                     *)
(***************************************************************************)
MountsResult(s, n) ==
    IF n \notin DOMAIN s THEN "not_found"
    ELSE IF s[n].kind = "committed" THEN "failed_precondition"
    ELSE "ok"

(***************************************************************************)
(* Remove: a snapshot with a child stays.                                  *)
(***************************************************************************)
\* A faulty RemoveResult, which does not look for children.
RemoveResultNoChildren(s, n) == IF n \notin DOMAIN s THEN "not_found" ELSE "ok"

RemoveResult(s, n) ==
    IF n \notin DOMAIN s THEN "not_found"
    ELSE IF HasChild(s, n) THEN "failed_precondition"
    ELSE "ok"

Removed(s, n) == Restrict(s, DOMAIN s \ {n})

(***************************************************************************)
(* Commit: renames the active snapshot n to c.  The record keeps parent    *)
(* and contents; the labels are replaced, not inherited.                   *)
(***************************************************************************)
\* A faulty CommitResult, which would overwrite an existing name.
CommitResultNoExists(s, n, c) ==
    IF n \notin DOMAIN s THEN "not_found"
    ELSE IF s[n].kind # "active" THEN "failed_precondition"
    ELSE "ok"

\* The snapshotter looks the key up (GetInfo) before CommitActive creates the
\* bucket of the name, and only then reads the kind of the key.
CommitResult(s, n, c) ==
    IF n \notin DOMAIN s THEN "not_found"
    ELSE IF c \in DOMAIN s THEN "exists"
    ELSE IF s[n].kind # "active" THEN "failed_precondition"
    ELSE "ok"

Committed(s, n, c, label) ==
    Put(Removed(s, n), c, [s[n] EXCEPT !.kind = "committed", !.label = label])

\* The upper directory of n receives the changes d.
Written(s, n, d) == [s EXCEPT ![n].diff = @ \cup d]

\* Update of the labels (UpdateInfo with no field path).
Relabelled(s, n, label) == [s EXCEPT ![n].label = label]

(***************************************************************************)
(* What the snapshotter promises of a store value.                         *)
(***************************************************************************)

\* The parent of every snapshot exists and is committed, so that the
\* directories an overlay mount stacks are there and no longer change.
ParentsCommittedIn(s) ==
    \A n \in DOMAIN s : s[n].parent # NoParent => IsCommitted(s, s[n].parent)

\* Following parents ends: every non-empty set of snapshots has a member
\* whose parent is outside the set (bolt.go's parents() loops otherwise).
AcyclicIn(s) ==
    \A S \in SUBSET DOMAIN s : S # {} => \E n \in S : s[n].parent \notin S
=============================================================================
