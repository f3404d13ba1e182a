---------------------------- MODULE SnapshotTree ----------------------------
(***************************************************************************)
(* What the overlay snapshotter promises its callers: a forest of named    *)
(* snapshots that grows by Prepare and View on committed parents, where    *)
(* only active snapshots are written, Commit freezes and renames, and      *)
(* Remove takes leaves only.  A call that fails changes nothing, so only   *)
(* the successful transactions are steps.                                  *)
(***************************************************************************)
EXTENDS SnapshotOps

CONSTANTS Names,      \* snapshot keys and committed names
          Labels,     \* image references a label may record
          NoLabel,    \* no reference recorded
          Changes     \* file changes an upper directory may hold

ASSUME NamesAssumption == NoParent \notin Names

VARIABLE snaps

Snapshot == [kind   : Kinds,
             parent : Names \cup {NoParent},
             label  : Labels \cup {NoLabel},
             diff   : SUBSET Changes]

Init == snaps = << >>

Create(kind, n, p, label) ==
    /\ CreateResult(snaps, n, p) = "ok"
    /\ snaps' = Created(snaps, kind, n, p, label)

Commit(n, c, label) ==
    /\ CommitResult(snaps, n, c) = "ok"
    /\ snaps' = Committed(snaps, n, c, label)

Remove(n) ==
    /\ RemoveResult(snaps, n) = "ok"
    /\ snaps' = Removed(snaps, n)

\* A faulty Write, through a mount of any kind of snapshot.
WriteAnywhere(n, d) ==
    /\ n \in DOMAIN snaps
    /\ snaps' = Written(snaps, n, d)

\* The caller writes through the mounts of an active snapshot.
Write(n, d) ==
    /\ n \in DOMAIN snaps
    /\ snaps[n].kind = "active"
    /\ snaps' = Written(snaps, n, d)

Update(n, label) ==
    /\ n \in DOMAIN snaps
    /\ snaps' = Relabelled(snaps, n, label)

Next ==
    \E n \in Names :
        \/ \E kind \in {"active", "view"}, p \in Names \cup {NoParent},
              label \in Labels \cup {NoLabel} : Create(kind, n, p, label)
        \/ \E c \in Names, label \in Labels \cup {NoLabel} : Commit(n, c, label)
        \/ Remove(n)
        \/ \E d \in SUBSET Changes : Write(n, d)
        \/ \E label \in Labels \cup {NoLabel} : Update(n, label)

Spec == Init /\ [][Next]_snaps

-----------------------------------------------------------------------------

\* Every record of the store is a snapshot and every name a legal one.
TypeOK == /\ DOMAIN snaps \subseteq Names
          /\ \A n \in DOMAIN snaps : snaps[n] \in Snapshot
          /\ snaps = [n \in DOMAIN snaps |-> snaps[n]]

\* No snapshot ever hangs below a missing or a writable one, whatever the
\* order of Prepare, View, Commit and Remove (bolt.go CreateSnapshot, Remove).
ParentsCommitted == ParentsCommittedIn(snaps)

\* The parent links never form a cycle, renames by Commit included.
Acyclic == AcyclicIn(snaps)

\* "The resulting snapshot will be committed and readonly": as long as its
\* name exists, a committed snapshot keeps kind, parent and contents.
CommittedImmutable ==
    [][\A n \in DOMAIN snaps \cap DOMAIN snaps' :
          IsCommitted(snaps, n) =>
              snaps'[n] = [snaps[n] EXCEPT !.label = snaps'[n].label]]_snaps

\* Ancestry is fixed for good: a snapshot that survives a step keeps its
\* parent, and the parent keeps its name and contents as long as it has a child.
AncestorsKept ==
    [][\A n \in DOMAIN snaps \cap DOMAIN snaps' :
          LET p == snaps[n].parent
          IN  /\ snaps'[n].parent = p
              /\ p # NoParent => /\ p \in DOMAIN snaps'
                                 /\ snaps'[p].diff = snaps[p].diff]_snaps
=============================================================================
