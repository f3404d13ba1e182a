------------------------ MODULE OverlaySnapshotter ------------------------
(***************************************************************************)
(* The overlay snapshotter on its two stores: the records in the database  *)
(* (core/snapshots/storage) and one directory per snapshot, named by a     *)
(* number the database gives out (plugins/snapshots/overlay/overlay.go).   *)
(*                                                                         *)
(* A write transaction excludes every other one; files are changed inside  *)
(* and outside of it, and stay changed when it is rolled back.  A          *)
(* transaction that touches one store only is a single step.               *)
(***************************************************************************)
EXTENDS SnapshotOps, Naturals

CONSTANTS Threads,    \* callers
          NoThread,   \* nobody
          Names,      \* snapshot keys and committed names
          NoLabel,    \* no label recorded
          Changes,    \* file changes an upper directory may hold
          TxFaults,   \* whether the commit of a transaction may fail
          MaxSeq,     \* bound: directories numbered
          MaxCrashes  \* bound: crashes of the process

ASSUME NamesAssumption == NoParent \notin Names
ASSUME ThreadsAssumption == NoThread \notin Threads
ASSUME BoundsAssumption == MaxSeq \in Nat /\ MaxCrashes \in Nat

VARIABLES meta,     \* name |-> record
          ids,      \* name |-> its directory
          seq,      \* last number given out
          dirs,     \* directory |-> [whole, diff]; not whole once RemoveAll began
          lock,     \* thread in a write transaction
          crashes,  \* crashes so far
          pc,       \* thread |-> where its call is
          loc       \* thread |-> arguments and local variables of the call

vars == <<meta, ids, seq, dirs, lock, crashes, pc, loc>>

\* rm: directories the call still has to remove; cur: the one it is removing.
Blank == [kind |-> "active", name |-> NoParent, parent |-> NoParent,
          rm |-> {}, cur |-> {}]

\* The directory of the k-th snapshot.
Dir(k) == <<"id", k>>

\* os.MkdirTemp makes a name nobody has used.
TempDir(t) == <<"new", t, crashes>>

New == [whole |-> TRUE, diff |-> {}]

Live == {ids[n] : n \in DOMAIN ids}

Whole(d) == d \in DOMAIN dirs /\ dirs[d].whole

At(t, l)   == pc[t] = l
Goto(t, l) == pc' = [pc EXCEPT ![t] = l]

Init ==
    /\ meta = << >>
    /\ ids = << >>
    /\ seq = 0
    /\ dirs = << >>
    /\ lock = NoThread
    /\ crashes = 0
    /\ pc = [t \in Threads |-> "idle"]
    /\ loc = [t \in Threads |-> Blank]

-----------------------------------------------------------------------------
(* Prepare and View: createSnapshot.                                       *)

\* The call fails: the deferred function removes the directories D, after
\* the transaction was rolled back.
Fail(t, D) ==
    /\ lock' = NoThread
    /\ Goto(t, "remove")
    /\ loc' = [loc EXCEPT ![t].rm = D]

\* CreateSnapshot succeeds and the parent's directory, whose owner the new
\* one gets, is there.
Prepared(n, p) ==
    /\ CreateResult(meta, n, p) = "ok"
    /\ p # NoParent => Whole(ids[p])

\* A faulty CreateBegin, which leaves the temporary directory of a failed call.
CreateBeginLeaves(t) ==
    \E n \in Names, p \in Names \cup {NoParent} :
        /\ At(t, "idle")
        /\ lock = NoThread
        /\ seq < MaxSeq
        /\ dirs' = Put(dirs, TempDir(t), New)
        /\ IF Prepared(n, p)
           THEN /\ lock' = t
                /\ Goto(t, "rename")
                /\ loc' = [loc EXCEPT ![t] = [Blank EXCEPT !.name = n, !.parent = p]]
           ELSE UNCHANGED <<lock, pc, loc>>
        /\ UNCHANGED <<meta, ids, seq, crashes>>

\* The transaction begins: the temporary directory, then the record.
CreateBegin(t) ==
    \E n \in Names, p \in Names \cup {NoParent}, kind \in {"active", "view"} :
        /\ At(t, "idle")
        /\ lock = NoThread
        /\ seq < MaxSeq
        /\ dirs' = Put(dirs, TempDir(t), New)
        /\ \/ /\ Prepared(n, p)
              /\ lock' = t
              /\ Goto(t, "rename")
              /\ loc' = [loc EXCEPT ![t] = [Blank EXCEPT !.kind = kind, !.name = n,
                                                         !.parent = p]]
           \/ /\ ~ Prepared(n, p)
              /\ Fail(t, {TempDir(t)})
        /\ UNCHANGED <<meta, ids, seq, crashes>>

\* bolt's NextSequence: rolled back with the transaction.
NextDir == Dir(seq + 1)

\* A faulty CreateRename, which sets the path to clean up after the rename.
CreateRenameTempOnly(t) ==
    /\ At(t, "rename")
    /\ \/ /\ ~ Whole(NextDir)
          /\ dirs' = Put(Restrict(dirs, DOMAIN dirs \ {TempDir(t)}), NextDir, New)
          /\ Goto(t, "commit")
          /\ UNCHANGED <<lock, loc>>
       \/ /\ NextDir \in DOMAIN dirs
          /\ Fail(t, {TempDir(t)})
          /\ UNCHANGED dirs
    /\ UNCHANGED <<meta, ids, seq, crashes>>

\* The directory gets its name.  rename(2) replaces an empty directory only;
\* one that RemoveAll is at may be empty.  The path to clean up is set first.
CreateRename(t) ==
    /\ At(t, "rename")
    /\ \/ /\ ~ Whole(NextDir)
          /\ dirs' = Put(Restrict(dirs, DOMAIN dirs \ {TempDir(t)}), NextDir, New)
          /\ Goto(t, "commit")
          /\ UNCHANGED <<lock, loc>>
       \/ /\ NextDir \in DOMAIN dirs
          /\ Fail(t, {TempDir(t), NextDir})
          /\ UNCHANGED dirs
    /\ UNCHANGED <<meta, ids, seq, crashes>>

\* The transaction commits, or fails to.
CreateCommit(t) ==
    LET r == loc[t]
    IN  /\ At(t, "commit")
        /\ \/ /\ meta' = Created(meta, r.kind, r.name, r.parent, NoLabel)
              /\ ids' = Put(ids, r.name, NextDir)
              /\ seq' = seq + 1
              /\ lock' = NoThread
              /\ Goto(t, "idle")
              /\ loc' = [loc EXCEPT ![t] = Blank]
           \/ /\ TxFaults
              /\ Fail(t, {NextDir})
              /\ UNCHANGED <<meta, ids, seq>>
        /\ UNCHANGED <<dirs, crashes>>

-----------------------------------------------------------------------------
(* Remove and Commit.                                                      *)

\* A faulty Orphans, listed when the transaction is over: what others make
\* meanwhile is listed, too.
OrphansLate(n) == (DOMAIN dirs \cup {NextDir}) \ {ids[m] : m \in DOMAIN ids \ {n}}

\* getCleanupDirectories: every directory without a record, once n is gone.
Orphans(n) == DOMAIN dirs \ {ids[m] : m \in DOMAIN ids \ {n}}

\* The transaction; the directories go after it, unless it failed.
RemoveBegin(t) ==
    \E n \in Names :
        /\ At(t, "idle")
        /\ lock = NoThread
        /\ RemoveResult(meta, n) = "ok"
        /\ meta' = Removed(meta, n)
        /\ ids' = Restrict(ids, DOMAIN ids \ {n})
        /\ Goto(t, "remove")
        /\ loc' = [loc EXCEPT ![t].name = n, ![t].rm = Orphans(n)]
        /\ UNCHANGED <<seq, dirs, lock, crashes>>

\* os.RemoveAll of a directory: its contents first ...
RemoveContents(t) ==
    /\ At(t, "remove")
    /\ loc[t].cur = {}
    /\ \E d \in loc[t].rm :
          /\ loc' = [loc EXCEPT ![t].cur = {d}]
          /\ dirs' = IF d \in DOMAIN dirs
                     THEN [dirs EXCEPT ![d] = [whole |-> FALSE, diff |-> {}]]
                     ELSE dirs
    /\ UNCHANGED <<meta, ids, seq, lock, crashes, pc>>

\* ... then itself, if nothing has taken its place.
RemoveDirectory(t) ==
    /\ At(t, "remove")
    /\ \E d \in loc[t].cur :
          /\ dirs' = IF Whole(d) THEN dirs ELSE Restrict(dirs, DOMAIN dirs \ {d})
          /\ loc' = [loc EXCEPT ![t].cur = {}, ![t].rm = @ \ {d}]
    /\ UNCHANGED <<meta, ids, seq, lock, crashes, pc>>

Return(t) ==
    /\ At(t, "remove")
    /\ loc[t].rm = {}
    /\ Goto(t, "idle")
    /\ loc' = [loc EXCEPT ![t] = Blank]
    /\ UNCHANGED <<meta, ids, seq, dirs, lock, crashes>>

\* A faulty Commit, which takes a view for an active snapshot.
CommitAnyKind(t) ==
    \E n, c \in Names :
        /\ At(t, "idle")
        /\ lock = NoThread
        /\ n \in DOMAIN meta /\ c \notin DOMAIN meta
        /\ Whole(ids[n])
        /\ meta' = Committed(meta, n, c, NoLabel)
        /\ ids' = Put(Restrict(ids, DOMAIN ids \ {n}), c, ids[n])
        /\ UNCHANGED <<seq, dirs, lock, crashes, pc, loc>>

\* A faulty Commit, which forgets to delete the record of the key.
CommitKeepsKey(t) ==
    \E n, c \in Names :
        /\ At(t, "idle")
        /\ lock = NoThread
        /\ CommitResult(meta, n, c) = "ok"
        /\ Whole(ids[n])
        /\ meta' = Put(meta, c, [meta[n] EXCEPT !.kind = "committed"])
        /\ ids' = Put(ids, c, ids[n])
        /\ UNCHANGED <<seq, dirs, lock, crashes, pc, loc>>

\* Commit: the disk usage of the directory is measured first; the directory
\* keeps its number under the new name.
Commit(t) ==
    \E n, c \in Names :
        /\ At(t, "idle")
        /\ lock = NoThread
        /\ CommitResult(meta, n, c) = "ok"
        /\ Whole(ids[n])
        /\ meta' = Committed(meta, n, c, NoLabel)
        /\ ids' = Put(Restrict(ids, DOMAIN ids \ {n}), c, ids[n])
        /\ UNCHANGED <<seq, dirs, lock, crashes, pc, loc>>

\* A caller writes through the mounts of an active snapshot.
Write ==
    \E n \in DOMAIN meta, x \in Changes :
        /\ meta[n].kind = "active"
        /\ Whole(ids[n])
        /\ dirs' = [dirs EXCEPT ![ids[n]].diff = @ \cup {x}]
        /\ UNCHANGED <<meta, ids, seq, lock, crashes, pc, loc>>

\* The process ends; the open transaction is as if it had never been.
Crash ==
    /\ crashes < MaxCrashes
    /\ crashes' = crashes + 1
    /\ lock' = NoThread
    /\ pc' = [t \in Threads |-> "idle"]
    /\ loc' = [t \in Threads |-> Blank]
    /\ UNCHANGED <<meta, ids, seq, dirs>>

Step(t) ==
    \/ CreateBegin(t) \/ CreateRename(t) \/ CreateCommit(t)
    \/ RemoveBegin(t) \/ RemoveContents(t) \/ RemoveDirectory(t) \/ Return(t)
    \/ Commit(t)

Next == Crash \/ Write \/ \E t \in Threads : Step(t)

Spec == Init /\ [][Next]_vars

-----------------------------------------------------------------------------

\* Types; that no two snapshots share a directory, although numbers are
\* given out again after a rollback; and who is in the transaction.
TypeOK ==
    /\ DOMAIN meta \subseteq Names /\ DOMAIN ids = DOMAIN meta
    /\ seq \in Nat
    /\ \A n \in DOMAIN ids : ids[n] \in {Dir(k) : k \in 1..seq}
    /\ \A m, n \in DOMAIN ids : ids[m] = ids[n] => m = n
    /\ \A d \in DOMAIN dirs : dirs[d] \in [whole : BOOLEAN, diff : SUBSET Changes]
    /\ pc \in [Threads -> {"idle", "rename", "commit", "remove"}]
    /\ \A t \in Threads : At(t, "rename") \/ At(t, "commit") <=> lock = t

\* metastore.go: "does all metadata changes in a transaction to prevent
\* against process crashes causing inconsistent metadata state".  Whatever
\* is removed outside the transaction and left by rollbacks and crashes,
\* every snapshot there is a record of has its directory, untouched.
DirectoriesBacked == \A n \in DOMAIN meta : Whole(ids[n])

\* Remove: "Disk space will be freed up".  A directory without a snapshot
\* is one that some call is making or about to remove, until a crash.
NoOrphans ==
    \A d \in DOMAIN dirs \ Live :
        \/ crashes > 0
        \/ \E t \in Threads : \/ d \in loc[t].rm
                              \/ At(t, "rename") /\ d = TempDir(t)
                              \/ At(t, "commit") /\ d = NextDir

\* What crashes and rollbacks left does not stay in the way: after a Remove, and
\* after a Prepare that got as far as the rename, the number of the next
\* snapshot is free if no other call is under way, so that no Prepare fails twice on the same leftover.
CleanupHeals ==
    [][\A t \in Threads :
          At(t, "remove") /\ loc[t].name # NoParent
             /\ pc'[t] = "idle" /\ crashes' = crashes
             /\ (\A u \in Threads \ {t} : At(u, "idle")) =>
              NextDir \notin DOMAIN dirs']_vars

\* The snapshotter its callers see: records with the contents of their
\* directories.
Contents(n) == IF ids[n] \in DOMAIN dirs THEN dirs[ids[n]].diff ELSE {}

Tree == INSTANCE SnapshotTree WITH
            snaps  <- [n \in DOMAIN meta |-> [meta[n] EXCEPT !.diff = Contents(n)]],
            Labels <- {}
TreeSpec == Tree!Spec
=============================================================================
