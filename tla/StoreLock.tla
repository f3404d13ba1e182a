------------------------------ MODULE StoreLock ------------------------------
(***************************************************************************)
(* Who has the store: the processes on one root directory, the databases   *)
(* they lock and their way from Init to the end of the process             *)
(* (ociStore.go, cmd/root.go, bbolt).                                      *)
(*                                                                         *)
(* bolt.Open locks the file it opens, and waits as long as another one has *)
(* it locked: metadata.db in Init, the snapshotter's database in the first *)
(* call that needs it.  A lock belongs to the opened file, so that calls   *)
(* of Init of the same process exclude each other, too.  An instance is    *)
(* one call of Init with the store that comes out of it.                   *)
(***************************************************************************)
EXTENDS Naturals

CONSTANTS Instances,  \* calls of Init
          Processes,
          Owner,      \* instance |-> its process
          NoOne,      \* no instance
          Faults      \* whether Init may fail

ASSUME OwnerAssumption == Owner \in [Instances -> Processes] /\ NoOne \notin Instances

VARIABLES pc,         \* instance |-> where it is
          metaLock,   \* instance that has metadata.db open
          snapLock,   \* instance that has the snapshotter's database open
          ended       \* processes that have ended

vars == <<pc, metaLock, snapLock, ended>>

Init ==
    /\ pc = [i \in Instances |-> "new"]
    /\ metaLock = NoOne
    /\ snapLock = NoOne
    /\ ended = {}

At(i, l) == Owner[i] \notin ended /\ pc[i] = l

Goto(i, l) == pc' = [pc EXCEPT ![i] = l]

\* NewSnapshotter, which opens no database.
InitStart(i) ==
    /\ At(i, "new")
    /\ \/ Goto(i, "open")
       \/ Faults /\ Goto(i, "failed")
    /\ UNCHANGED <<metaLock, snapLock, ended>>

\* A faulty OpenMeta, which shares the lock.
OpenMetaShared(i) ==
    /\ At(i, "open")
    /\ metaLock' = i
    /\ Goto(i, "db_init")
    /\ UNCHANGED <<snapLock, ended>>

\* bolt.Open(metadata.db), with no timeout.
OpenMeta(i) ==
    /\ At(i, "open")
    /\ metaLock = NoOne
    /\ metaLock' = i
    /\ Goto(i, "db_init")
    /\ UNCHANGED <<snapLock, ended>>

\* A faulty InitDatabase, which starts over when it fails.
InitDatabaseRetries(i) ==
    /\ At(i, "db_init")
    /\ \/ Goto(i, "ready")
       \/ Faults /\ Goto(i, "open")
    /\ UNCHANGED <<metaLock, snapLock, ended>>

\* The content store, db.Init and the client.  A failure closes nothing.
InitDatabase(i) ==
    /\ At(i, "db_init")
    /\ \/ Goto(i, "ready")
       \/ Faults /\ Goto(i, "failed")
    /\ UNCHANGED <<metaLock, snapLock, ended>>

\* Nothing refers to the database of a failed Init any longer: the collector
\* may close its file.
CollectFailed(i) ==
    /\ At(i, "failed")
    /\ metaLock = i
    /\ metaLock' = NoOne
    /\ UNCHANGED <<pc, snapLock, ended>>

\* The first call that needs a snapshot opens the snapshotter's database.
OpenSnapshots(i) ==
    /\ At(i, "ready")
    /\ snapLock = NoOne
    /\ snapLock' = i
    /\ Goto(i, "working")
    /\ UNCHANGED <<metaLock, ended>>

\* The call returns, or was one that needs no snapshot.
CallReturns(i) ==
    /\ At(i, "working") \/ At(i, "ready")
    /\ Goto(i, "done")
    /\ UNCHANGED <<metaLock, snapLock, ended>>

\* A faulty Finalize, which closes the wrong one of the two databases.
FinalizeMeta(i) ==
    /\ At(i, "done")
    /\ metaLock' = NoOne
    /\ Goto(i, "closed")
    /\ UNCHANGED <<snapLock, ended>>

\* OnFinalize closes the snapshotter; metadata.db stays open.
Finalize(i) ==
    /\ At(i, "done")
    /\ snapLock' = IF snapLock = i THEN NoOne ELSE snapLock
    /\ Goto(i, "closed")
    /\ UNCHANGED <<metaLock, ended>>

\* A faulty EndOf, after which a lock file stays behind.
EndOfKeepsLock(p) ==
    /\ p \notin ended
    /\ ended' = ended \cup {p}
    /\ UNCHANGED <<pc, metaLock, snapLock>>

\* The end of a process, or a crash, closes all of its files.
EndOf(p) ==
    /\ p \notin ended
    /\ ended' = ended \cup {p}
    /\ metaLock' = IF metaLock # NoOne /\ Owner[metaLock] = p THEN NoOne ELSE metaLock
    /\ snapLock' = IF snapLock # NoOne /\ Owner[snapLock] = p THEN NoOne ELSE snapLock
    /\ UNCHANGED pc

\* Execute returns, or exits with status 1 after a failed Init.
Exit(p) ==
    /\ \A i \in Instances : Owner[i] = p => pc[i] \in {"closed", "failed"}
    /\ EndOf(p)

Crash(p) == EndOf(p)

Step(i) ==
    \/ InitStart(i) \/ OpenMeta(i) \/ InitDatabase(i)
    \/ OpenSnapshots(i) \/ CallReturns(i) \/ Finalize(i)

Next ==
    \/ \E i \in Instances : Step(i) \/ CollectFailed(i)
    \/ \E p \in Processes : Exit(p) \/ Crash(p)

Spec == Init /\ [][Next]_vars

\* Every instance goes on when it can, and a process that is through exits.
\* Nobody has to crash, and the collector has to run for nobody.
FairSpec ==
    /\ Spec
    /\ \A i \in Instances : WF_vars(Step(i))
    /\ \A p \in Processes : WF_vars(Exit(p))

-----------------------------------------------------------------------------

\* Types; and that a lock is one of a process that runs.
TypeOK ==
    /\ pc \in [Instances -> {"new", "open", "db_init", "failed", "ready", "working",
                             "done", "closed"}]
    /\ metaLock \in Instances \cup {NoOne}
    /\ snapLock \in Instances \cup {NoOne}
    /\ ended \subseteq Processes
    /\ \A i \in {metaLock, snapLock} \cap Instances : Owner[i] \notin ended

\* db.go: the lock is there "so that other processes using Bolt in read-write
\* mode cannot use the database at the same time": at most one instance works
\* on the store.  OCIStore rests on it: its calls are those of one process.
OneUser ==
    \A i, j \in Instances :
        (\A k \in {i, j} : \E l \in {"db_init", "ready", "working", "done"} : At(k, l))
            => i = j

\* The two locks are always taken in the same order: whoever gets as far as to
\* want the snapshotter's database has it for the asking, so that two
\* processes never wait for each other with one lock each.
NoLockCycle == \A i \in Instances : At(i, "ready") => snapLock \in {NoOne, i}

\* With one store in each process, every process ends, whether Init fails in it
\* or in others, and wherever others crash: none waits for the lock for ever.
ProcessesEnd == \A p \in Processes : <>(p \in ended)
=============================================================================
