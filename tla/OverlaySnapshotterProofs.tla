---------------------- MODULE OverlaySnapshotterProofs ----------------------
(***************************************************************************)
(* The overlay snapshotter keeps its records and its directories in step,  *)
(* for any names, threads and changes.                                     *)
(***************************************************************************)
EXTENDS OverlaySnapshotter, SnapshotOpsProofs

Dirs == {Dir(k) : k \in Nat} \cup ({"new"} \X Threads \X Nat)

Record == [kind : Kinds, parent : Names \cup {NoParent}, label : {NoLabel}, diff : {{}}]

Locals == [kind : {"active", "view"}, name : Names \cup {NoParent},
           parent : Names \cup {NoParent}, rm : SUBSET Dirs, cur : SUBSET Dirs]

\* The types of what TypeOK leaves out.
Types ==
    /\ TypeOK
    /\ crashes \in Nat
    /\ \A n \in DOMAIN meta : meta[n] \in Record
    /\ DOMAIN dirs \subseteq Dirs
    /\ loc \in [Threads -> Locals]

\* A thread outside of a call has nothing to remove, one in a transaction
\* neither, and the snapshot it makes can be made until the transaction ends.
Positions ==
    /\ \A t \in Threads : At(t, "idle") => loc[t] = Blank
    /\ \A t \in Threads :
          lock = t => /\ loc[t].rm = {} /\ loc[t].cur = {}
                      /\ loc[t].name \in Names
                      /\ CreateResult(meta, loc[t].name, loc[t].parent) = "ok"

\* What the next transactions will number has no directory yet, but for the
\* very next one, which may be a leftover.
Numbers == \A k \in Nat : Dir(k) \in DOMAIN dirs => k <= seq + 1

Base == Types /\ Positions /\ Numbers

\* The directory d is being made, or some call has yet to begin removing it.
Claimed(d) ==
    \E u \in Threads : \/ At(u, "rename") /\ d = TempDir(u)
                       \/ At(u, "commit") /\ d = NextDir
                       \/ d \in loc[u].rm /\ d \notin loc[u].cur

Sweeping(d) == \E u \in Threads : d \in loc[u].cur

\* A call removes one directory at a time, of those on its list.
OneByOne == \A t \in Threads : /\ loc[t].cur \subseteq loc[t].rm
                               /\ \A d, e \in loc[t].cur : d = e

\* What a directory without a snapshot is there for.  A call that finds the
\* one it was to remove made anew leaves it to the call that made it.
Accounted ==
    \A d \in DOMAIN dirs \ Live :
        \/ Claimed(d)
        \/ Sweeping(d) /\ ~ Whole(d)
        \/ crashes > 0 /\ ~ Sweeping(d)

\* A Remove, or a Prepare that failed at the rename or later, has what is in
\* the way of the next snapshot on its list, or another call has.
Healing ==
    \A t \in Threads :
        At(t, "remove") /\ loc[t].name # NoParent /\ NextDir \in DOMAIN dirs
            => Claimed(NextDir) \/ Sweeping(NextDir)

Tidy == Base /\ OneByOne /\ Accounted /\ Healing

\* The case the driver holds up in: no transaction fails and no process
\* crashes, or calls come one at a time.
Quiet     == ~ TxFaults /\ MaxCrashes = 0
Sheltered == Quiet \/ \A t, u \in Threads : t = u

\* Without failures no number is given out twice.
Fresh ==
    /\ crashes = 0
    /\ \A t \in Threads, k \in Nat : Dir(k) \in loc[t].rm => k <= seq
    /\ NextDir \in DOMAIN dirs => \E t \in Threads : At(t, "commit")

\* No call removes the directory of a snapshot, nor that of one in the making.
Backed ==
    /\ DirectoriesBacked
    /\ \A t \in Threads : loc[t].rm \cap Live = {}
    /\ \A t \in Threads : At(t, "commit") => Whole(NextDir) /\ dirs[NextDir] = New
    /\ \A t, u \in Threads : lock = t => NextDir \notin loc[u].rm

Shelter == Base /\ OneByOne /\ (Quiet => Fresh) /\ Backed

-----------------------------------------------------------------------------
(* Names of directories.                                                   *)

LEMMA DirsDiffer ==
    /\ \A j, k : Dir(j) = Dir(k) => j = k
    /\ \A k, t : Dir(k) # TempDir(t)
    /\ \A t, u : TempDir(t) = TempDir(u) => t = u
  BY DEF Dir, TempDir

LEMMA BlankFacts ==
    /\ Blank \in Locals
    /\ Blank.rm = {} /\ Blank.cur = {} /\ Blank.name = NoParent
  BY DEF Blank, Locals

LEMMA DirsTyped ==
    ASSUME Base
    PROVE  /\ NextDir \in Dirs /\ NextDir \notin Live
           /\ \A t \in Threads : TempDir(t) \in Dirs /\ TempDir(t) \notin Live
           /\ Live \subseteq Dirs
  BY DirsDiffer DEF Base, Types, TypeOK, NextDir, Dirs, Live, Dir, TempDir

-----------------------------------------------------------------------------

LEMMA CreateBeginBase ==
    ASSUME Base, NEW t \in Threads, CreateBegin(t)
    PROVE  Base'
  <1>1. PICK n \in Names, p \in Names \cup {NoParent}, kind \in {"active", "view"} :
            /\ At(t, "idle")
            /\ lock = NoThread
            /\ dirs' = Put(dirs, TempDir(t), New)
            /\ \/ /\ Prepared(n, p)
                  /\ lock' = t
                  /\ Goto(t, "rename")
                  /\ loc' = [loc EXCEPT ![t] = [Blank EXCEPT !.kind = kind, !.name = n,
                                                             !.parent = p]]
               \/ /\ ~ Prepared(n, p)
                  /\ Fail(t, {TempDir(t)})
            /\ UNCHANGED <<meta, ids, seq, crashes>>
    BY DEF CreateBegin
  <1>2. /\ DOMAIN dirs' = DOMAIN dirs \cup {TempDir(t)}
        /\ \A d \in DOMAIN dirs' : dirs'[d] = IF d = TempDir(t) THEN New ELSE dirs[d]
    BY <1>1 DEF Put
  <1>3. New \in [whole : BOOLEAN, diff : SUBSET Changes]
    BY DEF New
  <1>4. TypeOK'
    BY <1>1, <1>2, <1>3, ThreadsAssumption DEF Base, Types, TypeOK, At, Goto, Fail
  <1>5. loc[t] = Blank /\ TempDir(t) \in Dirs
    BY <1>1, DirsTyped DEF Base, Positions
  <1>6. /\ loc' \in [Threads -> Locals]
        /\ \A u \in Threads \ {t} : loc'[u] = loc[u]
        /\ lock' \in {t, NoThread}
        /\ lock' = t => /\ loc'[t].rm = {} /\ loc'[t].cur = {}
                        /\ loc'[t].name = n /\ loc'[t].parent = p
                        /\ CreateResult(meta, n, p) = "ok"
        /\ pc'[t] # "idle" /\ \A u \in Threads \ {t} : pc'[u] = pc[u]
    <2>1. CASE Prepared(n, p)
      <3>1. /\ loc' = [loc EXCEPT ![t] = [Blank EXCEPT !.kind = kind, !.name = n, !.parent = p]]
            /\ Goto(t, "rename")
            /\ lock' = t
        BY <1>1, <2>1
      <3>2. QED
        BY <2>1, <3>1, BlankFacts DEF Base, Types, TypeOK, Locals, Goto, Prepared
    <2>2. CASE ~ Prepared(n, p)
      <3>1. /\ loc' = [loc EXCEPT ![t] = [Blank EXCEPT !.rm = {TempDir(t)}]]
            /\ Goto(t, "remove")
            /\ lock' = NoThread /\ lock' # t
        BY <1>1, <1>5, <2>2, ThreadsAssumption DEF Fail
      <3>2. QED
        BY <3>1, <1>5, BlankFacts DEF Base, Types, TypeOK, Locals, Goto
    <2>3. QED
      BY <2>1, <2>2
  <1>7. Types'
    BY <1>1, <1>2, <1>4, <1>6, DirsTyped DEF Base, Types
  <1>8. Positions'
    BY <1>1, <1>6, ThreadsAssumption DEF Base, Positions, At
  <1>9. Numbers'
    BY <1>1, <1>2, DirsDiffer DEF Base, Numbers
  <1>10. QED
    BY <1>7, <1>8, <1>9 DEF Base

LEMMA CreateRenameBase ==
    ASSUME Base, NEW t \in Threads, CreateRename(t)
    PROVE  Base'
  <1>1. /\ pc[t] = "rename" /\ lock = t
        /\ UNCHANGED <<meta, ids, seq, crashes>>
        /\ loc[t] \in Locals /\ loc[t].rm = {} /\ loc[t].cur = {}
    BY DEF CreateRename, At, Base, Types, TypeOK, Positions
  <1>2. /\ \A u \in Threads \ {t} : pc'[u] = pc[u] /\ loc'[u] = loc[u]
        /\ pc' \in [Threads -> {"idle", "rename", "commit", "remove"}]
        /\ loc' \in [Threads -> Locals]
        /\ \/ pc'[t] = "commit" /\ lock' = t /\ loc' = loc
           \/ pc'[t] = "remove" /\ lock' = NoThread
    <2>1. CASE /\ Goto(t, "commit") /\ UNCHANGED <<lock, loc>>
      BY <1>1, <2>1 DEF Goto, Base, Types, TypeOK
    <2>2. CASE Fail(t, {TempDir(t), NextDir})
      <3>1. loc' \in [Threads -> Locals] /\ \A u \in Threads \ {t} : loc'[u] = loc[u]
        BY <1>1, <2>2, DirsTyped DEF Fail, Base, Types, Locals
      <3>2. QED
        BY <2>2, <3>1 DEF Fail, Goto, Base, Types, TypeOK
    <2>3. QED
      BY <2>1, <2>2 DEF CreateRename
  <1>3. /\ DOMAIN dirs' \subseteq DOMAIN dirs \cup {NextDir}
        /\ \A d \in DOMAIN dirs' : dirs'[d] \in {dirs[d], New} /\ (d \notin DOMAIN dirs => dirs'[d] = New)
    BY DEF CreateRename, Put, Restrict
  <1>4. New \in [whole : BOOLEAN, diff : SUBSET Changes]
    BY DEF New
  <1>5. \A d \in DOMAIN dirs' : dirs'[d] \in [whole : BOOLEAN, diff : SUBSET Changes]
    BY <1>3, <1>4 DEF Base, Types, TypeOK
  <1>6. \A u \in Threads : (pc'[u] = "rename" \/ pc'[u] = "commit") <=> lock' = u
    BY <1>1, <1>2, ThreadsAssumption DEF Base, Types, TypeOK, At
  <1>7. TypeOK'
    BY <1>1, <1>2, <1>5, <1>6 DEF Base, Types, TypeOK, At
  <1>8. Types'
    BY <1>1, <1>2, <1>3, <1>7, DirsTyped DEF Base, Types
  <1>9. Positions'
    BY <1>1, <1>2, ThreadsAssumption DEF Base, Positions, At
  <1>10. Numbers'
    BY <1>1, <1>3, DirsDiffer DEF Base, Types, TypeOK, Numbers, NextDir
  <1>11. QED
    BY <1>8, <1>9, <1>10 DEF Base

LEMMA CreateCommitBase ==
    ASSUME Base, NEW t \in Threads, CreateCommit(t)
    PROVE  Base'
  <1> DEFINE n == loc[t].name
  <1>1. /\ pc[t] = "commit" /\ lock = t
        /\ UNCHANGED <<dirs, crashes>>
        /\ loc[t] \in Locals /\ loc[t].rm = {} /\ loc[t].cur = {}
        /\ n \in Names /\ CreateResult(meta, n, loc[t].parent) = "ok"
        /\ n \notin DOMAIN meta
    BY DEF CreateCommit, At, Base, Types, TypeOK, Positions, CreateResult
  <1>2. CASE /\ meta' = Created(meta, loc[t].kind, n, loc[t].parent, NoLabel)
             /\ ids' = Put(ids, n, NextDir)
             /\ seq' = seq + 1
             /\ lock' = NoThread
             /\ Goto(t, "idle")
             /\ loc' = [loc EXCEPT ![t] = Blank]
    <2>1. /\ DOMAIN meta' = DOMAIN meta \cup {n}
          /\ \A m \in DOMAIN meta : meta'[m] = meta[m]
          /\ meta'[n] \in Record
      BY <1>1, <1>2 DEF Created, Put, Record, Kinds, Locals
    <2>2. /\ DOMAIN ids' = DOMAIN ids \cup {n}
          /\ \A m \in DOMAIN ids : ids'[m] = ids[m]
          /\ ids'[n] = NextDir
      BY <1>1, <1>2 DEF Put, Base, Types, TypeOK
    <2>3. \A u \in Threads : (pc'[u] = "rename" \/ pc'[u] = "commit") <=> lock' = u
      BY <1>1, <1>2, ThreadsAssumption DEF Base, Types, TypeOK, At, Goto
    <2>4. /\ seq' \in Nat
          /\ \A m \in DOMAIN ids' : ids'[m] \in {Dir(k) : k \in 1..seq'}
          /\ \A l, m \in DOMAIN ids' : ids'[l] = ids'[m] => l = m
      BY <1>2, <2>2, DirsTyped, DirsDiffer DEF Base, Types, TypeOK, NextDir, Live
    <2>5. TypeOK'
      BY <1>1, <1>2, <2>1, <2>2, <2>3, <2>4 DEF Base, Types, TypeOK, At, Goto
    <2>6. loc' \in [Threads -> Locals]
      BY <1>2, BlankFacts DEF Base, Types
    <2>7. Types'
      BY <1>1, <2>1, <2>5, <2>6 DEF Base, Types
    <2>8. Positions'
      BY <1>1, <1>2, ThreadsAssumption DEF Base, Types, TypeOK, Positions, At, Goto
    <2>9. Numbers'
      BY <1>1, <1>2 DEF Base, Types, TypeOK, Numbers
    <2>10. QED
      BY <2>7, <2>8, <2>9 DEF Base
  <1>3. CASE Fail(t, {NextDir}) /\ UNCHANGED <<meta, ids, seq>>
    <2>1. loc' \in [Threads -> Locals] /\ \A u \in Threads \ {t} : loc'[u] = loc[u]
      BY <1>1, <1>3, DirsTyped DEF Fail, Base, Types, Locals
    <2>2. /\ pc' = [pc EXCEPT ![t] = "remove"] /\ lock' = NoThread
      BY <1>3 DEF Fail, Goto
    <2>3. TypeOK'
      BY <1>1, <1>3, <2>2, ThreadsAssumption DEF Base, Types, TypeOK, At
    <2>4. Types'
      BY <1>1, <1>3, <2>1, <2>3 DEF Base, Types
    <2>5. Positions'
      BY <1>1, <2>1, <2>2, ThreadsAssumption DEF Base, Types, TypeOK, Positions, At
    <2>6. Numbers'
      BY <1>1, <1>3 DEF Base, Numbers
    <2>7. QED
      BY <2>4, <2>5, <2>6 DEF Base
  <1>4. QED
    BY <1>2, <1>3 DEF CreateCommit

LEMMA RemoveBeginBase ==
    ASSUME Base, NEW t \in Threads, RemoveBegin(t)
    PROVE  Base'
  <1>1. PICK n \in Names :
            /\ At(t, "idle")
            /\ lock = NoThread
            /\ RemoveResult(meta, n) = "ok"
            /\ meta' = Removed(meta, n)
            /\ ids' = Restrict(ids, DOMAIN ids \ {n})
            /\ Goto(t, "remove")
            /\ loc' = [loc EXCEPT ![t].name = n, ![t].rm = Orphans(n)]
            /\ UNCHANGED <<seq, dirs, lock, crashes>>
    BY DEF RemoveBegin
  <1>2. /\ DOMAIN meta' = DOMAIN meta \ {n}
        /\ \A m \in DOMAIN meta' : meta'[m] = meta[m]
        /\ DOMAIN ids' = DOMAIN ids \ {n}
        /\ \A m \in DOMAIN ids' : ids'[m] = ids[m]
    BY <1>1, RemovedFacts DEF Restrict
  <1>3. /\ loc' \in [Threads -> Locals]
        /\ \A u \in Threads \ {t} : loc'[u] = loc[u]
    <2>1. Orphans(n) \subseteq Dirs
      BY DEF Orphans, Base, Types
    <2>2. QED
      BY <1>1, <2>1 DEF Base, Types, Locals
  <1>4. /\ pc'[t] = "remove" /\ \A u \in Threads \ {t} : pc'[u] = pc[u]
        /\ \A u \in Threads : lock' # u
        /\ pc' \in [Threads -> {"idle", "rename", "commit", "remove"}]
        /\ \A u \in Threads : pc'[u] \notin {"rename", "commit"}
    BY <1>1, ThreadsAssumption DEF Base, Types, TypeOK, At, Goto
  <1>5. Types'
    <2>1. UNCHANGED <<seq, dirs>>
      BY <1>1
    <2>2. TypeOK'
      BY <1>2, <1>4, <2>1 DEF Base, Types, TypeOK, At
    <2>3. QED
      BY <1>1, <1>2, <1>3, <2>2 DEF Base, Types
  <1>6. Positions'
    BY <1>3, <1>4 DEF Base, Positions, At
  <1>7. QED
    BY <1>1, <1>5, <1>6 DEF Base, Numbers

\* The steps outside of a transaction that touch no record.
LEMMA SweepBase ==
    ASSUME Base, NEW t \in Threads, RemoveContents(t) \/ RemoveDirectory(t) \/ Return(t)
    PROVE  Base'
  <1>1. /\ pc[t] = "remove" /\ UNCHANGED <<meta, ids, seq, lock, crashes>>
        /\ pc' \in {pc, [pc EXCEPT ![t] = "idle"]}
    BY DEF RemoveContents, RemoveDirectory, Return, At, Goto
  <1>2. /\ loc' \in [Threads -> Locals]
        /\ \A u \in Threads \ {t} : loc'[u] = loc[u]
        /\ pc'[t] = "idle" => loc'[t] = Blank
    <2>1. CASE RemoveContents(t)
      <3>1. PICK d \in loc[t].rm : loc' = [loc EXCEPT ![t].cur = {d}]
        BY <2>1 DEF RemoveContents
      <3>2. QED
        BY <1>1, <2>1, <3>1 DEF Base, Types, Locals, RemoveContents
    <2>2. CASE RemoveDirectory(t)
      <3>1. PICK d \in loc[t].cur : loc' = [loc EXCEPT ![t].cur = {}, ![t].rm = @ \ {d}]
        BY <2>2 DEF RemoveDirectory
      <3>2. [loc[t] EXCEPT !.cur = {}, !.rm = @ \ {d}] \in Locals
        BY DEF Base, Types, Locals
      <3>3. loc' = [loc EXCEPT ![t] = [loc[t] EXCEPT !.cur = {}, !.rm = @ \ {d}]]
        BY <3>1 DEF Base, Types, Locals
      <3>4. pc'[t] # "idle"
        BY <1>1, <2>2 DEF RemoveDirectory
      <3>5. QED
        BY <3>2, <3>3, <3>4 DEF Base, Types
    <2>3. CASE Return(t)
      BY <2>3, BlankFacts DEF Base, Types, Return, At, Goto
    <2>4. QED
      BY <2>1, <2>2, <2>3
  <1>3. /\ DOMAIN dirs' \subseteq DOMAIN dirs
        /\ \A d \in DOMAIN dirs' : dirs'[d] \in {dirs[d], [whole |-> FALSE, diff |-> {}]}
    BY DEF RemoveContents, RemoveDirectory, Return, Restrict
  <1>4. TypeOK'
    <2>1. [whole |-> FALSE, diff |-> {}] \in [whole : BOOLEAN, diff : SUBSET Changes]
      OBVIOUS
    <2>2. \A d \in DOMAIN dirs' : dirs'[d] \in [whole : BOOLEAN, diff : SUBSET Changes]
      BY <1>3, <2>1 DEF Base, Types, TypeOK
    <2>3. QED
      BY <1>1, <2>2 DEF Base, Types, TypeOK, At
  <1>5. Types'
    BY <1>1, <1>2, <1>3, <1>4 DEF Base, Types
  <1>6. Positions'
    BY <1>1, <1>2 DEF Base, Types, TypeOK, Positions, At
  <1>7. QED
    BY <1>1, <1>3, <1>5, <1>6 DEF Base, Numbers

LEMMA CommitBase ==
    ASSUME Base, NEW t \in Threads, Commit(t)
    PROVE  Base'
  <1>1. PICK n \in Names, c \in Names :
            /\ lock = NoThread
            /\ CommitResult(meta, n, c) = "ok"
            /\ meta' = Committed(meta, n, c, NoLabel)
            /\ ids' = Put(Restrict(ids, DOMAIN ids \ {n}), c, ids[n])
            /\ UNCHANGED <<seq, dirs, lock, crashes, pc, loc>>
    BY DEF Commit
  <1>2. n \in DOMAIN meta /\ c \notin DOMAIN meta /\ n # c
    BY <1>1 DEF CommitResult
  <1>3. /\ DOMAIN meta' = (DOMAIN meta \ {n}) \cup {c}
        /\ \A m \in DOMAIN meta \ {n} : meta'[m] = meta[m]
        /\ meta'[c] \in Record
    <2>1. [meta[n] EXCEPT !.kind = "committed", !.label = NoLabel] \in Record
      BY <1>2 DEF Base, Types, Record, Kinds
    <2>2. QED
      BY <1>1, <1>2, <2>1 DEF Committed, Put, Removed, Restrict
  <1>4. /\ DOMAIN ids' = (DOMAIN ids \ {n}) \cup {c}
        /\ \A m \in DOMAIN ids \ {n} : ids'[m] = ids[m]
        /\ ids'[c] = ids[n]
    BY <1>1, <1>2 DEF Put, Restrict, Base, Types, TypeOK
  <1>5. TypeOK'
    <2>1. UNCHANGED <<seq, dirs, lock, pc>>
      BY <1>1
    <2>2. /\ \A m \in DOMAIN ids' : ids'[m] \in {Dir(k) : k \in 1..seq}
          /\ \A l, m \in DOMAIN ids' : ids'[l] = ids'[m] => l = m
      BY <1>2, <1>4 DEF Base, Types, TypeOK
    <2>3. DOMAIN meta' \subseteq Names /\ DOMAIN ids' = DOMAIN meta'
      BY <1>2, <1>3, <1>4 DEF Base, Types, TypeOK
    <2>4. QED
      BY <2>1, <2>2, <2>3 DEF Base, Types, TypeOK, At
  <1>6. Types'
    BY <1>1, <1>2, <1>3, <1>5 DEF Base, Types
  <1>7. Positions' /\ Numbers'
    BY <1>1, ThreadsAssumption DEF Base, Positions, Numbers, At
  <1>8. QED
    BY <1>6, <1>7 DEF Base

LEMMA WriteBase ==
    ASSUME Base, Write
    PROVE  Base'
  <1>1. PICK n \in DOMAIN meta, x \in Changes :
            /\ dirs' = [dirs EXCEPT ![ids[n]].diff = @ \cup {x}]
            /\ UNCHANGED <<meta, ids, seq, lock, crashes, pc, loc>>
    BY DEF Write
  <1>2. /\ DOMAIN dirs' = DOMAIN dirs
        /\ \A d \in DOMAIN dirs' : dirs'[d] \in [whole : BOOLEAN, diff : SUBSET Changes]
    BY <1>1 DEF Base, Types, TypeOK
  <1>3. TypeOK'
    BY <1>1, <1>2 DEF Base, Types, TypeOK, At
  <1>4. QED
    BY <1>1, <1>2, <1>3 DEF Base, Types, Positions, Numbers, At

LEMMA CrashBase ==
    ASSUME Base, Crash
    PROVE  Base'
  <1>1. TypeOK'
    BY ThreadsAssumption DEF Crash, Base, Types, TypeOK, At
  <1>2. Types'
    BY <1>1, BlankFacts DEF Crash, Base, Types
  <1>3. QED
    BY <1>2, ThreadsAssumption DEF Crash, Base, Types, Positions, Numbers, At

LEMMA NextBase ==
    ASSUME Base, [Next]_vars
    PROVE  Base'
  <1>1. CASE UNCHANGED vars
    BY <1>1 DEF vars, Base, Types, TypeOK, Positions, Numbers, At
  <1>2. ASSUME NEW t \in Threads, Step(t)
        PROVE  Base'
    BY <1>2, CreateBeginBase, CreateRenameBase, CreateCommitBase, RemoveBeginBase,
       SweepBase, CommitBase DEF Step
  <1>3. QED
    BY <1>1, <1>2, WriteBase, CrashBase DEF Next

-----------------------------------------------------------------------------
(* What each step changes, read off the actions.                           *)

LEMMA CreateBeginEffect ==
    ASSUME Base, NEW t \in Threads, CreateBegin(t)
    PROVE  /\ UNCHANGED <<meta, ids, seq, crashes>>
           /\ lock = NoThread /\ lock' \in {t, NoThread}
           /\ DOMAIN dirs' = DOMAIN dirs \cup {TempDir(t)}
           /\ dirs'[TempDir(t)] = New
           /\ \A d \in DOMAIN dirs : d # TempDir(t) => dirs'[d] = dirs[d]
           /\ \A u \in Threads \ {t} : pc'[u] = pc[u] /\ loc'[u] = loc[u]
           /\ pc[t] = "idle" /\ loc[t] = Blank /\ loc'[t].cur = {}
           /\ \/ pc'[t] = "rename" /\ lock' = t /\ loc'[t].rm = {}
              \/ /\ pc'[t] = "remove" /\ lock' = NoThread
                 /\ loc'[t].rm = {TempDir(t)} /\ loc'[t].name = NoParent
  <1>1. PICK n \in Names, p \in Names \cup {NoParent}, kind \in {"active", "view"} :
            /\ At(t, "idle")
            /\ lock = NoThread
            /\ dirs' = Put(dirs, TempDir(t), New)
            /\ \/ /\ lock' = t
                  /\ Goto(t, "rename")
                  /\ loc' = [loc EXCEPT ![t] = [Blank EXCEPT !.kind = kind, !.name = n,
                                                             !.parent = p]]
               \/ Fail(t, {TempDir(t)})
            /\ UNCHANGED <<meta, ids, seq, crashes>>
    BY DEF CreateBegin
  <1>2. /\ DOMAIN dirs' = DOMAIN dirs \cup {TempDir(t)}
        /\ dirs'[TempDir(t)] = New
        /\ \A d \in DOMAIN dirs : d # TempDir(t) => dirs'[d] = dirs[d]
    BY <1>1 DEF Put
  <1>3. pc[t] = "idle" /\ loc[t] = Blank
    BY <1>1 DEF At, Base, Positions
  <1>4. CASE /\ lock' = t
             /\ Goto(t, "rename")
             /\ loc' = [loc EXCEPT ![t] = [Blank EXCEPT !.kind = kind, !.name = n,
                                                        !.parent = p]]
    <2>1. [Blank EXCEPT !.kind = kind, !.name = n, !.parent = p].rm = {}
      BY BlankFacts DEF Locals
    <2>2. [Blank EXCEPT !.kind = kind, !.name = n, !.parent = p].cur = {}
      BY BlankFacts DEF Locals
    <2>3. QED
      BY <1>1, <1>2, <1>3, <1>4, <2>1, <2>2 DEF Goto, Base, Types, TypeOK
  <1>5. CASE Fail(t, {TempDir(t)})
    BY <1>1, <1>2, <1>3, <1>5, BlankFacts DEF Fail, Goto, Base, Types, TypeOK, Locals
  <1>6. QED
    BY <1>1, <1>4, <1>5

LEMMA CreateRenameEffect ==
    ASSUME Base, NEW t \in Threads, CreateRename(t)
    PROVE  /\ UNCHANGED <<meta, ids, seq, crashes>>
           /\ pc[t] = "rename" /\ lock = t
           /\ \A u \in Threads \ {t} : pc'[u] = pc[u] /\ loc'[u] = loc[u]
           /\ loc[t].rm = {} /\ loc[t].cur = {} /\ loc'[t].cur = {}
           /\ \/ /\ pc'[t] = "commit" /\ lock' = t /\ loc' = loc
                 /\ DOMAIN dirs' = (DOMAIN dirs \ {TempDir(t)}) \cup {NextDir}
                 /\ dirs'[NextDir] = New
                 /\ \A d \in DOMAIN dirs' : d # NextDir => dirs'[d] = dirs[d]
              \/ /\ pc'[t] = "remove" /\ lock' = NoThread
                 /\ loc'[t].rm = {TempDir(t), NextDir} /\ dirs' = dirs
                 /\ NextDir \in DOMAIN dirs
  <1>1. /\ pc[t] = "rename" /\ lock = t
        /\ UNCHANGED <<meta, ids, seq, crashes>>
        /\ loc[t] \in Locals /\ loc[t].rm = {} /\ loc[t].cur = {}
    BY DEF CreateRename, At, Base, Types, TypeOK, Positions
  <1>2. CASE /\ dirs' = Put(Restrict(dirs, DOMAIN dirs \ {TempDir(t)}), NextDir, New)
             /\ Goto(t, "commit")
             /\ UNCHANGED <<lock, loc>>
    BY <1>1, <1>2 DEF Goto, Put, Restrict, Base, Types, TypeOK
  <1>3. CASE /\ NextDir \in DOMAIN dirs
             /\ Fail(t, {TempDir(t), NextDir})
             /\ UNCHANGED dirs
    BY <1>1, <1>3 DEF Fail, Goto, Base, Types, TypeOK, Locals
  <1>4. QED
    BY <1>1, <1>2, <1>3 DEF CreateRename

LEMMA CreateCommitEffect ==
    ASSUME Base, NEW t \in Threads, CreateCommit(t)
    PROVE  /\ UNCHANGED <<dirs, crashes>>
           /\ pc[t] = "commit" /\ lock = t /\ lock' = NoThread
           /\ \A u \in Threads \ {t} : pc'[u] = pc[u] /\ loc'[u] = loc[u]
           /\ loc[t].rm = {} /\ loc[t].cur = {} /\ loc'[t].cur = {}
           /\ \/ /\ pc'[t] = "idle" /\ loc'[t] = Blank
                 /\ meta' = Created(meta, loc[t].kind, loc[t].name, loc[t].parent, NoLabel)
                 /\ ids' = Put(ids, loc[t].name, NextDir)
                 /\ seq' = seq + 1
                 /\ Live' = Live \cup {NextDir}
              \/ /\ TxFaults
                 /\ pc'[t] = "remove" /\ loc'[t].rm = {NextDir}
                 /\ UNCHANGED <<meta, ids, seq>>
  <1>1. /\ pc[t] = "commit" /\ lock = t
        /\ UNCHANGED <<dirs, crashes>>
        /\ loc[t] \in Locals /\ loc[t].rm = {} /\ loc[t].cur = {}
        /\ loc[t].name \notin DOMAIN meta /\ DOMAIN meta = DOMAIN ids
    BY DEF CreateCommit, At, Base, Types, TypeOK, Positions, CreateResult
  <1>2. CASE /\ meta' = Created(meta, loc[t].kind, loc[t].name, loc[t].parent, NoLabel)
             /\ ids' = Put(ids, loc[t].name, NextDir)
             /\ seq' = seq + 1
             /\ lock' = NoThread
             /\ Goto(t, "idle")
             /\ loc' = [loc EXCEPT ![t] = Blank]
    <2>1. /\ DOMAIN ids' = DOMAIN ids \cup {loc[t].name}
          /\ ids'[loc[t].name] = NextDir
          /\ \A m \in DOMAIN ids : ids'[m] = ids[m]
      BY <1>1, <1>2 DEF Put
    <2>2. Live' = Live \cup {NextDir}
      BY <2>1 DEF Live
    <2>3. QED
      BY <1>1, <1>2, <2>2, BlankFacts DEF Goto, Base, Types, TypeOK
  <1>3. CASE TxFaults /\ Fail(t, {NextDir}) /\ UNCHANGED <<meta, ids, seq>>
    BY <1>1, <1>3 DEF Fail, Goto, Base, Types, TypeOK, Locals
  <1>4. QED
    BY <1>2, <1>3 DEF CreateCommit

LEMMA RemoveBeginEffect ==
    ASSUME Base, NEW t \in Threads, RemoveBegin(t)
    PROVE  /\ UNCHANGED <<seq, dirs, crashes>>
           /\ lock = NoThread /\ lock' = NoThread
           /\ \A u \in Threads \ {t} : pc'[u] = pc[u] /\ loc'[u] = loc[u]
           /\ pc[t] = "idle" /\ loc[t] = Blank
           /\ pc'[t] = "remove" /\ loc'[t].cur = {} /\ loc'[t].name \in Names
           /\ Live' \subseteq Live
           /\ loc'[t].rm = DOMAIN dirs \ Live'
           /\ RemoveResult(meta, loc'[t].name) = "ok"
           /\ meta' = Removed(meta, loc'[t].name)
           /\ ids' = Restrict(ids, DOMAIN ids \ {loc'[t].name})
  <1>1. PICK n \in Names :
            /\ At(t, "idle")
            /\ lock = NoThread
            /\ RemoveResult(meta, n) = "ok"
            /\ meta' = Removed(meta, n)
            /\ ids' = Restrict(ids, DOMAIN ids \ {n})
            /\ Goto(t, "remove")
            /\ loc' = [loc EXCEPT ![t].name = n, ![t].rm = Orphans(n)]
            /\ UNCHANGED <<seq, dirs, lock, crashes>>
    BY DEF RemoveBegin
  <1>2. pc[t] = "idle" /\ loc[t] = Blank
    BY <1>1 DEF At, Base, Positions
  <1>3. DOMAIN ids' = DOMAIN ids \ {n} /\ \A m \in DOMAIN ids' : ids'[m] = ids[m]
    BY <1>1 DEF Restrict
  <1>4. Live' \subseteq Live /\ Orphans(n) = DOMAIN dirs \ Live'
    BY <1>3 DEF Live, Orphans
  <1>5. /\ \A u \in Threads \ {t} : pc'[u] = pc[u] /\ loc'[u] = loc[u]
        /\ pc'[t] = "remove" /\ loc'[t].cur = {} /\ loc'[t].name = n
        /\ loc'[t].rm = Orphans(n)
    BY <1>1, <1>2, BlankFacts DEF Goto, Base, Types, TypeOK, Locals
  <1>6. QED
    BY <1>1, <1>2, <1>4, <1>5

LEMMA RemoveContentsEffect ==
    ASSUME Base, NEW t \in Threads, RemoveContents(t)
    PROVE  /\ UNCHANGED <<meta, ids, seq, lock, crashes, pc>>
           /\ \A u \in Threads \ {t} : loc'[u] = loc[u]
           /\ pc[t] = "remove" /\ loc[t].cur = {}
           /\ loc'[t].rm = loc[t].rm /\ loc'[t].name = loc[t].name
           /\ DOMAIN dirs' = DOMAIN dirs
           /\ \E d \in loc[t].rm :
                 /\ loc'[t].cur = {d}
                 /\ ~ Whole(d)'
                 /\ \A e \in DOMAIN dirs \ {d} : dirs'[e] = dirs[e]
  <1>1. PICK d \in loc[t].rm :
            /\ loc' = [loc EXCEPT ![t].cur = {d}]
            /\ dirs' = IF d \in DOMAIN dirs
                       THEN [dirs EXCEPT ![d] = [whole |-> FALSE, diff |-> {}]]
                       ELSE dirs
    BY DEF RemoveContents
  <1>2. /\ loc'[t].cur = {d}
        /\ loc'[t].rm = loc[t].rm /\ loc'[t].name = loc[t].name
        /\ \A u \in Threads \ {t} : loc'[u] = loc[u]
    BY <1>1 DEF Base, Types, Locals
  <1>3. /\ DOMAIN dirs' = DOMAIN dirs
        /\ ~ Whole(d)'
        /\ \A e \in DOMAIN dirs \ {d} : dirs'[e] = dirs[e]
    BY <1>1 DEF Whole
  <1>4. QED
    BY <1>2, <1>3 DEF RemoveContents, At

LEMMA RemoveDirectoryEffect ==
    ASSUME Base, NEW t \in Threads, RemoveDirectory(t)
    PROVE  /\ UNCHANGED <<meta, ids, seq, lock, crashes, pc>>
           /\ \A u \in Threads \ {t} : loc'[u] = loc[u]
           /\ pc[t] = "remove" /\ loc'[t].cur = {}
           /\ loc'[t].name = loc[t].name
           /\ \E d \in loc[t].cur :
                 /\ loc'[t].rm = loc[t].rm \ {d}
                 /\ \/ Whole(d) /\ dirs' = dirs
                    \/ ~ Whole(d) /\ DOMAIN dirs' = DOMAIN dirs \ {d}
                 /\ \A e \in DOMAIN dirs' : dirs'[e] = dirs[e]
  <1>1. PICK d \in loc[t].cur :
            /\ dirs' = IF Whole(d) THEN dirs ELSE Restrict(dirs, DOMAIN dirs \ {d})
            /\ loc' = [loc EXCEPT ![t].cur = {}, ![t].rm = @ \ {d}]
    BY DEF RemoveDirectory
  <1>2. /\ [loc[t] EXCEPT !.cur = {}, !.rm = @ \ {d}].cur = {}
        /\ [loc[t] EXCEPT !.cur = {}, !.rm = @ \ {d}].rm = loc[t].rm \ {d}
        /\ [loc[t] EXCEPT !.cur = {}, !.rm = @ \ {d}].name = loc[t].name
    BY DEF Base, Types, Locals
  <1>3. loc' = [loc EXCEPT ![t] = [loc[t] EXCEPT !.cur = {}, !.rm = @ \ {d}]]
    BY <1>1 DEF Base, Types, Locals
  <1>4. /\ \/ Whole(d) /\ dirs' = dirs
           \/ ~ Whole(d) /\ DOMAIN dirs' = DOMAIN dirs \ {d}
        /\ \A e \in DOMAIN dirs' : dirs'[e] = dirs[e]
    BY <1>1 DEF Restrict
  <1>5. QED
    BY <1>2, <1>3, <1>4 DEF RemoveDirectory, At, Base, Types

LEMMA ReturnEffect ==
    ASSUME Base, NEW t \in Threads, Return(t)
    PROVE  /\ UNCHANGED <<meta, ids, seq, dirs, lock, crashes>>
           /\ \A u \in Threads \ {t} : pc'[u] = pc[u] /\ loc'[u] = loc[u]
           /\ pc[t] = "remove" /\ pc'[t] = "idle"
           /\ loc[t].rm = {} /\ loc'[t] = Blank
  BY DEF Return, At, Goto, Base, Types, TypeOK

LEMMA CommitEffect ==
    ASSUME Base, NEW t \in Threads, Commit(t)
    PROVE  UNCHANGED <<seq, dirs, lock, crashes, pc, loc>> /\ lock = NoThread /\ Live' = Live
  <1>1. PICK n \in Names, c \in Names :
            /\ lock = NoThread
            /\ CommitResult(meta, n, c) = "ok"
            /\ ids' = Put(Restrict(ids, DOMAIN ids \ {n}), c, ids[n])
            /\ UNCHANGED <<seq, dirs, lock, crashes, pc, loc>>
    BY DEF Commit
  <1>2. n \in DOMAIN ids /\ c \notin DOMAIN ids /\ n # c
    BY <1>1 DEF CommitResult, Base, Types, TypeOK
  <1>3. /\ DOMAIN ids' = (DOMAIN ids \ {n}) \cup {c}
        /\ \A m \in DOMAIN ids \ {n} : ids'[m] = ids[m]
        /\ ids'[c] = ids[n]
    BY <1>1, <1>2 DEF Put, Restrict
  <1>4. QED
    BY <1>1, <1>2, <1>3 DEF Live

LEMMA WriteEffect ==
    ASSUME Base, Write
    PROVE  /\ UNCHANGED <<meta, ids, seq, lock, crashes, pc, loc>>
           /\ DOMAIN dirs' = DOMAIN dirs
           /\ \A d \in DOMAIN dirs : /\ dirs'[d].whole = dirs[d].whole
                                     /\ d \notin Live => dirs'[d] = dirs[d]
  <1>1. PICK n \in DOMAIN meta, x \in Changes :
            /\ dirs' = [dirs EXCEPT ![ids[n]].diff = @ \cup {x}]
            /\ UNCHANGED <<meta, ids, seq, lock, crashes, pc, loc>>
    BY DEF Write
  <1>2. ids[n] \in Live
    BY DEF Live, Base, Types, TypeOK
  <1>3. QED
    BY <1>1, <1>2 DEF Base, Types, TypeOK

-----------------------------------------------------------------------------
(* Every directory is accounted for.                                       *)

LEMMA CreateBeginTidy ==
    ASSUME Tidy, NEW t \in Threads, CreateBegin(t)
    PROVE  OneByOne' /\ Accounted' /\ Healing'
  <1>1. /\ UNCHANGED <<ids, seq, crashes>>
        /\ DOMAIN dirs' = DOMAIN dirs \cup {TempDir(t)}
        /\ dirs'[TempDir(t)] = New
        /\ \A d \in DOMAIN dirs : d # TempDir(t) => dirs'[d] = dirs[d]
        /\ \A u \in Threads \ {t} : pc'[u] = pc[u] /\ loc'[u] = loc[u]
        /\ pc[t] = "idle" /\ loc[t].rm = {} /\ loc[t].cur = {} /\ loc'[t].cur = {}
        /\ \/ pc'[t] = "rename"
           \/ pc'[t] = "remove" /\ TempDir(t) \in loc'[t].rm /\ loc'[t].name = NoParent
    BY CreateBeginEffect, BlankFacts DEF Tidy
  <1>2. OneByOne'
    BY <1>1 DEF Tidy, OneByOne
  <1>3. \A d : Claimed(d) => Claimed(d)'
    BY <1>1 DEF Claimed, At, TempDir, NextDir
  <1>4. \A d : Sweeping(d)' <=> Sweeping(d)
    BY <1>1 DEF Sweeping
  <1>5. Claimed(TempDir(t))'
    BY <1>1 DEF Claimed, At, TempDir
  <1>6. \A d \in DOMAIN dirs : d # TempDir(t) => (Whole(d)' <=> Whole(d))
    BY <1>1 DEF Whole
  <1>7. Live' = Live
    BY <1>1 DEF Live
  <1>8. Accounted'
    BY <1>1, <1>3, <1>4, <1>5, <1>6, <1>7 DEF Tidy, Accounted, TempDir
  <1>9. Healing'
    BY <1>1, <1>3, <1>4, DirsDiffer DEF Tidy, Healing, NextDir, At
  <1>10. QED
    BY <1>2, <1>8, <1>9

LEMMA CreateRenameTidy ==
    ASSUME Tidy, NEW t \in Threads, CreateRename(t)
    PROVE  OneByOne' /\ Accounted' /\ Healing'
  <1>1. /\ UNCHANGED <<ids, seq, crashes>>
        /\ pc[t] = "rename"
        /\ \A u \in Threads \ {t} : pc'[u] = pc[u] /\ loc'[u] = loc[u]
        /\ loc[t].rm = {} /\ loc[t].cur = {} /\ loc'[t].cur = {}
        /\ \/ /\ pc'[t] = "commit"
              /\ DOMAIN dirs' = (DOMAIN dirs \ {TempDir(t)}) \cup {NextDir}
              /\ \A d \in DOMAIN dirs' : d # NextDir => dirs'[d] = dirs[d]
           \/ /\ pc'[t] = "remove"
              /\ loc'[t].rm = {TempDir(t), NextDir} /\ dirs' = dirs
    BY CreateRenameEffect DEF Tidy
  <1>2. OneByOne'
    BY <1>1 DEF Tidy, OneByOne
  <1>3. \A d : Claimed(d) => Claimed(d)' \/ d \notin DOMAIN dirs'
    BY <1>1, DirsDiffer DEF Claimed, At, TempDir, NextDir
  <1>4. \A d : Sweeping(d)' <=> Sweeping(d)
    BY <1>1 DEF Sweeping
  <1>5. Claimed(NextDir)' /\ NextDir' = NextDir
    BY <1>1 DEF Claimed, At, NextDir
  <1>6. \A d \in DOMAIN dirs' : d # NextDir => (Whole(d)' <=> Whole(d))
    BY <1>1 DEF Whole
  <1>7. Live' = Live
    BY <1>1 DEF Live
  <1>8. Accounted'
    BY <1>1, <1>3, <1>4, <1>5, <1>6, <1>7 DEF Tidy, Accounted
  <1>9. Healing'
    BY <1>5 DEF Healing, NextDir
  <1>10. QED
    BY <1>2, <1>8, <1>9

LEMMA CreateCommitTidy ==
    ASSUME Tidy, NEW t \in Threads, CreateCommit(t)
    PROVE  OneByOne' /\ Accounted' /\ Healing'
  <1>1. /\ UNCHANGED <<dirs, crashes>>
        /\ pc[t] = "commit"
        /\ \A u \in Threads \ {t} : pc'[u] = pc[u] /\ loc'[u] = loc[u]
        /\ \A u \in Threads \ {t} : pc[u] # "commit" /\ pc[u] # "rename"
        /\ loc[t].rm = {} /\ loc[t].cur = {} /\ loc'[t].cur = {}
        /\ \/ pc'[t] = "idle" /\ loc'[t].rm = {} /\ seq' = seq + 1 /\ Live' = Live \cup {NextDir}
           \/ pc'[t] = "remove" /\ loc'[t].rm = {NextDir} /\ UNCHANGED <<seq, ids>>
    BY CreateCommitEffect, BlankFacts DEF Tidy, Base, Types, TypeOK, At
  <1>2. OneByOne'
    BY <1>1 DEF Tidy, OneByOne
  <1>3. \A d : Claimed(d) => Claimed(d)' \/ d \in Live'
    BY <1>1 DEF Claimed, At, TempDir
  <1>4. \A d : Sweeping(d)' <=> Sweeping(d)
    BY <1>1 DEF Sweeping
  <1>5. \A d : Whole(d)' <=> Whole(d)
    BY <1>1 DEF Whole
  <1>6. Live \subseteq Live'
    BY <1>1 DEF Live
  <1>7. Accounted'
    BY <1>1, <1>3, <1>4, <1>5, <1>6 DEF Tidy, Accounted
  <1>8. Healing'
    <2>1. CASE seq' = seq + 1
      BY <1>1, <2>1 DEF Healing, NextDir, Tidy, Base, Types, TypeOK, Numbers
    <2>2. CASE pc'[t] = "remove" /\ loc'[t].rm = {NextDir} /\ UNCHANGED <<seq, ids>>
      <3>1. Claimed(NextDir)'
        BY <1>1, <2>2 DEF Claimed, At, NextDir
      <3>2. QED
        BY <3>1 DEF Healing
    <2>3. QED
      BY <1>1, <2>1, <2>2
  <1>9. QED
    BY <1>2, <1>7, <1>8

LEMMA RemoveBeginTidy ==
    ASSUME Tidy, NEW t \in Threads, RemoveBegin(t)
    PROVE  OneByOne' /\ Accounted' /\ Healing'
  <1>1. /\ UNCHANGED <<seq, dirs, crashes>>
        /\ \A u \in Threads \ {t} : pc'[u] = pc[u] /\ loc'[u] = loc[u]
        /\ pc[t] = "idle" /\ loc[t].rm = {} /\ loc[t].cur = {}
        /\ pc'[t] = "remove" /\ loc'[t].cur = {}
        /\ Live' \subseteq Live
        /\ loc'[t].rm = DOMAIN dirs \ Live'
    BY RemoveBeginEffect, BlankFacts DEF Tidy
  <1>2. OneByOne'
    BY <1>1 DEF Tidy, OneByOne
  <1>3. \A d \in DOMAIN dirs' \ Live' : Claimed(d)'
    BY <1>1 DEF Claimed
  <1>4. Accounted'
    BY <1>3 DEF Accounted
  <1>5. NextDir' \notin Live'
    BY <1>1, DirsTyped DEF Tidy, NextDir
  <1>6. Healing'
    BY <1>3, <1>5 DEF Healing
  <1>7. QED
    BY <1>2, <1>4, <1>6

LEMMA RemoveContentsTidy ==
    ASSUME Tidy, NEW t \in Threads, RemoveContents(t)
    PROVE  OneByOne' /\ Accounted' /\ Healing'
  <1>1. /\ UNCHANGED <<meta, ids, seq, crashes, pc>>
        /\ \A u \in Threads \ {t} : loc'[u] = loc[u]
        /\ loc[t].cur = {}
        /\ loc'[t].rm = loc[t].rm /\ loc'[t].name = loc[t].name
        /\ DOMAIN dirs' = DOMAIN dirs
    BY RemoveContentsEffect DEF Tidy
  <1>2. PICK d \in loc[t].rm :
            /\ loc'[t].cur = {d}
            /\ ~ Whole(d)'
            /\ \A e \in DOMAIN dirs \ {d} : dirs'[e] = dirs[e]
    BY RemoveContentsEffect DEF Tidy
  <1>3. OneByOne'
    BY <1>1, <1>2 DEF Tidy, OneByOne
  <1>4. \A e : e # d /\ Claimed(e) => Claimed(e)'
    BY <1>1, <1>2 DEF Claimed, At, TempDir, NextDir
  <1>5. Sweeping(d)' /\ \A e : e # d => (Sweeping(e)' <=> Sweeping(e))
    BY <1>1, <1>2 DEF Sweeping
  <1>6. \A e : e # d => (Whole(e)' <=> Whole(e))
    BY <1>1, <1>2 DEF Whole
  <1>7. Live' = Live
    BY <1>1 DEF Live
  <1>8. Accounted'
    BY <1>1, <1>2, <1>4, <1>5, <1>6, <1>7 DEF Tidy, Accounted
  <1>9. Healing'
    <2>1. \A u \in Threads : loc'[u].name = loc[u].name
      BY <1>1
    <2>2. QED
      BY <1>1, <1>4, <1>5, <2>1 DEF Tidy, Healing, NextDir, At
  <1>10. QED
    BY <1>3, <1>8, <1>9

LEMMA RemoveDirectoryTidy ==
    ASSUME Tidy, NEW t \in Threads, RemoveDirectory(t)
    PROVE  OneByOne' /\ Accounted' /\ Healing'
  <1>1. /\ UNCHANGED <<meta, ids, seq, crashes, pc>>
        /\ \A u \in Threads \ {t} : loc'[u] = loc[u]
        /\ loc'[t].cur = {} /\ loc'[t].name = loc[t].name
    BY RemoveDirectoryEffect DEF Tidy
  <1>2. PICK d \in loc[t].cur :
            /\ loc'[t].rm = loc[t].rm \ {d}
            /\ \/ Whole(d) /\ dirs' = dirs
               \/ ~ Whole(d) /\ DOMAIN dirs' = DOMAIN dirs \ {d}
            /\ \A e \in DOMAIN dirs' : dirs'[e] = dirs[e]
    BY RemoveDirectoryEffect DEF Tidy
  <1>3. loc[t].cur = {d}
    BY DEF Tidy, OneByOne
  <1>4. OneByOne'
    BY <1>1, <1>2 DEF Tidy, OneByOne
  <1>5. \A e : Claimed(e) => Claimed(e)'
    BY <1>1, <1>2, <1>3 DEF Claimed, At, TempDir, NextDir
  <1>6. \A e : (Sweeping(e)' => Sweeping(e)) /\ (e # d => (Sweeping(e) => Sweeping(e)'))
    BY <1>1, <1>3 DEF Sweeping
  <1>7. \A e \in DOMAIN dirs' : Whole(e)' <=> Whole(e)
    BY <1>2 DEF Whole
  <1>8. Live' = Live /\ NextDir' = NextDir
    BY <1>1 DEF Live, NextDir
  <1>9. d \in DOMAIN dirs' \ Live => Claimed(d)
    BY <1>2 DEF Tidy, Accounted, Sweeping
  <1>10. DOMAIN dirs' \subseteq DOMAIN dirs
    BY <1>2
  <1>11. Accounted'
    BY <1>1, <1>5, <1>6, <1>7, <1>8, <1>9, <1>10 DEF Tidy, Accounted
  <1>12. Healing'
    <2>1. NextDir \notin Live
      BY DirsTyped DEF Tidy
    <2>2. \A u \in Threads : loc'[u].name = loc[u].name
      BY <1>1
    <2>3. QED
      BY <1>1, <1>5, <1>6, <1>8, <1>9, <1>10, <2>1, <2>2 DEF Tidy, Healing, At
  <1>13. QED
    BY <1>4, <1>11, <1>12

LEMMA ReturnTidy ==
    ASSUME Tidy, NEW t \in Threads, Return(t)
    PROVE  OneByOne' /\ Accounted' /\ Healing'
  <1>1. /\ UNCHANGED <<meta, ids, seq, dirs, lock, crashes>>
        /\ \A u \in Threads \ {t} : pc'[u] = pc[u] /\ loc'[u] = loc[u]
        /\ pc[t] = "remove" /\ pc'[t] = "idle"
        /\ loc[t].rm = {} /\ loc[t].cur = {} /\ loc'[t].rm = {} /\ loc'[t].cur = {}
    BY ReturnEffect, BlankFacts DEF Tidy, OneByOne
  <1>2. OneByOne'
    BY <1>1 DEF Tidy, OneByOne
  <1>3. \A d : Claimed(d) => Claimed(d)'
    BY <1>1 DEF Claimed, At, TempDir, NextDir
  <1>4. \A d : Sweeping(d)' <=> Sweeping(d)
    BY <1>1 DEF Sweeping
  <1>5. Live' = Live /\ \A d : Whole(d)' <=> Whole(d)
    BY <1>1 DEF Live, Whole
  <1>6. Accounted'
    BY <1>1, <1>3, <1>4, <1>5 DEF Tidy, Accounted
  <1>7. Healing'
    BY <1>1, <1>3, <1>4 DEF Tidy, Healing, At, NextDir
  <1>8. QED
    BY <1>2, <1>6, <1>7

LEMMA NextTidy ==
    ASSUME Tidy, [Next]_vars
    PROVE  Tidy'
  <1>1. Base'
    BY NextBase DEF Tidy
  <1>2. CASE UNCHANGED vars
    BY <1>1, <1>2 DEF vars, Tidy, OneByOne, Accounted, Healing, Claimed, Sweeping,
       Whole, Live, At, NextDir, TempDir
  <1>3. ASSUME NEW t \in Threads, Step(t)
        PROVE  Tidy'
    <2>1. CASE Commit(t)
      <3>1. UNCHANGED <<seq, dirs, lock, crashes, pc, loc>> /\ Live' = Live
        BY <2>1, CommitEffect DEF Tidy
      <3>2. QED
        BY <1>1, <3>1 DEF Tidy, OneByOne, Accounted, Healing, Claimed, Sweeping,
           Whole, At, NextDir, TempDir
    <2>2. QED
      BY <1>1, <1>3, <2>1, CreateBeginTidy, CreateRenameTidy, CreateCommitTidy,
         RemoveBeginTidy, RemoveContentsTidy, RemoveDirectoryTidy, ReturnTidy
         DEF Step, Tidy
  <1>4. CASE Write
    <2>1. /\ UNCHANGED <<meta, ids, seq, lock, crashes, pc, loc>>
          /\ DOMAIN dirs' = DOMAIN dirs
          /\ \A d \in DOMAIN dirs : dirs'[d].whole = dirs[d].whole
      BY <1>4, WriteEffect DEF Tidy
    <2>2. Live' = Live /\ \A d : Whole(d)' <=> Whole(d)
      BY <2>1 DEF Live, Whole
    <2>3. (\A d : Claimed(d)' <=> Claimed(d)) /\ (\A d : Sweeping(d)' <=> Sweeping(d))
      BY <2>1 DEF Claimed, Sweeping, At, NextDir, TempDir
    <2>4. QED
      BY <1>1, <2>1, <2>2, <2>3 DEF Tidy, OneByOne, Accounted, Healing, At, NextDir
  <1>5. CASE Crash
    <2>1. /\ crashes' > 0
          /\ \A u \in Threads : pc'[u] = "idle" /\ loc'[u].cur = {}
      BY <1>5, BlankFacts DEF Crash, Tidy, Base, Types
    <2>2. QED
      BY <1>1, <2>1 DEF Tidy, OneByOne, Accounted, Healing, Sweeping, At
  <1>6. QED
    BY <1>2, <1>3, <1>4, <1>5 DEF Next

-----------------------------------------------------------------------------
(* Every snapshot has its directory, in the cases the driver holds up in.  *)

LEMMA ShelterFacts ==
    ASSUME Shelter
    PROVE  /\ seq \in Nat /\ NextDir \notin Live
           /\ \A t, u \in Threads : lock = t /\ lock = u => t = u
           /\ \A t \in Threads : lock = t <=> At(t, "rename") \/ At(t, "commit")
           /\ \A t \in Threads : lock = t => loc[t].rm = {}
           /\ \A n \in DOMAIN meta : ids[n] \in Live
           /\ Live \subseteq DOMAIN dirs
  BY DirsTyped DEF Shelter, Base, Types, TypeOK, Positions, Live, Backed,
     DirectoriesBacked, Whole

LEMMA CreateBeginShelter ==
    ASSUME Sheltered, Shelter, NEW t \in Threads, CreateBegin(t)
    PROVE  (Quiet => Fresh') /\ Backed'
  <1>1. /\ UNCHANGED <<meta, ids, seq, crashes>>
        /\ lock = NoThread /\ lock' \in {t, NoThread}
        /\ DOMAIN dirs' = DOMAIN dirs \cup {TempDir(t)}
        /\ \A d \in DOMAIN dirs : d # TempDir(t) => dirs'[d] = dirs[d]
        /\ \A u \in Threads \ {t} : pc'[u] = pc[u] /\ loc'[u] = loc[u]
        /\ pc[t] = "idle" /\ pc'[t] # "commit"
        /\ \/ lock' = t /\ loc'[t].rm = {}
           \/ lock' = NoThread /\ loc'[t].rm = {TempDir(t)}
    BY CreateBeginEffect DEF Shelter
  <1>2. Live' = Live /\ NextDir' = NextDir
    BY <1>1 DEF Live, NextDir
  <1>3. TempDir(t) \notin Live
    BY DirsTyped DEF Shelter
  <1>4. \A d \in Live : Whole(d)' <=> Whole(d)
    BY <1>1, <1>3 DEF Whole
  <1>5. Quiet => Fresh'
    BY <1>1, <1>2, DirsDiffer DEF Shelter, Fresh, NextDir, At
  <1>6. DirectoriesBacked'
    BY <1>1, <1>4, ShelterFacts DEF Shelter, Backed, DirectoriesBacked
  <1>7. \A u \in Threads : loc'[u].rm \cap Live = {}
    BY <1>1, <1>3 DEF Shelter, Backed
  <1>8. \A u \in Threads : ~ At(u, "commit")'
    BY <1>1, ThreadsAssumption, ShelterFacts DEF At
  <1>9. ASSUME NEW u \in Threads, NEW v \in Threads, lock' = u
        PROVE  NextDir \notin loc'[v].rm
    <2>1. u = t /\ loc'[t].rm = {}
      BY <1>1, <1>9, ThreadsAssumption
    <2>2. CASE Quiet
      BY <1>1, <2>1, <2>2, ShelterFacts DEF Shelter, Fresh, NextDir
    <2>3. CASE \A x, y \in Threads : x = y
      BY <2>1, <2>3
    <2>4. QED
      BY <2>2, <2>3 DEF Sheltered
  <1>10. QED
    BY <1>2, <1>5, <1>6, <1>7, <1>8, <1>9 DEF Backed

LEMMA CreateRenameShelter ==
    ASSUME Sheltered, Shelter, NEW t \in Threads, CreateRename(t)
    PROVE  (Quiet => Fresh') /\ Backed'
  <1>1. /\ UNCHANGED <<meta, ids, seq, crashes>>
        /\ pc[t] = "rename" /\ lock = t
        /\ \A u \in Threads \ {t} : pc'[u] = pc[u] /\ loc'[u] = loc[u]
        /\ loc[t].rm = {}
        /\ \/ /\ pc'[t] = "commit" /\ lock' = t /\ loc' = loc
              /\ DOMAIN dirs' = (DOMAIN dirs \ {TempDir(t)}) \cup {NextDir}
              /\ dirs'[NextDir] = New
              /\ \A d \in DOMAIN dirs' : d # NextDir => dirs'[d] = dirs[d]
           \/ /\ pc'[t] = "remove" /\ lock' = NoThread
              /\ loc'[t].rm = {TempDir(t), NextDir} /\ dirs' = dirs
              /\ NextDir \in DOMAIN dirs
    BY CreateRenameEffect DEF Shelter
  <1>2. Live' = Live /\ NextDir' = NextDir
    BY <1>1 DEF Live, NextDir
  <1>3. TempDir(t) \notin Live /\ NextDir \notin Live
    BY DirsTyped DEF Shelter
  <1>4. \A u \in Threads \ {t} : ~ At(u, "commit") /\ lock # u
    BY <1>1, ShelterFacts
  <1>5. CASE /\ pc'[t] = "commit" /\ lock' = t /\ loc' = loc
             /\ DOMAIN dirs' = (DOMAIN dirs \ {TempDir(t)}) \cup {NextDir}
             /\ dirs'[NextDir] = New
             /\ \A d \in DOMAIN dirs' : d # NextDir => dirs'[d] = dirs[d]
    <2>1. \A d \in Live : Whole(d) => Whole(d)'
      BY <1>3, <1>5 DEF Whole
    <2>2. DirectoriesBacked'
      BY <1>1, <2>1, ShelterFacts DEF Shelter, Backed, DirectoriesBacked
    <2>3. Whole(NextDir)'
      BY <1>2, <1>5 DEF Whole, New
    <2>4. Backed'
      BY <1>1, <1>2, <1>4, <1>5, <2>2, <2>3 DEF Shelter, Backed, At
    <2>5. Quiet => Fresh'
      BY <1>1, <1>2, <1>5 DEF Shelter, Fresh, At
    <2>6. QED
      BY <2>4, <2>5
  <1>6. CASE /\ pc'[t] = "remove" /\ lock' = NoThread
             /\ loc'[t].rm = {TempDir(t), NextDir} /\ dirs' = dirs
             /\ NextDir \in DOMAIN dirs
    <2>1. ~ Quiet
      BY <1>1, <1>4, <1>6 DEF Shelter, Fresh, At
    <2>2. \A u \in Threads : ~ At(u, "commit")' /\ lock' # u
      BY <1>1, <1>4, <1>6, ThreadsAssumption DEF At
    <2>3. DirectoriesBacked'
      BY <1>1, <1>6 DEF Shelter, Backed, DirectoriesBacked, Whole
    <2>4. \A u \in Threads : loc'[u].rm \cap Live = {}
      BY <1>1, <1>3, <1>6 DEF Shelter, Backed
    <2>5. QED
      BY <1>2, <2>1, <2>2, <2>3, <2>4 DEF Backed
  <1>7. QED
    BY <1>1, <1>5, <1>6

LEMMA CreateCommitShelter ==
    ASSUME Sheltered, Shelter, NEW t \in Threads, CreateCommit(t)
    PROVE  (Quiet => Fresh') /\ Backed'
  <1>1. /\ UNCHANGED <<dirs, crashes>>
        /\ pc[t] = "commit" /\ lock = t /\ lock' = NoThread
        /\ \A u \in Threads \ {t} : pc'[u] = pc[u] /\ loc'[u] = loc[u]
        /\ loc[t].rm = {} /\ pc'[t] # "commit"
        /\ \/ /\ loc'[t].rm = {}
              /\ meta' = Created(meta, loc[t].kind, loc[t].name, loc[t].parent, NoLabel)
              /\ ids' = Put(ids, loc[t].name, NextDir)
              /\ seq' = seq + 1
              /\ Live' = Live \cup {NextDir}
           \/ /\ TxFaults /\ loc'[t].rm = {NextDir}
              /\ UNCHANGED <<meta, ids, seq>>
    BY CreateCommitEffect, BlankFacts DEF Shelter
  <1>2. /\ Whole(NextDir) /\ \A u \in Threads : NextDir \notin loc[u].rm
        /\ NextDir \notin Live /\ seq \in Nat
    BY <1>1, ShelterFacts DEF Shelter, Backed, At
  <1>3. \A d : Whole(d)' <=> Whole(d)
    BY <1>1 DEF Whole
  <1>4. \A u \in Threads : ~ At(u, "commit")' /\ lock' # u
    BY <1>1, ShelterFacts, ThreadsAssumption DEF At
  <1>5. CASE /\ loc'[t].rm = {}
             /\ meta' = Created(meta, loc[t].kind, loc[t].name, loc[t].parent, NoLabel)
             /\ ids' = Put(ids, loc[t].name, NextDir)
             /\ seq' = seq + 1
             /\ Live' = Live \cup {NextDir}
    <2>1. \A n \in DOMAIN meta' : ids'[n] = NextDir \/ (n \in DOMAIN meta /\ ids'[n] = ids[n])
      <3>1. DOMAIN meta' = DOMAIN meta \cup {loc[t].name} /\ DOMAIN ids = DOMAIN meta
        BY <1>5 DEF Created, Put, Shelter, Base, Types, TypeOK
      <3>2. QED
        BY <1>5, <3>1 DEF Put
    <2>2. DirectoriesBacked'
      BY <1>2, <1>3, <2>1 DEF Shelter, Backed, DirectoriesBacked
    <2>3. \A u \in Threads : loc'[u].rm \cap Live' = {}
      BY <1>1, <1>2, <1>5 DEF Shelter, Backed
    <2>4. Backed'
      BY <1>4, <2>2, <2>3 DEF Backed
    <2>5. NextDir' \notin DOMAIN dirs'
      BY <1>1, <1>2, <1>5 DEF Shelter, Base, Numbers, NextDir
    <2>6. Quiet => Fresh'
      BY <1>1, <1>2, <1>5, <2>5 DEF Shelter, Fresh
    <2>7. QED
      BY <2>4, <2>6
  <1>6. CASE /\ TxFaults /\ loc'[t].rm = {NextDir}
             /\ UNCHANGED <<meta, ids, seq>>
    <2>1. ~ Quiet
      BY <1>6 DEF Quiet
    <2>2. Live' = Live
      BY <1>6 DEF Live
    <2>3. DirectoriesBacked'
      BY <1>3, <1>6 DEF Shelter, Backed, DirectoriesBacked
    <2>4. \A u \in Threads : loc'[u].rm \cap Live = {}
      BY <1>1, <1>2, <1>6 DEF Shelter, Backed
    <2>5. QED
      BY <1>4, <2>1, <2>2, <2>3, <2>4 DEF Backed
  <1>7. QED
    BY <1>1, <1>5, <1>6

LEMMA RemoveBeginShelter ==
    ASSUME Sheltered, Shelter, NEW t \in Threads, RemoveBegin(t)
    PROVE  (Quiet => Fresh') /\ Backed'
  <1>1. /\ UNCHANGED <<seq, dirs, crashes>>
        /\ lock = NoThread /\ lock' = NoThread
        /\ \A u \in Threads \ {t} : pc'[u] = pc[u] /\ loc'[u] = loc[u]
        /\ pc[t] = "idle" /\ pc'[t] = "remove"
        /\ Live' \subseteq Live
        /\ loc'[t].rm = DOMAIN dirs \ Live'
        /\ meta' = Removed(meta, loc'[t].name)
        /\ ids' = Restrict(ids, DOMAIN ids \ {loc'[t].name})
    BY RemoveBeginEffect DEF Shelter
  <1>2. /\ DOMAIN meta' \subseteq DOMAIN meta
        /\ \A n \in DOMAIN meta' : ids'[n] = ids[n]
    <2>1. DOMAIN meta' = DOMAIN meta \ {loc'[t].name}
      BY <1>1, RemovedFacts
    <2>2. DOMAIN ids = DOMAIN meta
      BY DEF Shelter, Base, Types, TypeOK
    <2>3. QED
      BY <1>1, <2>1, <2>2 DEF Restrict
  <1>3. \A d : Whole(d)' <=> Whole(d)
    BY <1>1 DEF Whole
  <1>4. \A u \in Threads : ~ At(u, "commit") /\ ~ At(u, "commit")' /\ lock' # u
    BY <1>1, ShelterFacts, ThreadsAssumption DEF At
  <1>5. DirectoriesBacked'
    BY <1>2, <1>3 DEF Shelter, Backed, DirectoriesBacked
  <1>6. \A u \in Threads : loc'[u].rm \cap Live' = {}
    BY <1>1 DEF Shelter, Backed
  <1>7. Backed'
    BY <1>4, <1>5, <1>6 DEF Backed
  <1>8. ASSUME Quiet
        PROVE  Fresh'
    <2>1. NextDir' = NextDir /\ NextDir \notin DOMAIN dirs
      BY <1>1, <1>4, <1>8 DEF Shelter, Fresh, NextDir
    <2>2. \A k \in Nat : Dir(k) \in DOMAIN dirs => k <= seq
      BY <2>1, ShelterFacts DEF Shelter, Base, Numbers, NextDir
    <2>3. QED
      BY <1>1, <1>8, <2>1, <2>2 DEF Shelter, Fresh
  <1>9. QED
    BY <1>7, <1>8

\* The removal proper: none of the directories on a list has a snapshot.
LEMMA SweepShelter ==
    ASSUME Sheltered, Shelter, NEW t \in Threads, RemoveContents(t) \/ RemoveDirectory(t)
    PROVE  (Quiet => Fresh') /\ Backed'
  <1>1. /\ UNCHANGED <<meta, ids, seq, lock, crashes, pc>>
        /\ \A u \in Threads \ {t} : loc'[u] = loc[u]
    BY RemoveContentsEffect, RemoveDirectoryEffect DEF Shelter
  <1>2. /\ \A u \in Threads : loc'[u].rm \subseteq loc[u].rm
        /\ DOMAIN dirs' \subseteq DOMAIN dirs
        /\ \A d \in DOMAIN dirs : d \notin loc[t].rm => d \in DOMAIN dirs' /\ dirs'[d] = dirs[d]
    <2>1. CASE RemoveContents(t)
      BY <1>1, <2>1, RemoveContentsEffect DEF Shelter
    <2>2. CASE RemoveDirectory(t)
      <3>1. PICK d \in loc[t].cur :
                /\ loc'[t].rm = loc[t].rm \ {d}
                /\ \/ Whole(d) /\ dirs' = dirs
                   \/ ~ Whole(d) /\ DOMAIN dirs' = DOMAIN dirs \ {d}
                /\ \A e \in DOMAIN dirs' : dirs'[e] = dirs[e]
        BY <2>2, RemoveDirectoryEffect DEF Shelter
      <3>2. d \in loc[t].rm
        BY DEF Shelter, OneByOne
      <3>3. QED
        BY <1>1, <3>1, <3>2
    <2>3. QED
      BY <2>1, <2>2
  <1>3. Live' = Live /\ NextDir' = NextDir
    BY <1>1 DEF Live, NextDir
  <1>4. \A d \in Live : d \notin loc[t].rm
    BY DEF Shelter, Backed
  <1>5. DirectoriesBacked'
    BY <1>1, <1>2, <1>4, ShelterFacts DEF Shelter, Backed, DirectoriesBacked, Whole
  <1>6. \A u \in Threads : At(u, "commit")' => Whole(NextDir)' /\ dirs'[NextDir] = New
    BY <1>1, <1>2, <1>3, ShelterFacts DEF Shelter, Backed, Whole, At
  <1>7. Backed'
    BY <1>1, <1>2, <1>3, <1>5, <1>6 DEF Shelter, Backed
  <1>8. Quiet => Fresh'
    BY <1>1, <1>2, <1>3 DEF Shelter, Fresh, At
  <1>9. QED
    BY <1>7, <1>8

LEMMA NextShelter ==
    ASSUME Sheltered, Shelter, [Next]_vars
    PROVE  Shelter'
  <1>1. Base'
    BY NextBase DEF Shelter
  <1>2. ASSUME UNCHANGED <<meta, ids, seq, dirs, lock, crashes, pc, loc>>
        PROVE  Shelter'
    BY <1>1, <1>2 DEF Shelter, OneByOne, Fresh, Backed, DirectoriesBacked,
       Whole, Live, At, NextDir
  <1>3. ASSUME NEW t \in Threads, Step(t)
        PROVE  OneByOne'
    <2>1. CASE CreateBegin(t)
      <3>1. loc'[t].cur = {} /\ \A u \in Threads \ {t} : loc'[u] = loc[u]
        BY <2>1, CreateBeginEffect DEF Shelter
      <3>2. QED
        BY <3>1 DEF Shelter, OneByOne
    <2>2. CASE CreateRename(t)
      <3>1. loc'[t].cur = {} /\ \A u \in Threads \ {t} : loc'[u] = loc[u]
        BY <2>2, CreateRenameEffect DEF Shelter
      <3>2. QED
        BY <3>1 DEF Shelter, OneByOne
    <2>3. CASE CreateCommit(t)
      BY <2>3, CreateCommitEffect DEF Shelter, OneByOne
    <2>4. CASE RemoveBegin(t)
      <3>1. loc'[t].cur = {} /\ \A u \in Threads \ {t} : loc'[u] = loc[u]
        BY <2>4, RemoveBeginEffect DEF Shelter
      <3>2. QED
        BY <3>1 DEF Shelter, OneByOne
    <2>5. CASE RemoveContents(t)
      BY <2>5, RemoveContentsEffect DEF Shelter, OneByOne
    <2>6. CASE RemoveDirectory(t)
      BY <2>6, RemoveDirectoryEffect DEF Shelter, OneByOne
    <2>7. CASE Return(t)
      BY <2>7, ReturnEffect, BlankFacts DEF Shelter, OneByOne
    <2>8. CASE Commit(t)
      BY <2>8, CommitEffect DEF Shelter, OneByOne
    <2>9. QED
      BY <1>3, <2>1, <2>2, <2>3, <2>4, <2>5, <2>6, <2>7, <2>8 DEF Step
  <1>4. ASSUME NEW t \in Threads, Step(t)
        PROVE  (Quiet => Fresh') /\ Backed'
    <2>1. CASE Return(t)
      <3>1. /\ UNCHANGED <<meta, ids, seq, dirs, lock, crashes>>
            /\ \A u \in Threads \ {t} : pc'[u] = pc[u] /\ loc'[u] = loc[u]
            /\ pc[t] = "remove" /\ pc'[t] = "idle" /\ loc'[t].rm = {}
        BY <2>1, ReturnEffect, BlankFacts DEF Shelter
      <3>2. Live' = Live /\ NextDir' = NextDir /\ \A d : Whole(d)' <=> Whole(d)
        BY <3>1 DEF Live, NextDir, Whole
      <3>3. DirectoriesBacked'
        BY <3>1, <3>2 DEF Shelter, Backed, DirectoriesBacked
      <3>4. QED
        BY <3>1, <3>2, <3>3 DEF Shelter, Backed, Fresh, At
    <2>2. CASE Commit(t)
      <3>1. UNCHANGED <<seq, dirs, lock, crashes, pc, loc>> /\ Live' = Live
        BY <2>2, CommitEffect DEF Shelter
      <3>2. NextDir' = NextDir /\ \A d : Whole(d)' <=> Whole(d)
        BY <3>1 DEF NextDir, Whole
      <3>3. \A n \in DOMAIN meta' : ids'[n] \in Live'
        BY <1>1 DEF Live, Base, Types, TypeOK
      <3>4. \A d \in Live : Whole(d)
        BY DEF Shelter, Backed, DirectoriesBacked, Live, Base, Types, TypeOK
      <3>5. QED
        BY <3>1, <3>2, <3>3, <3>4 DEF Shelter, Backed, Fresh, DirectoriesBacked, At
    <2>3. QED
      BY <1>4, <2>1, <2>2, CreateBeginShelter, CreateRenameShelter, CreateCommitShelter,
         RemoveBeginShelter, SweepShelter DEF Step
  <1>5. CASE Write
    <2>1. /\ UNCHANGED <<meta, ids, seq, lock, crashes, pc, loc>>
          /\ DOMAIN dirs' = DOMAIN dirs
          /\ \A d \in DOMAIN dirs : /\ dirs'[d].whole = dirs[d].whole
                                    /\ d \notin Live => dirs'[d] = dirs[d]
      BY <1>5, WriteEffect DEF Shelter
    <2>2. Live' = Live /\ NextDir' = NextDir /\ \A d : Whole(d)' <=> Whole(d)
      BY <2>1 DEF Live, NextDir, Whole
    <2>3. \A u \in Threads : At(u, "commit")' => Whole(NextDir)' /\ dirs'[NextDir] = New
      BY <2>1, <2>2, ShelterFacts DEF Shelter, Backed, At, Whole
    <2>4. Backed'
      BY <2>1, <2>2, <2>3 DEF Shelter, Backed, DirectoriesBacked
    <2>5. QED
      BY <1>1, <2>1, <2>2, <2>4 DEF Shelter, OneByOne, Fresh, At
  <1>6. CASE Crash
    <2>1. ~ Quiet
      BY <1>6 DEF Crash, Quiet, Shelter, Base, Types
    <2>2. /\ UNCHANGED <<meta, ids, seq, dirs>> /\ lock' = NoThread
          /\ \A u \in Threads : pc'[u] = "idle" /\ loc'[u].rm = {} /\ loc'[u].cur = {}
      BY <1>6, BlankFacts DEF Crash, Shelter, Base, Types
    <2>3. QED
      BY <1>1, <2>1, <2>2, ThreadsAssumption DEF Shelter, OneByOne, Backed,
         DirectoriesBacked, Whole, At
  <1>7. QED
    BY <1>1, <1>2, <1>3, <1>4, <1>5, <1>6 DEF Next, vars, Shelter

-----------------------------------------------------------------------------
(* The initial state and the theorems.                                     *)

LEMMA InitFacts ==
    ASSUME Init
    PROVE  Tidy /\ Shelter
  <1>1. /\ DOMAIN meta = {} /\ DOMAIN ids = {} /\ DOMAIN dirs = {} /\ Live = {}
        /\ seq = 0 /\ crashes = 0
        /\ \A t \in Threads : pc[t] = "idle" /\ loc[t] = Blank /\ lock # t
    BY ThreadsAssumption DEF Init, Live
  <1>2. TypeOK
    BY <1>1 DEF Init, TypeOK, At
  <1>3. Types
    BY <1>1, <1>2, BlankFacts DEF Init, Types
  <1>4. Base
    BY <1>1, <1>3 DEF Base, Positions, Numbers
  <1>5. QED
    BY <1>1, <1>4, BlankFacts DEF Tidy, Shelter, OneByOne, Accounted, Healing, Fresh,
       Backed, DirectoriesBacked, At

\* A step of one thread leaves the others where they are.
LEMMA StepMoves ==
    ASSUME Base, NEW u \in Threads, Step(u), NEW t \in Threads, u # t
    PROVE  pc'[t] = pc[t]
  <1>1. CASE CreateBegin(u)
    BY <1>1, CreateBeginEffect
  <1>2. CASE CreateRename(u)
    BY <1>2, CreateRenameEffect
  <1>3. CASE CreateCommit(u)
    BY <1>3, CreateCommitEffect
  <1>4. CASE RemoveBegin(u)
    BY <1>4, RemoveBeginEffect
  <1>5. CASE RemoveContents(u) \/ RemoveDirectory(u) \/ Commit(u)
    BY <1>5 DEF RemoveContents, RemoveDirectory, Commit
  <1>6. CASE Return(u)
    BY <1>6, ReturnEffect
  <1>7. QED
    BY <1>1, <1>2, <1>3, <1>4, <1>5, <1>6 DEF Step

LEMMA AlwaysTidy == Spec => []Tidy
  <1>1. Init => Tidy
    BY InitFacts
  <1>2. Tidy /\ [Next]_vars => Tidy'
    BY NextTidy
  <1>3. QED
    BY <1>1, <1>2, PTL DEF Spec

\* The records and the numbers of their directories are well formed, no two
\* snapshots share a directory, and the thread in a transaction is the one
\* that holds the database (CreateSnapshot, Remove and Commit of overlay.go).
THEOREM OverlayTypeOK == Spec => []TypeOK
  <1>1. Tidy => TypeOK
    BY DEF Tidy, Base, Types
  <1>2. QED
    BY AlwaysTidy, <1>1, PTL

\* A directory that belongs to no snapshot is being made or on the list of a
\* call that removes it, unless a crash left it: the deferred clean-up of
\* createSnapshot and getCleanupDirectories between them forget nothing.
THEOREM OverlayNoOrphans == Spec => []NoOrphans
  <1>1. Tidy => NoOrphans
    BY DEF Tidy, OneByOne, Accounted, Claimed, Sweeping, NoOrphans
  <1>2. QED
    BY AlwaysTidy, <1>1, PTL

\* Whatever crashes and failures left, after a Remove, or a Prepare that
\* failed at its rename, the next number has no directory in its way.
THEOREM OverlayHeals == Spec => CleanupHeals
  <1>1. ASSUME Tidy, [Next]_vars, NEW t \in Threads,
               At(t, "remove"), loc[t].name # NoParent,
               pc'[t] = "idle", crashes' = crashes,
               \A u \in Threads \ {t} : At(u, "idle")
        PROVE  NextDir \notin DOMAIN dirs'
    <2>1. ~ Crash
      BY <1>1 DEF Crash, Tidy, Base, Types
    <2>2. ~ Write /\ ~ UNCHANGED vars
      BY <1>1 DEF Write, vars, At
    <2>3. ASSUME NEW u \in Threads, Step(u)
          PROVE  Return(t)
      <3>1. CASE u = t
        BY <1>1, <2>3, <3>1, CreateBeginEffect, CreateRenameEffect, CreateCommitEffect,
           RemoveBeginEffect, RemoveContentsEffect, RemoveDirectoryEffect, CommitEffect
           DEF Step, Tidy, At
      <3>2. CASE u # t
        <4>1. pc'[t] = pc[t]
          BY <1>1, <2>3, <3>2, StepMoves DEF Tidy
        <4>2. QED
          BY <1>1, <4>1 DEF At
      <3>3. QED
        BY <3>1, <3>2
    <2>4. Return(t)
      BY <1>1, <2>1, <2>2, <2>3 DEF Next
    <2>5. loc[t].rm = {} /\ dirs' = dirs
      BY <2>4 DEF Return
    <2>6. \A u \in Threads : loc[u].rm = {} /\ loc[u].cur = {}
      BY <1>1, <2>5, BlankFacts DEF Tidy, OneByOne, Base, Positions, At
    <2>7. ~ Claimed(NextDir) /\ ~ Sweeping(NextDir)
      BY <1>1, <2>6 DEF Claimed, Sweeping, At
    <2>8. QED
      BY <1>1, <2>5, <2>7 DEF Tidy, Healing
  <1>2. Tidy /\ [Next]_vars =>
            [\A t \in Threads :
                At(t, "remove") /\ loc[t].name # NoParent
                   /\ pc'[t] = "idle" /\ crashes' = crashes
                   /\ (\A u \in Threads \ {t} : At(u, "idle")) =>
                    NextDir \notin DOMAIN dirs']_vars
    BY <1>1
  <1>3. QED
    BY AlwaysTidy, <1>2, PTL DEF Spec, CleanupHeals

-----------------------------------------------------------------------------
(* Callers see the snapshots that SnapshotTree promises them.              *)

LEMMA PutIs ==
    ASSUME NEW f, NEW s, NEW n, NEW r,
           f = [m \in DOMAIN f |-> f[m]],
           DOMAIN f = DOMAIN s \cup {n}, f[n] = r,
           \A m \in DOMAIN s \ {n} : f[m] = s[m]
    PROVE  f = Put(s, n, r)
  BY DEF Put

Seen == [n \in DOMAIN meta |-> [meta[n] EXCEPT !.diff = Contents(n)]]

LEMMA DiffReplaced ==
    ASSUME NEW r \in Record, NEW d
    PROVE  [r EXCEPT !.diff = d] =
               [kind |-> r.kind, parent |-> r.parent, label |-> NoLabel, diff |-> d]
  BY DEF Record

AsCommitted(r) == [r EXCEPT !.kind = "committed", !.label = NoLabel]

LEMMA KindReplaced ==
    ASSUME NEW k, NEW p, NEW l, NEW d
    PROVE  AsCommitted([kind |-> k, parent |-> p, label |-> l, diff |-> d]) =
               [kind |-> "committed", parent |-> p, label |-> NoLabel, diff |-> d]
  <1> DEFINE r == [kind |-> k, parent |-> p, label |-> l, diff |-> d]
             q == [r EXCEPT !.kind = "committed"]
  <1>1. q = [kind |-> "committed", parent |-> p, label |-> l, diff |-> d]
    OBVIOUS
  <1> HIDE DEF r, q
  <1>2. [q EXCEPT !.label = NoLabel] =
            [kind |-> "committed", parent |-> p, label |-> NoLabel, diff |-> d]
    BY <1>1
  <1>3. AsCommitted(r) = [q EXCEPT !.label = NoLabel]
    BY Zenon DEF q, AsCommitted
  <1>4. QED
    BY <1>2, <1>3 DEF r

SeenPlainly ==
    Seen = [n \in DOMAIN meta |->
               [kind |-> meta[n].kind, parent |-> meta[n].parent,
                label |-> NoLabel, diff |-> dirs[ids[n]].diff]]

LEMMA SeenFacts == Shelter => SeenPlainly
  <1> SUFFICES ASSUME Shelter
               PROVE  SeenPlainly
    OBVIOUS
  <1>1. \A n \in DOMAIN meta : Contents(n) = dirs[ids[n]].diff
    BY DEF Contents, Shelter, Backed, DirectoriesBacked, Whole
  <1>2. \A n \in DOMAIN meta : meta[n] \in Record
    BY DEF Shelter, Base, Types
  <1>3. ASSUME NEW n \in DOMAIN meta
        PROVE  [meta[n] EXCEPT !.diff = Contents(n)] =
                   [kind |-> meta[n].kind, parent |-> meta[n].parent,
                    label |-> NoLabel, diff |-> dirs[ids[n]].diff]
    <2>1. [meta[n] EXCEPT !.diff = Contents(n)] =
              [kind |-> meta[n].kind, parent |-> meta[n].parent,
               label |-> NoLabel, diff |-> Contents(n)]
      BY <1>2, DiffReplaced
    <2>2. QED
      BY <1>1, <2>1
  <1>4. Seen = [n \in DOMAIN meta |->
                   [kind |-> meta[n].kind, parent |-> meta[n].parent,
                    label |-> NoLabel, diff |-> dirs[ids[n]].diff]]
    BY <1>3, Zenon DEF Seen
  <1>5. QED
    BY <1>4 DEF SeenPlainly

LEMMA SeenFactsNext == Shelter' => SeenPlainly'
  BY SeenFacts, PTL

\* The operators of the instance are those of the two stores.
LEMMA TreeOps ==
    ASSUME NEW s, NEW n, NEW p, NEW c, NEW kind, NEW label, NEW d
    PROVE  /\ Tree!CreateResult(s, n, p) = CreateResult(s, n, p)
           /\ Tree!Created(s, kind, n, p, label) = Created(s, kind, n, p, label)
           /\ Tree!RemoveResult(s, n) = RemoveResult(s, n)
           /\ Tree!Removed(s, n) = Removed(s, n)
           /\ Tree!CommitResult(s, n, c) = CommitResult(s, n, c)
           /\ Tree!Committed(s, n, c, label) = Committed(s, n, c, label)
           /\ Tree!Written(s, n, d) = Written(s, n, d)
  <1>1. Tree!CreateResult(s, n, p) = CreateResult(s, n, p)
    BY DEF Tree!CreateResult, CreateResult
  <1>2. Tree!Created(s, kind, n, p, label) = Created(s, kind, n, p, label)
    BY DEF Tree!Created, Created, Tree!Put, Put
  <1>3. Tree!RemoveResult(s, n) = RemoveResult(s, n)
    BY DEF Tree!RemoveResult, RemoveResult, Tree!HasChild, HasChild
  <1>4. Tree!Removed(s, n) = Removed(s, n)
    BY DEF Tree!Removed, Removed, Tree!Restrict, Restrict
  <1>5. Tree!CommitResult(s, n, c) = CommitResult(s, n, c)
    BY DEF Tree!CommitResult, CommitResult
  <1>6. Tree!Committed(s, n, c, label) = Committed(s, n, c, label)
    BY <1>4 DEF Tree!Committed, Committed, Tree!Put, Put
  <1>7. Tree!Written(s, n, d) = Written(s, n, d)
    BY DEF Tree!Written, Written
  <1>8. QED
    BY <1>1, <1>2, <1>3, <1>4, <1>5, <1>6, <1>7

LEMMA CreateCommitTree ==
    ASSUME Shelter, Shelter', NEW t \in Threads, CreateCommit(t)
    PROVE  Tree!Next \/ UNCHANGED Seen
  <1> DEFINE n == loc[t].name
             p == loc[t].parent
             k == loc[t].kind
  <1>1. CASE /\ meta' = Created(meta, k, n, p, NoLabel)
             /\ ids' = Put(ids, n, NextDir)
             /\ dirs' = dirs
             /\ pc[t] = "commit" /\ lock = t
    <2>1. /\ n \in Names /\ p \in Names \cup {NoParent} /\ k \in {"active", "view"}
          /\ CreateResult(meta, n, p) = "ok" /\ n \notin DOMAIN meta
          /\ dirs[NextDir].diff = {}
      BY <1>1 DEF Shelter, Base, Types, Locals, Positions, CreateResult, Backed, At, New
    <2>2. CreateResult(Seen, n, p) = "ok"
      BY <2>1, SeenFacts DEF CreateResult, SeenPlainly
    <2>3. /\ DOMAIN meta' = DOMAIN meta \cup {n}
          /\ \A m \in DOMAIN meta : m # n /\ meta'[m] = meta[m] /\ ids'[m] = ids[m]
          /\ meta'[n].kind = k /\ meta'[n].parent = p /\ ids'[n] = NextDir
      BY <1>1, <2>1 DEF Created, Put, Shelter, Base, Types, TypeOK
    <2>4. Seen' = Created(Seen, k, n, p, NoLabel)
      <3>1. Seen' = [m \in DOMAIN meta' |->
                        [kind |-> meta'[m].kind, parent |-> meta'[m].parent,
                         label |-> NoLabel, diff |-> dirs'[ids'[m]].diff]]
        BY SeenFactsNext DEF SeenPlainly
      <3>2. \A m \in DOMAIN meta : Seen'[m] = Seen[m]
        BY <1>1, <2>3, <3>1, SeenFacts DEF SeenPlainly
      <3>3. Seen'[n] = [kind |-> k, parent |-> p, label |-> NoLabel, diff |-> {}]
        BY <1>1, <2>1, <2>3, <3>1
      <3>4. DOMAIN Seen = DOMAIN meta /\ DOMAIN Seen' = DOMAIN Seen \cup {n}
        BY <2>3, <3>1, SeenFacts DEF SeenPlainly
      <3>5. Seen' = [m \in DOMAIN Seen' |-> Seen'[m]]
        BY <3>1
      <3>6. QED
        BY <2>1, <3>2, <3>3, <3>4, <3>5, PutIs DEF Created
    <2>5. Tree!CreateResult(Seen, n, p) = "ok" /\ Seen' = Tree!Created(Seen, k, n, p, NoLabel)
      BY <2>2, <2>4, TreeOps
    <2>6. Tree!Create(k, n, p, NoLabel)
      BY <2>5, Zenon DEF Tree!Create, Seen
    <2>7. QED
      BY <2>1, <2>6 DEF Tree!Next
  <1>2. CASE UNCHANGED <<meta, ids, dirs>>
    BY <1>2 DEF Seen, Contents
  <1>3. QED
    BY <1>1, <1>2, CreateCommitEffect DEF Shelter

LEMMA RemoveBeginTree ==
    ASSUME Shelter, Shelter', NEW t \in Threads, RemoveBegin(t)
    PROVE  Tree!Next
  <1>1. PICK n \in Names :
            /\ RemoveResult(meta, n) = "ok"
            /\ meta' = Removed(meta, n)
            /\ ids' = Restrict(ids, DOMAIN ids \ {n})
            /\ dirs' = dirs
    BY DEF RemoveBegin
  <1>2. RemoveResult(Seen, n) = "ok"
    BY <1>1, SeenFacts DEF SeenPlainly, RemoveResult, HasChild
  <1>3. Seen' = Removed(Seen, n)
    <2>1. /\ DOMAIN meta' = DOMAIN meta \ {n}
          /\ \A m \in DOMAIN meta' : meta'[m] = meta[m]
      BY <1>1, RemovedFacts
    <2>2. \A m \in DOMAIN meta' : ids'[m] = ids[m]
      BY <1>1, <2>1 DEF Restrict, Shelter, Base, Types, TypeOK
    <2>3. Seen' = [m \in DOMAIN meta' |->
                      [kind |-> meta'[m].kind, parent |-> meta'[m].parent,
                       label |-> NoLabel, diff |-> dirs'[ids'[m]].diff]]
      BY SeenFactsNext DEF SeenPlainly
    <2>4. DOMAIN Seen = DOMAIN meta /\ DOMAIN Seen' = DOMAIN Seen \ {n}
      BY <2>1, <2>3, SeenFacts DEF SeenPlainly
    <2>5. \A m \in DOMAIN Seen \ {n} : Seen'[m] = Seen[m]
      <3>1. dirs' = dirs
        BY <1>1
      <3>2. QED
        BY <2>1, <2>2, <2>3, <2>4, <3>1, SeenFacts DEF SeenPlainly
    <2>6. Seen' = [m \in DOMAIN Seen' |-> Seen'[m]]
      BY <2>3
    <2>7. QED
      BY <2>4, <2>5, <2>6 DEF Removed, Restrict
  <1>4. Tree!RemoveResult(Seen, n) = "ok" /\ Seen' = Tree!Removed(Seen, n)
    BY <1>2, <1>3, TreeOps
  <1>5. Tree!Remove(n)
    BY <1>4, Zenon DEF Tree!Remove, Seen
  <1>6. QED
    BY <1>5 DEF Tree!Next

LEMMA CommitTree ==
    ASSUME Shelter, Shelter', NEW t \in Threads, Commit(t)
    PROVE  Tree!Next
  <1>1. PICK n \in Names, c \in Names :
            /\ CommitResult(meta, n, c) = "ok"
            /\ meta' = Committed(meta, n, c, NoLabel)
            /\ ids' = Put(Restrict(ids, DOMAIN ids \ {n}), c, ids[n])
            /\ dirs' = dirs
    BY DEF Commit
  <1>2. /\ n \in DOMAIN meta /\ c \notin DOMAIN meta /\ DOMAIN ids = DOMAIN meta
        /\ meta[n] \in Record
    BY <1>1 DEF CommitResult, Shelter, Base, Types, TypeOK
  <1>3. CommitResult(Seen, n, c) = "ok"
    BY <1>1, SeenFacts DEF SeenPlainly, CommitResult
  <1>4. /\ DOMAIN meta' = (DOMAIN meta \ {n}) \cup {c}
        /\ \A m \in DOMAIN meta \ {n} : m # c /\ meta'[m] = meta[m]
        /\ meta'[c] = [meta[n] EXCEPT !.kind = "committed", !.label = NoLabel]
    BY <1>1, <1>2, RemovedFacts DEF Committed, Put
  <1>5. /\ \A m \in DOMAIN meta \ {n} : ids'[m] = ids[m]
        /\ ids'[c] = ids[n]
    BY <1>1, <1>2 DEF Put, Restrict
  <1>6. meta'[c].kind = "committed" /\ meta'[c].parent = meta[n].parent
    BY <1>2, <1>4 DEF Record
  <1>7. Seen' = [m \in DOMAIN meta' |->
                    [kind |-> meta'[m].kind, parent |-> meta'[m].parent,
                     label |-> NoLabel, diff |-> dirs'[ids'[m]].diff]]
    BY SeenFactsNext DEF SeenPlainly
  <1>8. /\ DOMAIN Seen = DOMAIN meta
        /\ DOMAIN Removed(Seen, n) = DOMAIN meta \ {n}
        /\ \A m \in DOMAIN meta \ {n} : Removed(Seen, n)[m] = Seen[m]
    BY SeenFacts, RemovedFacts DEF SeenPlainly
  <1>9. \A m \in DOMAIN meta \ {n} : Seen'[m] = Removed(Seen, n)[m]
    <2>1. dirs' = dirs
      BY <1>1
    <2>2. \A m \in DOMAIN meta \ {n} : Seen'[m] = Seen[m]
      BY <1>4, <1>5, <1>7, <2>1, SeenFacts DEF SeenPlainly
    <2>3. QED
      BY <1>8, <2>2
  <1>10. Seen'[c] = [Seen[n] EXCEPT !.kind = "committed", !.label = NoLabel]
    <2>1. Seen[n] = [kind |-> meta[n].kind, parent |-> meta[n].parent,
                     label |-> NoLabel, diff |-> dirs[ids[n]].diff]
      BY <1>2, SeenFacts DEF SeenPlainly
    <2>2. Seen'[c] = [kind |-> "committed", parent |-> meta[n].parent,
                      label |-> NoLabel, diff |-> dirs[ids[n]].diff]
      BY <1>1, <1>4, <1>5, <1>6, <1>7
    <2>3. AsCommitted(Seen[n]) = Seen'[c]
      BY <2>1, <2>2, KindReplaced
    <2>4. QED
      BY <2>3, Zenon DEF AsCommitted
  <1>11. Seen' = Committed(Seen, n, c, NoLabel)
    <2>1. Seen' = [m \in DOMAIN Seen' |-> Seen'[m]]
      BY <1>7
    <2>2. DOMAIN Seen' = DOMAIN Removed(Seen, n) \cup {c}
      BY <1>4, <1>7, <1>8
    <2>3. QED
      BY <1>8, <1>9, <1>10, <2>1, <2>2, PutIs DEF Committed
  <1>12. Tree!CommitResult(Seen, n, c) = "ok" /\ Seen' = Tree!Committed(Seen, n, c, NoLabel)
    BY <1>3, <1>11, TreeOps
  <1>13. Tree!Commit(n, c, NoLabel)
    BY <1>12, Zenon DEF Tree!Commit, Seen
  <1>14. QED
    BY <1>13 DEF Tree!Next

LEMMA WriteTree ==
    ASSUME Shelter, Shelter', Write
    PROVE  Tree!Next
  <1>1. PICK n \in DOMAIN meta, x \in Changes :
            /\ meta[n].kind = "active"
            /\ dirs' = [dirs EXCEPT ![ids[n]].diff = @ \cup {x}]
            /\ UNCHANGED <<meta, ids>>
    BY DEF Write
  <1>2. /\ n \in Names /\ ids[n] \in DOMAIN dirs
        /\ \A m \in DOMAIN meta \ {n} : ids[m] # ids[n] /\ ids[m] \in DOMAIN dirs
        /\ dirs[ids[n]] \in [whole : BOOLEAN, diff : SUBSET Changes]
    BY <1>1 DEF Shelter, Base, Types, TypeOK, Backed, DirectoriesBacked, Whole
  <1>3. /\ dirs'[ids[n]].diff = dirs[ids[n]].diff \cup {x}
        /\ \A m \in DOMAIN meta \ {n} : dirs'[ids[m]] = dirs[ids[m]]
    BY <1>1, <1>2
  <1>4. Seen' = [m \in DOMAIN meta |->
                    [kind |-> meta[m].kind, parent |-> meta[m].parent,
                     label |-> NoLabel, diff |-> dirs'[ids[m]].diff]]
    BY <1>1, SeenFactsNext DEF SeenPlainly
  <1>5. DOMAIN Seen = DOMAIN meta /\ Seen[n].kind = "active"
    BY <1>1, SeenFacts DEF SeenPlainly
  <1>6. \A m \in DOMAIN meta \ {n} : Seen'[m] = Seen[m]
    BY <1>3, <1>4, SeenFacts DEF SeenPlainly
  <1>7. Seen'[n] = [Seen[n] EXCEPT !.diff = Seen[n].diff \cup {x}]
    <2>1. Seen[n] = [kind |-> meta[n].kind, parent |-> meta[n].parent,
                     label |-> NoLabel, diff |-> dirs[ids[n]].diff]
      BY SeenFacts DEF SeenPlainly
    <2>2. Seen'[n] = [kind |-> meta[n].kind, parent |-> meta[n].parent,
                      label |-> NoLabel, diff |-> dirs[ids[n]].diff \cup {x}]
      BY <1>3, <1>4
    <2>3. QED
      BY <2>1, <2>2
  <1>8. Seen' = Written(Seen, n, {x})
    <2>1. Seen' = [m \in DOMAIN Seen |-> Seen'[m]] /\ Seen = [m \in DOMAIN Seen |-> Seen[m]]
      BY <1>4, <1>5, SeenFacts DEF SeenPlainly
    <2>2. QED
      BY <1>5, <1>6, <1>7, <2>1 DEF Written
  <1>9. Seen' = Tree!Written(Seen, n, {x})
    BY <1>8, TreeOps
  <1>10. Tree!Write(n, {x})
    BY <1>5, <1>9, Zenon DEF Tree!Write, Seen
  <1>11. QED
    BY <1>2, <1>10 DEF Tree!Next

\* Steps that callers do not see: the contents of every directory that has a
\* snapshot stay.
LEMMA HiddenTree ==
    ASSUME Shelter, Shelter', UNCHANGED <<meta, ids>>,
           \A d \in Live : dirs'[d] = dirs[d]
    PROVE  UNCHANGED Seen
  <1>1. Seen' = [n \in DOMAIN meta |->
                    [kind |-> meta[n].kind, parent |-> meta[n].parent,
                     label |-> NoLabel, diff |-> dirs'[ids[n]].diff]]
    BY SeenFactsNext DEF SeenPlainly
  <1>2. \A n \in DOMAIN meta : dirs'[ids[n]] = dirs[ids[n]]
    BY ShelterFacts
  <1>3. QED
    BY <1>1, <1>2, SeenFacts DEF SeenPlainly

LEMMA NextTree ==
    ASSUME Shelter, Shelter', [Next]_vars
    PROVE  Tree!Next \/ UNCHANGED Seen
  <1>1. CASE UNCHANGED vars
    BY <1>1, HiddenTree DEF vars
  <1>2. CASE Crash
    BY <1>2, HiddenTree DEF Crash
  <1>3. CASE Write
    BY <1>3, WriteTree
  <1>4. ASSUME NEW t \in Threads, Step(t)
        PROVE  Tree!Next \/ UNCHANGED Seen
    <2>1. /\ Live \subseteq DOMAIN dirs /\ loc[t].rm \cap Live = {}
          /\ TempDir(t) \notin Live /\ NextDir \notin Live
          /\ loc[t].cur \subseteq loc[t].rm
      BY ShelterFacts, DirsTyped DEF Shelter, Backed, OneByOne
    <2>2. CASE CreateBegin(t)
      BY <2>1, <2>2, CreateBeginEffect, HiddenTree DEF Shelter
    <2>3. CASE CreateRename(t)
      BY <2>1, <2>3, CreateRenameEffect, HiddenTree DEF Shelter
    <2>4. CASE RemoveContents(t)
      BY <2>1, <2>4, RemoveContentsEffect, HiddenTree DEF Shelter
    <2>5. CASE RemoveDirectory(t)
      BY <2>1, <2>5, RemoveDirectoryEffect, HiddenTree DEF Shelter
    <2>6. CASE Return(t)
      BY <2>6, ReturnEffect, HiddenTree DEF Shelter
    <2>7. QED
      BY <1>4, <2>2, <2>3, <2>4, <2>5, <2>6, CreateCommitTree, RemoveBeginTree,
         CommitTree DEF Step
  <1>5. QED
    BY <1>1, <1>2, <1>3, <1>4 DEF Next

LEMMA AlwaysShelter ==
    ASSUME Sheltered
    PROVE  Spec => []Shelter
  <1>1. Init => Shelter
    BY InitFacts
  <1>2. Shelter /\ [Next]_vars => Shelter'
    BY NextShelter
  <1>3. QED
    BY <1>1, <1>2, PTL DEF Spec

\* Where transactions do not fail and the process does not crash, or where
\* calls come one at a time, every snapshot has its directory, untouched by
\* the removals that go on outside of transactions.
THEOREM OverlayBacked ==
    ASSUME Sheltered
    PROVE  Spec => []DirectoriesBacked
  <1>1. Shelter => DirectoriesBacked
    BY DEF Shelter, Backed
  <1>2. QED
    BY AlwaysShelter, <1>1, PTL

\* In the same cases the database and the directories together are the
\* snapshots of SnapshotTree: every step of a call is one of its transactions
\* or hidden from callers.
THEOREM OverlayImplements ==
    ASSUME Sheltered
    PROVE  Spec => TreeSpec
  <1>1. Init => Tree!Init
    <2>1. ASSUME Init
          PROVE  Seen = << >>
      BY <2>1 DEF Init, Seen
    <2>2. QED
      BY <2>1 DEF Tree!Init, Seen
  <1>2. Shelter /\ Shelter' /\ [Next]_vars => Tree!Next \/ UNCHANGED Seen
    BY NextTree
  <1>3. Shelter /\ Shelter' /\ [Next]_vars =>
            [Tree!Next]_[n \in DOMAIN meta |-> [meta[n] EXCEPT !.diff = Contents(n)]]
    BY <1>2 DEF Seen
  <1>4. QED
    BY AlwaysShelter, <1>1, <1>3, PTL DEF Spec, TreeSpec, Tree!Spec
=============================================================================
