--------------------------- MODULE OCIStoreProofs ---------------------------
(***************************************************************************)
(* What the other proofs about the store rest on, for any number of        *)
(* threads, requests, layers and crashes.                                  *)
(*                                                                         *)
(* No interleaving of calls, failures, panics and crashes leaves a         *)
(* snapshot below a parent that is missing or can change.                  *)
(* removeSnapshotsChain relies on the database to refuse to remove a       *)
(* parent.  The other removals (abort of an extraction, clean-up of a      *)
(* diff) do not even look at the result: they are harmless because nothing *)
(* is built on a snapshot that is not committed, and no call commits a     *)
(* snapshot under a temporary name.  That is the strengthening.            *)
(*                                                                         *)
(* The store and the calls in progress have their types, and a part of a   *)
(* call that serves several calls (the unpacking, the removal of a chain,  *)
(* the storing of a record) goes back to the call it was entered from.     *)
(* What is at stake in the types is the rest: that no step of a call works *)
(* on a layer beyond the last one, on the first of no images or on a name  *)
(* that is none, and that neither a mount nor the mounts a call holds are  *)
(* of a snapshot that was removed or renamed meanwhile.                    *)
(***************************************************************************)
EXTENDS OCIStore, SnapshotOpsProofs, SequenceTheorems

-----------------------------------------------------------------------------
(* Parents.                                                                *)

\* Whatever is committed is named by a chain ID.
OnlyChainsCommittedIn(s) ==
    \A n \in DOMAIN s : s[n].kind = "committed" => n[1] = "chain"

IInvIn(s) == ParentsCommittedIn(s) /\ OnlyChainsCommittedIn(s)

IInv == IInvIn(snaps)

\* The transactions that steps of the store make of the snapshotter, and
\* the conditions under which they make them.
Creates(s, t) ==
    \E kind, n, p, label : /\ kind \in {"active", "view"}
                           /\ CreateResult(s, n, p) = "ok"
                           /\ t = Created(s, kind, n, p, label)

Removes(s, t) ==
    \E n : /\ RemoveResult(s, n) = "ok" \/ ~ IsCommitted(s, n)
           /\ t = Removed(s, n)

Commits(s, t) ==
    \E n, c, label : /\ CommitResult(s, n, Chain(c)) = "ok"
                     /\ t = Committed(s, n, Chain(c), label)

Effect(s, t) == Creates(s, t) \/ Removes(s, t) \/ Commits(s, t) \/ SameShape(s, t)

-----------------------------------------------------------------------------
(* The transactions preserve the invariant.                                *)

\* What is not committed has no child, so it may go.
LEMMA RemoveUncommitted ==
    ASSUME NEW s, NEW n, ParentsCommittedIn(s), ~ IsCommitted(s, n)
    PROVE  ParentsCommittedIn(Removed(s, n))
  <1>1. /\ DOMAIN Removed(s, n) = DOMAIN s \ {n}
        /\ \A m \in DOMAIN s \ {n} : Removed(s, n)[m] = s[m]
    BY RemovedFacts
  <1>2. \A m \in DOMAIN s : s[m].parent # NoParent => s[m].parent # n
    BY DEF ParentsCommittedIn
  <1>3. QED
    BY <1>1, <1>2 DEF ParentsCommittedIn, IsCommitted

LEMMA CreatesKeeps ==
    ASSUME NEW s, NEW t, IInvIn(s), Creates(s, t)
    PROVE  IInvIn(t)
  <1>1. PICK kind, n, p, label : /\ kind \in {"active", "view"}
                                 /\ CreateResult(s, n, p) = "ok"
                                 /\ t = Created(s, kind, n, p, label)
    BY DEF Creates
  <1>2. ParentsCommittedIn(t)
    BY <1>1, CreateKeepsParents DEF IInvIn
  <1>3. /\ DOMAIN t = DOMAIN s \cup {n}
        /\ t[n].kind = kind
        /\ \A m \in DOMAIN s \ {n} : t[m] = s[m]
    BY <1>1 DEF Created, Put
  <1>4. OnlyChainsCommittedIn(t)
    BY <1>1, <1>3 DEF IInvIn, OnlyChainsCommittedIn
  <1>5. QED
    BY <1>2, <1>4 DEF IInvIn

LEMMA RemovesKeeps ==
    ASSUME NEW s, NEW t, IInvIn(s), Removes(s, t)
    PROVE  IInvIn(t)
  <1>1. PICK n : /\ RemoveResult(s, n) = "ok" \/ ~ IsCommitted(s, n)
                 /\ t = Removed(s, n)
    BY DEF Removes
  <1>2. ParentsCommittedIn(t)
    BY <1>1, RemoveKeepsParents, RemoveUncommitted DEF IInvIn
  <1>3. /\ DOMAIN t = DOMAIN s \ {n}
        /\ \A m \in DOMAIN s \ {n} : t[m] = s[m]
    BY <1>1, RemovedFacts
  <1>4. QED
    BY <1>2, <1>3 DEF IInvIn, OnlyChainsCommittedIn

LEMMA CommitsKeeps ==
    ASSUME NEW s, NEW t, IInvIn(s), Commits(s, t)
    PROVE  IInvIn(t)
  <1>1. PICK n, c, label : /\ CommitResult(s, n, Chain(c)) = "ok"
                           /\ t = Committed(s, n, Chain(c), label)
    BY DEF Commits
  <1>2. ParentsCommittedIn(t)
    BY <1>1, CommitKeepsParents DEF IInvIn
  <1>3. /\ DOMAIN t = (DOMAIN s \ {n}) \cup {Chain(c)}
        /\ \A m \in (DOMAIN s \ {n}) \ {Chain(c)} : t[m] = s[m]
    BY <1>1 DEF Committed, Put, Removed, Restrict
  <1>4. Chain(c)[1] = "chain"
    BY DEF Chain
  <1>5. QED
    BY <1>2, <1>3, <1>4 DEF IInvIn, OnlyChainsCommittedIn

LEMMA EffectKeeps ==
    ASSUME NEW s, NEW t, IInvIn(s), Effect(s, t)
    PROVE  IInvIn(t)
  <1>1. CASE SameShape(s, t)
    BY <1>1, ShapeKeepsParents DEF IInvIn, OnlyChainsCommittedIn, SameShape
  <1>2. QED
    BY <1>1, CreatesKeeps, RemovesKeeps, CommitsKeeps DEF Effect

-----------------------------------------------------------------------------
(* The steps make no other transactions.                                   *)

\* A temporary name is never committed.
LEMMA TempUncommitted ==
    ASSUME IInv, NEW kind \in TempKinds, NEW t
    PROVE  ~ IsCommitted(snaps, Temp(kind, t))
  <1>1. Temp(kind, t)[1] # "chain"
    BY DEF Temp, TempKinds
  <1>2. QED
    BY <1>1 DEF IInv, IInvIn, OnlyChainsCommittedIn, IsCommitted

LEMMA SameEffect ==
    ASSUME UNCHANGED snaps
    PROVE  Effect(snaps, snaps')
  BY DEF Effect, SameShape

LEMMA WrittenEffect ==
    ASSUME NEW n, NEW d, snaps' = Written(snaps, n, d)
    PROVE  Effect(snaps, snaps')
  BY WriteKeepsShape DEF Effect

LEMMA RelabelledEffect ==
    ASSUME NEW n, NEW label, snaps' = Relabelled(snaps, n, label)
    PROVE  Effect(snaps, snaps')
  BY RelabelKeepsShape DEF Effect

LEMMA CreatedEffect ==
    ASSUME NEW kind \in {"active", "view"}, NEW n, NEW p, NEW label,
           CreateResult(snaps, n, p) = "ok",
           snaps' = Created(snaps, kind, n, p, label)
    PROVE  Effect(snaps, snaps')
  BY DEF Effect, Creates

LEMMA RemovedEffect ==
    ASSUME NEW n, RemoveResult(snaps, n) = "ok" \/ ~ IsCommitted(snaps, n),
           RemoveSnapshot(n)
    PROVE  Effect(snaps, snaps')
  BY DEF Effect, Removes, RemoveSnapshot

LEMMA CommittedEffect ==
    ASSUME NEW n, NEW c, CommitResult(snaps, n, Chain(c)) = "ok",
           CommitSnapshot(n, Chain(c))
    PROVE  Effect(snaps, snaps')
  BY DEF Effect, Commits, CommitSnapshot

LEMMA UnpackEffect ==
    ASSUME IInv, NEW t, UnpackStep(t)
    PROVE  Effect(snaps, snaps')
  <1>1. CASE CheckUnpacked(t)
    BY <1>1, SameEffect DEF CheckUnpacked, store
  <1>2. CASE PrepareLayer(t)
    BY <1>2, SameEffect, CreatedEffect DEF PrepareLayer
  <1>3. CASE ApplyLayer(t)
    BY <1>3, SameEffect, WrittenEffect DEF ApplyLayer
  <1>4. CASE CommitLayer(t)
    BY <1>4, SameEffect, CommittedEffect DEF CommitLayer, UpTo
  <1>5. CASE AbortLayer(t)
    <2>1. ~ IsCommitted(snaps, Extract(t))
      BY TempUncommitted DEF Extract, TempKinds
    <2>2. QED
      BY <1>5, <2>1, SameEffect, RemovedEffect DEF AbortLayer
  <1>6. QED
    BY <1>1, <1>2, <1>3, <1>4, <1>5 DEF UnpackStep

LEMMA RemovalEffect ==
    ASSUME NEW t, RemovalStep(t)
    PROVE  Effect(snaps, snaps')
  <1>1. CASE StatLink(t)
    BY <1>1, SameEffect DEF StatLink, store
  <1>2. CASE RemoveLink(t)
    BY <1>2, SameEffect, RemovedEffect DEF RemoveLink
  <1>3. QED
    BY <1>1, <1>2 DEF RemovalStep

LEMMA MountEffect ==
    ASSUME NEW t, MountStep(t)
    PROVE  Effect(snaps, snaps')
  <1>1. CASE MountCreate(t)
    BY <1>1, SameEffect, CreatedEffect DEF MountCreate
  <1>2. CASE MountUndo(t)
    BY <1>2, SameEffect, RemovedEffect DEF MountUndo
  <1>3. CASE \/ MountLease(t) \/ MountExisting(t) \/ MountAll(t)
             \/ MountFailed(t) \/ UmountLease(t) \/ UmountUnlease(t)
    BY <1>3, SameEffect DEF MountLease, MountExisting, MountAll, MountFailed,
                            UmountLease, UmountUnlease, store
  <1>4. QED
    BY <1>1, <1>2, <1>3 DEF MountStep

LEMMA CommitEffect ==
    ASSUME IInv, NEW t, CommitStep(t)
    PROVE  Effect(snaps, snaps')
  <1>1. CASE DiffLower(t)
    BY <1>1, SameEffect, CreatedEffect DEF DiffLower
  <1>2. CASE DiffView(t)
    BY <1>2, SameEffect, CreatedEffect DEF DiffView
  <1>3. CASE CleanUpper(t)
    <2>1. ~ IsCommitted(snaps, Upper(t))
      BY TempUncommitted DEF Upper, TempKinds
    <2>2. QED
      BY <1>3, <2>1, SameEffect, RemovedEffect DEF CleanUpper
  <1>4. CASE CleanLower(t)
    <2>1. ~ IsCommitted(snaps, Lower(t))
      BY TempUncommitted DEF Lower, TempKinds
    <2>2. QED
      BY <1>4, <2>1, SameEffect, RemovedEffect DEF CleanLower
  <1>5. CASE CommitApply(t)
    BY <1>5, SameEffect, WrittenEffect DEF CommitApply
  <1>6. CASE CommitActive(t)
    BY <1>6, SameEffect, CommittedEffect DEF CommitActive
  <1>7. CASE \/ CommitStat(t) \/ CommitBase(t) \/ DiffStat(t) \/ DiffMounts(t)
             \/ Compare(t) \/ CommitMounts(t) \/ CommitManifest(t) \/ CommitConfig(t)
    BY <1>7, SameEffect DEF CommitStat, CommitBase, DiffStat, DiffMounts, Compare,
                            CommitMounts, CommitManifest, CommitConfig, WriteBlob, store
  <1>8. QED
    BY <1>1, <1>2, <1>3, <1>4, <1>5, <1>6, <1>7 DEF CommitStep

LEMMA ImageEffect ==
    ASSUME NEW t, ImageStep(t)
    PROVE  Effect(snaps, snaps')
  BY SameEffect DEF ImageStep, FetchManifest, FetchChildren, PutUpdate, PutCreate,
                    DeleteGet, DeleteCheck, DeleteImage, store

LEMMA ImportEffect ==
    ASSUME NEW t, ImportStep(t)
    PROVE  Effect(snaps, snaps')
  BY SameEffect DEF ImportStep, Unpacked, Deleted, Undone, store

LEMMA LabelEffect ==
    ASSUME NEW t, LabelStep(t)
    PROVE  Effect(snaps, snaps')
  <1>1. CASE LabelWrite(t)
    BY <1>1, SameEffect, RelabelledEffect DEF LabelWrite
  <1>2. CASE LabelStat(t) \/ Look(t)
    BY <1>2, SameEffect DEF LabelStat, Look, store
  <1>3. QED
    BY <1>1, <1>2 DEF LabelStep

LEMMA BeginEffect ==
    ASSUME NEW t, Begin(t)
    PROVE  Effect(snaps, snaps')
  BY SameEffect DEF Begin, MountStart, UmountStart, CommitStart, FetchStart, RecordStart,
                    UnpackStart, DeleteStart, LabelStart, LookStart, store

LEMMA NextEffect ==
    ASSUME IInv, [Next]_vars
    PROVE  Effect(snaps, snaps')
  <1>1. ASSUME NEW t \in Threads, Step(t)
        PROVE  Effect(snaps, snaps')
    <2>1. CASE Return(t)
      BY <2>1, SameEffect DEF Return
    <2>2. QED
      BY <1>1, <2>1, UnpackEffect, RemovalEffect, MountEffect, CommitEffect,
         ImageEffect, ImportEffect, LabelEffect DEF Step
  <1>2. ASSUME NEW t \in Threads, MountPanic(t)
        PROVE  Effect(snaps, snaps')
    BY <1>2, SameEffect DEF MountPanic, ProcessEnds
  <1>3. CASE UserWrite
    BY <1>3, WrittenEffect DEF UserWrite
  <1>4. CASE Kill \/ Reboot
    BY <1>4, SameEffect DEF Kill, Reboot, ProcessEnds
  <1>5. CASE UNCHANGED vars
    BY <1>5, SameEffect DEF vars
  <1>6. QED
    BY <1>1, <1>2, <1>3, <1>4, <1>5, BeginEffect DEF Next

-----------------------------------------------------------------------------

\* The parent of every snapshot exists and is committed, whatever the calls,
\* their number, their interleaving, their failures and the crashes: a mount
\* never misses a directory below its own.
THEOREM StoreParentsCommitted == Spec => []ParentsCommitted
  <1>1. Init => IInv
    BY DEF Init, IInv, IInvIn, ParentsCommittedIn, OnlyChainsCommittedIn
  <1>2. IInv /\ [Next]_vars => IInv'
    BY NextEffect, EffectKeeps DEF IInv
  <1>3. IInv => ParentsCommitted
    BY DEF IInv, IInvIn, ParentsCommitted
  <1>4. QED
    BY <1>1, <1>2, <1>3, PTL DEF Spec

-----------------------------------------------------------------------------
(* Types.                                                                  *)

Somewhere == Names \cup {NoParent}

Loops == {"none", "unpacked", "deleted", "undone"}
Nexts == {"return", "mount_create", "unpacked", "diff_mounts", "diff_view", "delete_image"}

Locals == [chain : Seq(Layers), i : Nat, cur : Somewhere, par : Somewhere, depth : Int,
           layer : Layers, owns : BOOLEAN, err : BOOLEAN, ref : Refs \cup {NoRef},
           todo : Seq(Images), loop : Loops, errs : BOOLEAN, next : Nexts]

Snapshots == [kind : Kinds, parent : Somewhere, label : Refs \cup {NoRef}, diff : Layers]

\* The parts of calls.
LayerPart  == {"extract", "apply", "commit_layer", "abort_layer"}
UnpackPart == LayerPart \cup {"unpack"}
MountPart  == {"mount_lease", "mount_create", "mount_existing", "mount_all", "mount_undo",
               "mount_failed"}
WalkPart   == {"walk", "walk_remove"}
DeletePart == {"delete", "delete_check", "delete_image"}
DiffPart   == {"commit", "commit_base", "diff", "diff_lower", "diff_mounts", "diff_view",
               "compare", "clean_upper", "clean_lower"}
CommitPart == {"commit_mounts", "commit_apply", "commit_snapshot", "commit_manifest",
               "commit_config"}
FetchPart  == {"fetch", "fetch_children"}
PutPart    == {"put_update", "put_create"}

Importers == {"import", "single"}
Fetchers  == Importers \cup {"pull"}

\* A call is only in parts that it has.
Reaches(p, op) ==
    /\ p \in MountPart => op = "mount"
    /\ p \in {"umount_lease", "umount_unlease"} => op = "umount"
    /\ p \in DiffPart \cup CommitPart => op = "commit"
    /\ p \in UnpackPart => op \in Fetchers \cup {"mount", "commit", "unpack"}
    /\ p \in WalkPart => op \in {"umount", "delete", "single"}
    /\ p \in DeletePart => op \in {"delete", "single"}
    /\ p \in FetchPart => op \in Fetchers
    /\ p \in PutPart => op \in Fetchers \cup {"commit", "create", "update"}
    /\ p = "unpacked" => op \in Importers
    /\ p \in {"deleted", "undone"} => op = "single"
    /\ p = "label_stat" => op = "label"
    /\ p = "label_write" => op \in {"label", "update_labels"}
    /\ p = "look" => op = "look"

\* A common part goes on where its call expects it to.
Follows(p, op, l) ==
    /\ op \notin Importers => l.loop = "none"
    /\ op \in {"commit", "umount", "unpack"} /\ p # "diff_lower" => l.next = "return"
    /\ p = "diff_lower" => l.next \in {"diff_mounts", "diff_view"}
    /\ p \in UnpackPart =>
          /\ op \in Importers => l.loop = "unpacked" /\ l.next = "unpacked"
          /\ op = "mount" => l.next = "mount_create"
          /\ op = "pull" => l.next = "return"
    /\ p \in WalkPart /\ op # "umount" => l.next = "delete_image"
    /\ p \in WalkPart \cup DeletePart /\ op = "single" => l.loop \in {"deleted", "undone"}

\* It has what it works on.
Works(p, r, l) ==
    /\ p \in FetchPart \cup PutPart /\ r.op \in Fetchers => l.todo # << >>
    /\ p \in WalkPart \cup DeletePart /\ r.op = "single" => l.todo # << >>
    /\ r.op \in {"commit", "create", "update", "delete"} => l.todo = << >>
    /\ p \in UnpackPart \cup CommitPart => l.chain # << >>
    /\ p \in PutPart /\ r.op \notin Fetchers => l.chain # << >>
    /\ p = "mount_lease" /\ r.unpack => l.chain # << >>
    /\ p \in LayerPart => l.i \in 1..Len(l.chain)

\* A thread t at p, in the call r, with the local variables l.
Fits(t, p, r, l) ==
    /\ p \in Labels
    /\ l \in Locals
    /\ p = "idle" => r = NoReq /\ l = Blank
    /\ p # "idle" => /\ r \in Requests[t]
                     /\ Reaches(p, r.op)
                     /\ Follows(p, r.op, l)
                     /\ Works(p, r, l)

ThreadsFit ==
    /\ pc = [t \in Threads |-> pc[t]]
    /\ req = [t \in Threads |-> req[t]]
    /\ loc = [t \in Threads |-> loc[t]]
    /\ \A t \in Threads : Fits(t, pc[t], req[t], loc[t])

SnapsTyped(s) ==
    /\ DOMAIN s \subseteq Names
    /\ \A n \in DOMAIN s : s[n] \in Snapshots

ImagesTyped(is) ==
    /\ DOMAIN is \subseteq Refs
    /\ \A r \in DOMAIN is : is[r] \in Chains

\* Mounts, and the mounts calls hold, follow the snapshots.
MountsFollow(s, ms, ds) ==
    /\ ds = [t \in Threads |-> ds[t]]
    /\ ms \subseteq Mounted
    /\ \A m \in ms : m.snap \in DOMAIN s
    /\ \A t \in Threads : ds[t] = Gone \/ ds[t] \in DOMAIN s

Serials == [TempKinds \X Threads -> Nat]

StoreTyped ==
    /\ SnapsTyped(snaps)
    /\ ImagesTyped(images)
    /\ leases \subseteq Names
    /\ MountsFollow(snaps, mounts, dir)
    /\ serial \in Serials

TInv == ThreadsFit /\ StoreTyped

-----------------------------------------------------------------------------
(* Names, calls and local variables.                                       *)

LEMMA NameFacts ==
    /\ NoParent \notin Names
    /\ \A c \in Seq(Layers) : Chain(c) \in Somewhere
    /\ \A c \in Chains : Chain(c) \in Names
    /\ \A kind \in TempKinds, t \in Threads, n \in Nat : <<kind, t, n>> \in Names
  <1>1. NoParent \notin Names
    BY NoParentAssumption DEF Names, ChosenNames, Chains, Chain
  <1>2. \A c \in Chains : Chain(c) \in Names
    BY DEF Names, ChosenNames, Chain
  <1>3. \A c \in Seq(Layers) : Chain(c) \in Somewhere
    BY <1>2, NoParentAssumption DEF Somewhere, Chains
  <1>4. \A kind \in TempKinds, t \in Threads, n \in Nat : <<kind, t, n>> \in Names
    BY DEF Names
  <1>5. QED
    BY <1>1, <1>2, <1>3, <1>4

\* The chains of the layers below the i-th one and up to it.
LEMMA LayerFacts ==
    ASSUME NEW c \in Seq(Layers), NEW i \in 1..Len(c)
    PROVE  /\ c[i] \in Layers
           /\ SubSeq(c, 1, i - 1) \in Seq(Layers)
           /\ SubSeq(c, 1, i) \in Chains
  <1>1. c[i] \in Layers
    BY ElementOfSeq
  <1>2. SubSeq(c, 1, i - 1) \in Seq(Layers)
    BY SubSeqProperties, LenProperties
  <1>3. /\ SubSeq(c, 1, i) \in Seq(Layers)
        /\ Len(SubSeq(c, 1, i)) = i
    BY SubSeqProperties, LenProperties
  <1>4. SubSeq(c, 1, i) # << >>
    BY <1>3, EmptySeq
  <1>5. QED
    BY <1>1, <1>2, <1>3, <1>4 DEF Chains

LEMMA CallFacts ==
    ASSUME NEW t \in Threads, NEW r \in Requests[t]
    PROVE  /\ r # NoReq
           /\ r.op = "mount" => /\ r.name \in ChosenNames
                                /\ r.target \in Targets
                                /\ r.ref \in Refs \cup {NoRef}
                                /\ r.unpack => r.ref # NoRef
           /\ r.op = "umount" => r.name \in Names /\ r.rm \in Int
           /\ r.op = "commit" => r.name \in Names /\ r.ref \in Refs
           /\ r.op \in {"unpack", "delete"} => r.ref \in Refs
           /\ r.op \in Fetchers => r.archive \in Seq(Images) /\ r.archive # << >>
           /\ r.op \in {"create", "update"} => r.ref \in Refs /\ r.chain \in Chains
           /\ r.op \in {"label", "update_labels"} => /\ r.name \in Names
                                                     /\ r.label \subseteq Refs \cup {NoRef}
  <1>1. r \in Calls /\ r # NoReq
    BY RequestsAssumption
  <1>2. r \in MountCall => r.op = "mount" /\ r.name \in ChosenNames /\ r.target \in Targets
                           /\ r.ref \in Refs
    BY DEF MountCall
  <1>3. r \in ScratchCall => r.op = "mount" /\ r.name \in ChosenNames /\ r.target \in Targets
                             /\ r.ref = NoRef /\ ~ r.unpack
    BY DEF ScratchCall
  <1>4. r \in UmountCall => r.op = "umount" /\ r.name \in Names /\ r.rm \in Int
    BY DEF UmountCall
  <1>5. r \in CommitCall => r.op = "commit" /\ r.name \in Names /\ r.ref \in Refs
    BY DEF CommitCall
  <1>6. r \in ImageCall => r.op \in {"unpack", "delete"} /\ r.ref \in Refs
    BY DEF ImageCall
  <1>7. r \in FetchCall => r.op \in Fetchers /\ r.archive \in Seq(Images) /\ r.archive # << >>
    BY DEF FetchCall, Fetchers, Importers
  <1>8. r \in RecordCall => r.op \in {"create", "update"} /\ r.ref \in Refs /\ r.chain \in Chains
    BY DEF RecordCall
  <1>9. r \in LabelCall => /\ r.op \in {"label", "update_labels"}
                           /\ r.name \in Names
                           /\ r.label \subseteq Refs \cup {NoRef}
    BY DEF LabelCall
  <1>10. r \in LookCall => r.op = "look"
    BY DEF LookCall
  <1>11. QED
    BY <1>1, <1>2, <1>3, <1>4, <1>5, <1>6, <1>7, <1>8, <1>9, <1>10, RefsAssumption
    DEF Calls, Fetchers, Importers

LEMMA BlankFacts ==
    /\ Blank \in Locals
    /\ Blank.chain = << >> /\ Blank.i = 0 /\ Blank.cur = NoParent /\ Blank.par = NoParent
    /\ Blank.todo = << >> /\ Blank.loop = "none" /\ Blank.next = "return"
  <1>1. /\ << >> \in Seq(Layers) /\ << >> \in Seq(Images) /\ {} \in Layers
        /\ NoParent \in Somewhere
    BY EmptySeq DEF Layers, Somewhere
  <1>2. QED
    BY <1>1 DEF Blank, Locals, Loops, Nexts

\* What the parts make of the local variables: [Blank or l EXCEPT ...].
LEMMA FinishedFacts ==
    ASSUME NEW o \in BOOLEAN, NEW e \in BOOLEAN,
           NEW l, l = [Blank EXCEPT !.owns = o, !.err = e]
    PROVE  /\ l \in Locals
           /\ l.loop = "none" /\ l.next = "return" /\ l.todo = << >> /\ l.chain = << >>
  BY BlankFacts DEF Locals

LEMMA ContinuedFacts ==
    ASSUME NEW l \in Locals,
           NEW m, m = [l EXCEPT !.next = "return", !.i = 0, !.cur = NoParent,
                                !.par = NoParent, !.depth = 0]
    PROVE  /\ m \in Locals
           /\ m.loop = l.loop /\ m.next = "return" /\ m.todo = l.todo /\ m.chain = l.chain
  <1>1. "return" \in Nexts /\ NoParent \in Somewhere /\ 0 \in Nat /\ 0 \in Int
    BY DEF Nexts, Somewhere
  <1>2. QED
    BY <1>1 DEF Locals

-----------------------------------------------------------------------------
(* Moves of one thread.                                                    *)

LEMMA MoveFits ==
    ASSUME ThreadsFit, NEW t \in Threads, NEW p, NEW r, NEW l, Fits(t, p, r, l),
           pc' = [pc EXCEPT ![t] = p],
           req' = [req EXCEPT ![t] = r],
           loc' = [loc EXCEPT ![t] = l]
    PROVE  ThreadsFit'
  <1>1. /\ pc' = [u \in Threads |-> pc'[u]] /\ pc'[t] = p
        /\ req' = [u \in Threads |-> req'[u]] /\ req'[t] = r
        /\ loc' = [u \in Threads |-> loc'[u]] /\ loc'[t] = l
        /\ \A u \in Threads \ {t} : pc'[u] = pc[u] /\ req'[u] = req[u] /\ loc'[u] = loc[u]
    BY DEF ThreadsFit
  <1>2. \A u \in Threads : Fits(u, pc'[u], req'[u], loc'[u])
    BY <1>1 DEF ThreadsFit
  <1>3. QED
    BY <1>1, <1>2 DEF ThreadsFit, Fits

LEMMA StepFits ==
    ASSUME ThreadsFit, NEW t \in Threads, NEW p, NEW l, Fits(t, p, req[t], l),
           Goto(t, p), loc' = [loc EXCEPT ![t] = l], UNCHANGED req
    PROVE  ThreadsFit'
  <1>1. req' = [req EXCEPT ![t] = req[t]]
    BY DEF ThreadsFit
  <1>2. QED
    BY <1>1, MoveFits DEF Goto

LEMMA GotoFits ==
    ASSUME ThreadsFit, NEW t \in Threads, NEW p, Fits(t, p, req[t], loc[t]),
           Goto(t, p), UNCHANGED <<req, loc>>
    PROVE  ThreadsFit'
  <1>1. loc' = [loc EXCEPT ![t] = loc[t]]
    BY DEF ThreadsFit
  <1>2. QED
    BY <1>1, StepFits

\* A call in progress.
LEMMA Busy ==
    ASSUME ThreadsFit, NEW t \in Threads, pc[t] # "idle"
    PROVE  /\ req[t] \in Requests[t]
           /\ loc[t] \in Locals
           /\ Reaches(pc[t], req[t].op)
           /\ Follows(pc[t], req[t].op, loc[t])
           /\ Works(pc[t], req[t], loc[t])
  BY DEF ThreadsFit, Fits

LEMMA FinishFits ==
    ASSUME ThreadsFit, NEW t \in Threads, pc[t] # "idle", NEW failed \in BOOLEAN,
           Finish(t, failed), UNCHANGED req
    PROVE  ThreadsFit'
  <1> DEFINE l == [Blank EXCEPT !.owns = loc[t].owns, !.err = failed]
  <1>1. req[t] \in Requests[t] /\ loc[t].owns \in BOOLEAN
    BY Busy DEF Locals
  <1>3. /\ l \in Locals
        /\ l.loop = "none" /\ l.next = "return" /\ l.todo = << >> /\ l.chain = << >>
    BY <1>1, FinishedFacts
  <1>4. Goto(t, "return") /\ loc' = [loc EXCEPT ![t] = l]
    BY DEF Finish
  <1> HIDE DEF l
  <1>5. Fits(t, "return", req[t], l)
    <2>1. "return" \in Labels
      BY DEF Labels
    <2>2. Reaches("return", req[t].op)
      BY DEF Reaches, MountPart, DiffPart, CommitPart, UnpackPart, LayerPart, WalkPart,
             DeletePart, FetchPart, PutPart
    <2>3. Follows("return", req[t].op, l)
      BY <1>3 DEF Follows, UnpackPart, LayerPart, WalkPart, DeletePart
    <2>4. Works("return", req[t], l)
      BY <1>3 DEF Works, CommitPart, UnpackPart, LayerPart, WalkPart, DeletePart,
                  FetchPart, PutPart
    <2>5. QED
      BY <1>1, <1>3, <2>1, <2>2, <2>3, <2>4 DEF Fits
  <1>6. QED
    BY <1>4, <1>5, StepFits

LEMMA EndPartFits ==
    ASSUME ThreadsFit, NEW t \in Threads, NEW failed \in BOOLEAN,
           pc[t] \in UnpackPart \cup WalkPart \cup DeletePart,
           EndPart(t, failed), UNCHANGED req
    PROVE  ThreadsFit'
  <1>1. pc[t] # "idle"
    BY DEF UnpackPart, LayerPart, WalkPart, DeletePart
  <1>2. CASE loc[t].loop = "none" /\ Finish(t, failed)
    BY <1>1, <1>2, FinishFits
  <1>3. CASE /\ loc[t].loop # "none"
             /\ Goto(t, loc[t].loop)
             /\ loc' = [loc EXCEPT ![t] = [Blank EXCEPT !.todo = loc[t].todo,
                                                        !.errs = loc[t].errs \/ failed]]
    <2> DEFINE p == loc[t].loop
               e == loc[t].errs \/ failed
               l == [Blank EXCEPT !.todo = loc[t].todo, !.errs = e]
    <2>1. /\ loc[t].todo \in Seq(Images) /\ loc[t].errs \in BOOLEAN /\ p \in Loops
          /\ req[t] \in Requests[t]
          /\ Reaches(pc[t], req[t].op) /\ Follows(pc[t], req[t].op, loc[t])
      BY <1>1, Busy DEF Locals
    <2>2. e \in BOOLEAN
      OBVIOUS
    <2>3. Goto(t, p) /\ loc' = [loc EXCEPT ![t] = l]
      BY <1>3
    <2> HIDE DEF e
    <2>4. /\ l \in Locals
          /\ l.loop = "none" /\ l.next = "return" /\ l.todo = loc[t].todo /\ l.chain = << >>
      BY <2>1, <2>2, BlankFacts DEF Locals
    <2>5. /\ p \in {"unpacked", "deleted", "undone"}
          /\ req[t].op \in Importers
          /\ p # "unpacked" => req[t].op = "single"
      <3>1. p \in {"unpacked", "deleted", "undone"}
        BY <1>3, <2>1 DEF Loops
      <3>2. req[t].op \in Importers
        BY <1>3, <2>1 DEF Follows
      <3>3. CASE pc[t] \in UnpackPart
        BY <2>1, <3>1, <3>2, <3>3 DEF Follows
      <3>4. CASE pc[t] \in WalkPart \cup DeletePart
        BY <2>1, <3>1, <3>2, <3>4 DEF Reaches, Importers
      <3>5. QED
        BY <3>1, <3>2, <3>3, <3>4
    <2> HIDE DEF p, l
    <2>6. Fits(t, p, req[t], l)
      <3>1. p \in Labels
        BY <2>5 DEF Labels
      <3>2. Reaches(p, req[t].op)
        BY <2>5 DEF Reaches, MountPart, DiffPart, CommitPart, UnpackPart, LayerPart, WalkPart,
                    DeletePart, FetchPart, PutPart
      <3>3. Follows(p, req[t].op, l)
        BY <2>4, <2>5 DEF Follows, UnpackPart, LayerPart, WalkPart, DeletePart, Importers
      <3>4. Works(p, req[t], l)
        BY <2>4, <2>5 DEF Works, CommitPart, UnpackPart, LayerPart, WalkPart, DeletePart,
                          FetchPart, PutPart, Importers
      <3>5. p # "idle"
        BY <2>5
      <3>6. QED
        BY <2>1, <2>4, <3>1, <3>2, <3>3, <3>4, <3>5 DEF Fits
    <2>7. QED
      BY <2>3, <2>6, StepFits
  <1>4. QED
    BY <1>2, <1>3 DEF EndPart

LEMMA ContinueFits ==
    ASSUME ThreadsFit, NEW t \in Threads,
           pc[t] \in UnpackPart \cup WalkPart \cup {"diff_lower"},
           Continue(t), UNCHANGED req
    PROVE  ThreadsFit'
  <1> DEFINE p == loc[t].next
             l == [loc[t] EXCEPT !.next = "return", !.i = 0, !.cur = NoParent,
                                 !.par = NoParent, !.depth = 0]
  <1>1. pc[t] # "idle"
    BY DEF UnpackPart, LayerPart, WalkPart
  <1>2. /\ loc[t] \in Locals /\ p \in Nexts /\ req[t] \in Requests[t]
        /\ Reaches(pc[t], req[t].op)
        /\ Follows(pc[t], req[t].op, loc[t])
        /\ Works(pc[t], req[t], loc[t])
    BY <1>1, Busy DEF Locals
  <1>3. /\ l \in Locals
        /\ l.loop = loc[t].loop /\ l.next = "return" /\ l.todo = loc[t].todo
        /\ l.chain = loc[t].chain
    BY <1>2, ContinuedFacts
  <1>4. Goto(t, p) /\ loc' = [loc EXCEPT ![t] = l]
    BY DEF Continue
  <1>5. \/ p = "return"
        \/ p = "mount_create" /\ req[t].op = "mount"
        \/ p = "unpacked" /\ req[t].op \in Importers
        \/ p \in {"diff_mounts", "diff_view"} /\ req[t].op = "commit"
        \/ /\ p = "delete_image" /\ req[t].op \in {"delete", "single"}
           /\ req[t].op = "single" => /\ loc[t].loop \in {"deleted", "undone"}
                                      /\ loc[t].todo # << >>
    <2>1. CASE pc[t] \in UnpackPart
      <3>1. req[t].op \in Importers \cup {"pull", "mount", "commit", "unpack"}
        BY <1>2, <2>1 DEF Reaches, Fetchers
      <3>2. pc[t] # "diff_lower"
        BY <2>1 DEF UnpackPart, LayerPart
      <3>3. QED
        BY <1>2, <2>1, <3>1, <3>2 DEF Follows
    <2>2. CASE pc[t] \in WalkPart
      <3>1. req[t].op \in {"umount", "delete", "single"} /\ pc[t] # "diff_lower"
        BY <1>2, <2>2 DEF Reaches, WalkPart
      <3>2. req[t].op = "umount" => p = "return"
        BY <1>2, <3>1 DEF Follows
      <3>3. req[t].op # "umount" => p = "delete_image"
        BY <1>2, <2>2 DEF Follows
      <3>4. req[t].op = "single" => /\ loc[t].loop \in {"deleted", "undone"}
                                    /\ loc[t].todo # << >>
        BY <1>2, <2>2 DEF Follows, Works
      <3>5. QED
        BY <3>1, <3>2, <3>3, <3>4
    <2>3. CASE pc[t] = "diff_lower"
      BY <1>2, <2>3 DEF Reaches, Follows, DiffPart
    <2>4. QED
      BY <2>1, <2>2, <2>3
  <1>6. /\ req[t].op \notin Importers => l.loop = "none"
        /\ req[t].op \in {"commit", "create", "update", "delete"} => l.todo = << >>
    BY <1>2, <1>3 DEF Follows, Works
  <1> HIDE DEF p, l
  <1>7. Fits(t, p, req[t], l)
    <2>1. p \in Labels /\ p # "idle"
      BY <1>5 DEF Labels
    <2>2. Reaches(p, req[t].op)
      BY <1>5 DEF Reaches, MountPart, DiffPart, CommitPart, UnpackPart, LayerPart, WalkPart,
                  DeletePart, FetchPart, PutPart
    <2>3. Follows(p, req[t].op, l)
      BY <1>3, <1>5, <1>6 DEF Follows, UnpackPart, LayerPart, WalkPart, DeletePart
    <2>4. Works(p, req[t], l)
      BY <1>3, <1>5, <1>6 DEF Works, CommitPart, UnpackPart, LayerPart, WalkPart, DeletePart,
                              FetchPart, PutPart
    <2>5. QED
      BY <1>2, <1>3, <2>1, <2>2, <2>3, <2>4 DEF Fits
  <1>8. QED
    BY <1>4, <1>7, StepFits

-----------------------------------------------------------------------------
(* The loops of an import.                                                 *)

LEMMA ImageFacts ==
    ASSUME NEW todo \in Seq(Images), todo # << >>
    PROVE  /\ Head(todo).ref \in Refs /\ Head(todo).chain \in Chains
           /\ Tail(todo) \in Seq(Images)
           /\ Len(todo) > 1 => Tail(todo) # << >>
           /\ << Head(todo) >> \in Seq(Images) /\ << Head(todo) >> # << >>
  <1>1. /\ Head(todo) \in Images /\ Tail(todo) \in Seq(Images)
        /\ Len(Tail(todo)) = Len(todo) - 1 /\ Len(todo) \in Nat
    BY HeadTailProperties, LenProperties
  <1>2. Head(todo).ref \in Refs /\ Head(todo).chain \in Chains
    BY <1>1 DEF Images
  <1>3. Len(todo) > 1 => Tail(todo) # << >>
    <2>1. Len(todo) > 1 => Len(Tail(todo)) # 0
      BY <1>1
    <2>2. Tail(todo) = << >> => Len(Tail(todo)) = 0
      BY EmptySeq
    <2>3. QED
      BY <2>1, <2>2
  <1>4. << Head(todo) >> \in Seq(Images) /\ << Head(todo) >> # << >>
    BY <1>1
  <1>5. QED
    BY <1>1, <1>2, <1>3, <1>4

LEMMA UnpackFirstFits ==
    ASSUME ThreadsFit, NEW t \in Threads, pc[t] # "idle", req[t].op \in Importers,
           NEW todo \in Seq(Images), todo # << >>, NEW errs \in BOOLEAN,
           UnpackFirst(t, todo, errs), UNCHANGED req
    PROVE  ThreadsFit'
  <1> DEFINE l == [Blank EXCEPT !.chain = Head(todo).chain, !.todo = todo, !.errs = errs,
                                !.loop = "unpacked", !.next = "unpacked"]
  <1>1. Head(todo).chain \in Chains
    BY ImageFacts
  <1>2. /\ l \in Locals
        /\ l.loop = "unpacked" /\ l.next = "unpacked" /\ l.todo = todo
        /\ l.chain = Head(todo).chain
    BY <1>1, BlankFacts DEF Locals, Loops, Nexts, Chains
  <1>3. Goto(t, "unpack") /\ loc' = [loc EXCEPT ![t] = l]
    BY DEF UnpackFirst
  <1>4. req[t] \in Requests[t] /\ l.chain # << >>
    BY <1>1, <1>2, Busy DEF Chains
  <1> HIDE DEF l
  <1>5. Fits(t, "unpack", req[t], l)
    BY <1>2, <1>4 DEF Fits, Labels, Reaches, Follows, Works, Fetchers, Importers,
       MountPart, DiffPart, CommitPart, UnpackPart, LayerPart, WalkPart, DeletePart,
       FetchPart, PutPart
  <1>6. QED
    BY <1>3, <1>5, StepFits

LEMMA DeleteFirstFits ==
    ASSUME ThreadsFit, NEW t \in Threads, pc[t] # "idle", req[t].op = "single",
           NEW todo \in Seq(Images), todo # << >>, NEW errs \in BOOLEAN,
           NEW loop \in {"deleted", "undone"},
           DeleteFirst(t, todo, errs, loop), UNCHANGED req
    PROVE  ThreadsFit'
  <1> DEFINE l == [Blank EXCEPT !.todo = todo, !.errs = errs, !.loop = loop]
  <1>1. l \in Locals /\ l.loop = loop /\ l.todo = todo
    BY BlankFacts DEF Locals, Loops
  <1>2. Goto(t, "delete") /\ loc' = [loc EXCEPT ![t] = l]
    BY DEF DeleteFirst
  <1>3. req[t] \in Requests[t]
    BY Busy
  <1> HIDE DEF l
  <1>4. Fits(t, "delete", req[t], l)
    BY <1>1, <1>3 DEF Fits, Labels, Reaches, Follows, Works, Fetchers, Importers,
       MountPart, DiffPart, CommitPart, UnpackPart, LayerPart, WalkPart, DeletePart,
       FetchPart, PutPart
  <1>5. QED
    BY <1>2, <1>4, StepFits

LEMMA FetchedFits ==
    ASSUME ThreadsFit, NEW t \in Threads, pc[t] # "idle", req[t].op \in Importers,
           Fetched(t), UNCHANGED req
    PROVE  ThreadsFit'
  <1>1. req[t].archive \in Seq(Images) /\ req[t].archive # << >>
    BY Busy, CallFacts DEF Fetchers
  <1>2. CASE req[t].op = "single" /\ Len(req[t].archive) > 1
    <2>1. Tail(req[t].archive) \in Seq(Images) /\ Tail(req[t].archive) # << >>
      BY <1>1, <1>2, ImageFacts
    <2>2. DeleteFirst(t, Tail(req[t].archive), FALSE, "deleted")
      BY <1>2 DEF Fetched
    <2>3. QED
      BY <1>2, <2>1, <2>2, DeleteFirstFits
  <1>3. CASE ~ (req[t].op = "single" /\ Len(req[t].archive) > 1)
    BY <1>3, FinishFits DEF Fetched
  <1>4. QED
    BY <1>2, <1>3

LEMMA ImportFits ==
    ASSUME ThreadsFit, NEW t \in Threads, ImportStep(t)
    PROVE  ThreadsFit'
  <1>1. CASE Unpacked(t)
    <2>1. At(t, "unpacked") /\ pc[t] # "idle" /\ UNCHANGED req
      BY <1>1 DEF Unpacked, At
    <2>2. /\ req[t].op \in Importers /\ loc[t].todo \in Seq(Images)
          /\ loc[t].errs \in BOOLEAN
      BY <2>1, Busy DEF Reaches, Locals, At
    <2>3. CASE Len(loc[t].todo) > 1
      <3>1. loc[t].todo # << >>
        BY <2>3, EmptySeq
      <3>2. Tail(loc[t].todo) \in Seq(Images) /\ Tail(loc[t].todo) # << >>
        BY <2>2, <2>3, <3>1, ImageFacts
      <3>3. UnpackFirst(t, Tail(loc[t].todo), loc[t].errs)
        BY <1>1, <2>3 DEF Unpacked
      <3>4. QED
        BY <2>1, <2>2, <3>2, <3>3, UnpackFirstFits
    <2>4. CASE ~ (Len(loc[t].todo) > 1)
      BY <1>1, <2>1, <2>2, <2>4, FetchedFits DEF Unpacked
    <2>5. QED
      BY <2>3, <2>4
  <1>2. CASE Deleted(t)
    <2>1. At(t, "deleted") /\ pc[t] # "idle" /\ UNCHANGED req
      BY <1>2 DEF Deleted, At
    <2>2. /\ req[t].op = "single" /\ loc[t].todo \in Seq(Images)
          /\ loc[t].errs \in BOOLEAN /\ req[t] \in Requests[t]
      BY <2>1, Busy DEF Reaches, Locals, At
    <2>3. CASE Len(loc[t].todo) > 1
      <3>1. loc[t].todo # << >>
        BY <2>3, EmptySeq
      <3>2. Tail(loc[t].todo) \in Seq(Images) /\ Tail(loc[t].todo) # << >>
        BY <2>2, <2>3, <3>1, ImageFacts
      <3>3. DeleteFirst(t, Tail(loc[t].todo), loc[t].errs, "deleted")
        BY <1>2, <2>3 DEF Deleted
      <3>4. QED
        BY <2>1, <2>2, <3>2, <3>3, DeleteFirstFits
    <2>4. CASE ~ (Len(loc[t].todo) > 1) /\ loc[t].errs
      <3>1. req[t].archive \in Seq(Images) /\ req[t].archive # << >>
        BY <2>2, CallFacts DEF Fetchers, Importers
      <3>2. /\ << Head(req[t].archive) >> \in Seq(Images)
            /\ << Head(req[t].archive) >> # << >>
        BY <3>1, ImageFacts
      <3>3. DeleteFirst(t, << Head(req[t].archive) >>, TRUE, "undone")
        BY <1>2, <2>4 DEF Deleted
      <3>4. QED
        BY <2>1, <2>2, <3>2, <3>3, DeleteFirstFits
    <2>5. CASE ~ (Len(loc[t].todo) > 1) /\ ~ loc[t].errs
      BY <1>2, <2>1, <2>5, FinishFits DEF Deleted
    <2>6. QED
      BY <2>3, <2>4, <2>5
  <1>3. CASE Undone(t)
    BY <1>3, FinishFits DEF Undone, At
  <1>4. QED
    BY <1>1, <1>2, <1>3 DEF ImportStep

-----------------------------------------------------------------------------
(* The parts of the calls, one after the other: where they leave a thread. *)

LEMMA LayerFits ==
    ASSUME ThreadsFit, NEW t \in Threads, pc[t] \in UnpackPart, NEW p \in LayerPart,
           NEW l \in Locals, l.i \in 1..Len(l.chain),
           l.loop = loc[t].loop, l.next = loc[t].next, l.todo = loc[t].todo,
           l.chain = loc[t].chain
    PROVE  Fits(t, p, req[t], l)
  <1>1. pc[t] # "idle" /\ pc[t] # "diff_lower" /\ p \in UnpackPart /\ p # "idle"
    BY DEF UnpackPart, LayerPart
  <1>2. /\ req[t] \in Requests[t]
        /\ Reaches(pc[t], req[t].op)
        /\ Follows(pc[t], req[t].op, loc[t])
        /\ Works(pc[t], req[t], loc[t])
    BY <1>1, Busy
  <1>3. p \in Labels
    BY DEF Labels, LayerPart
  <1>4. Reaches(p, req[t].op)
    BY <1>2 DEF Reaches, MountPart, DiffPart, CommitPart, UnpackPart, LayerPart, WalkPart,
                DeletePart, FetchPart, PutPart
  <1>5. Follows(p, req[t].op, l)
    BY <1>1, <1>2 DEF Follows, LayerPart, WalkPart, DeletePart
  <1>6. Works(p, req[t], l)
    BY <1>1, <1>2 DEF Works, LayerPart, WalkPart, DeletePart, FetchPart, PutPart
  <1>7. QED
    BY <1>1, <1>2, <1>3, <1>4, <1>5, <1>6 DEF Fits

LEMMA NextLayerFits ==
    ASSUME ThreadsFit, NEW t \in Threads, pc[t] \in LayerPart, NextLayer(t), UNCHANGED req
    PROVE  ThreadsFit'
  <1>1. pc[t] \in UnpackPart /\ pc[t] # "idle"
    BY DEF UnpackPart, LayerPart
  <1>2. CASE loc[t].i = Len(loc[t].chain)
    BY <1>1, <1>2, ContinueFits DEF NextLayer
  <1>3. CASE loc[t].i # Len(loc[t].chain)
    <2> DEFINE l == [loc[t] EXCEPT !.i = @ + 1]
    <2>1. Goto(t, "extract") /\ loc' = [loc EXCEPT ![t] = l]
      BY <1>3 DEF NextLayer
    <2>2. loc[t] \in Locals /\ loc[t].i \in 1..Len(loc[t].chain)
      BY <1>1, Busy DEF Works
    <2>3. loc[t].i + 1 \in 1..Len(loc[t].chain)
      BY <1>3, <2>2, LenProperties DEF Locals
    <2>4. /\ l \in Locals /\ l.i \in 1..Len(l.chain)
          /\ l.loop = loc[t].loop /\ l.next = loc[t].next /\ l.todo = loc[t].todo
          /\ l.chain = loc[t].chain
      BY <2>2, <2>3 DEF Locals
    <2> HIDE DEF l
    <2>5. Fits(t, "extract", req[t], l)
      BY <1>1, <2>4, LayerFits DEF LayerPart
    <2>6. QED
      BY <2>1, <2>5, StepFits
  <1>4. QED
    BY <1>2, <1>3

\* A step from one layer's part to the next one.
LEMMA LayerGotoFits ==
    ASSUME ThreadsFit, NEW t \in Threads, pc[t] \in LayerPart, NEW p \in LayerPart,
           Goto(t, p), NEW e \in BOOLEAN,
           loc' = [loc EXCEPT ![t] = [loc[t] EXCEPT !.err = e]] \/ UNCHANGED loc,
           UNCHANGED req
    PROVE  ThreadsFit'
  <1>1. pc[t] \in UnpackPart /\ pc[t] # "idle"
    BY DEF UnpackPart, LayerPart
  <1>2. loc[t] \in Locals /\ loc[t].i \in 1..Len(loc[t].chain)
    BY <1>1, Busy DEF Works
  <1>3. CASE loc' = [loc EXCEPT ![t] = [loc[t] EXCEPT !.err = e]]
    <2> DEFINE l == [loc[t] EXCEPT !.err = e]
    <2>1. /\ l \in Locals /\ l.i \in 1..Len(l.chain)
          /\ l.loop = loc[t].loop /\ l.next = loc[t].next /\ l.todo = loc[t].todo
          /\ l.chain = loc[t].chain
      BY <1>2 DEF Locals
    <2> HIDE DEF l
    <2>2. Fits(t, p, req[t], l)
      BY <1>1, <2>1, LayerFits
    <2>3. QED
      BY <1>3, <2>2, StepFits DEF l
  <1>4. CASE UNCHANGED loc
    <2>1. Fits(t, p, req[t], loc[t])
      BY <1>1, <1>2, LayerFits
    <2>2. QED
      BY <1>4, <2>1, GotoFits
  <1>5. QED
    BY <1>3, <1>4

LEMMA UnpackFits ==
    ASSUME ThreadsFit, NEW t \in Threads, UnpackStep(t)
    PROVE  ThreadsFit'
  <1>1. CASE CheckUnpacked(t)
    <2>1. pc[t] = "unpack" /\ pc[t] \in UnpackPart /\ pc[t] # "idle" /\ UNCHANGED req
      BY <1>1 DEF CheckUnpacked, At, UnpackPart
    <2>2. CASE Continue(t)
      BY <2>1, <2>2, ContinueFits
    <2>3. CASE Goto(t, "extract") /\ loc' = [loc EXCEPT ![t].i = 1]
      <3> DEFINE l == [loc[t] EXCEPT !.i = 1]
      <3>1. loc[t] \in Locals /\ loc[t].chain # << >>
        BY <2>1, Busy DEF Works
      <3>2. 1 \in 1..Len(loc[t].chain)
        BY <3>1, EmptySeq DEF Locals
      <3>3. /\ l \in Locals /\ l.i \in 1..Len(l.chain)
            /\ l.loop = loc[t].loop /\ l.next = loc[t].next /\ l.todo = loc[t].todo
            /\ l.chain = loc[t].chain
        BY <3>1, <3>2 DEF Locals
      <3>4. loc' = [loc EXCEPT ![t] = l]
        BY <2>3
      <3> HIDE DEF l
      <3>5. Fits(t, "extract", req[t], l)
        BY <2>1, <3>3, LayerFits DEF LayerPart
      <3>6. QED
        BY <2>1, <2>3, <3>4, <3>5, StepFits
    <2>4. CASE EndPart(t, TRUE)
      BY <2>1, <2>4, EndPartFits
    <2>5. QED
      BY <1>1, <2>2, <2>3, <2>4 DEF CheckUnpacked
  <1>2. CASE PrepareLayer(t)
    <2>1. pc[t] \in LayerPart /\ pc[t] \in UnpackPart /\ UNCHANGED req
      BY <1>2 DEF PrepareLayer, At, LayerPart, UnpackPart
    <2>2. CASE Goto(t, "apply") /\ UNCHANGED loc
      BY <2>1, <2>2, LayerGotoFits DEF LayerPart
    <2>3. CASE EndPart(t, TRUE)
      BY <2>1, <2>3, EndPartFits
    <2>4. QED
      BY <1>2, <2>2, <2>3 DEF PrepareLayer
  <1>3. CASE ApplyLayer(t)
    <2>1. pc[t] \in LayerPart /\ UNCHANGED req
      BY <1>3 DEF ApplyLayer, At, LayerPart
    <2>2. CASE Goto(t, "commit_layer") /\ UNCHANGED loc
      BY <2>1, <2>2, LayerGotoFits DEF LayerPart
    <2>3. CASE Goto(t, "abort_layer") /\ loc' = [loc EXCEPT ![t].err = TRUE]
      BY <2>1, <2>3, LayerGotoFits DEF LayerPart
    <2>4. QED
      BY <1>3, <2>2, <2>3 DEF ApplyLayer
  <1>4. CASE CommitLayer(t)
    <2> DEFINE e == CommitResult(snaps, Extract(t), UpTo(t)) # "exists"
    <2>1. pc[t] \in LayerPart /\ UNCHANGED req
      BY <1>4 DEF CommitLayer, At, LayerPart
    <2>2. CASE NextLayer(t)
      BY <2>1, <2>2, NextLayerFits
    <2>3. CASE Goto(t, "abort_layer") /\ loc' = [loc EXCEPT ![t].err = e]
      <3>1. e \in BOOLEAN
        OBVIOUS
      <3> HIDE DEF e
      <3>2. QED
        BY <2>1, <2>3, <3>1, LayerGotoFits DEF LayerPart
    <2>4. QED
      BY <1>4, <2>2, <2>3 DEF CommitLayer
  <1>5. CASE AbortLayer(t)
    <2>1. pc[t] \in LayerPart /\ pc[t] \in UnpackPart /\ UNCHANGED req
      BY <1>5 DEF AbortLayer, At, LayerPart, UnpackPart
    <2>2. EndPart(t, TRUE) \/ NextLayer(t)
      BY <1>5 DEF AbortLayer
    <2>3. QED
      BY <2>1, <2>2, EndPartFits, NextLayerFits
  <1>6. QED
    BY <1>1, <1>2, <1>3, <1>4, <1>5 DEF UnpackStep

LEMMA WalkFits ==
    ASSUME ThreadsFit, NEW t \in Threads, pc[t] \in WalkPart, NEW p \in WalkPart,
           NEW l \in Locals, l.loop = loc[t].loop, l.next = loc[t].next,
           l.todo = loc[t].todo
    PROVE  Fits(t, p, req[t], l)
  <1>1. pc[t] # "idle" /\ pc[t] # "diff_lower" /\ p # "idle"
    BY DEF WalkPart
  <1>2. /\ req[t] \in Requests[t]
        /\ Reaches(pc[t], req[t].op)
        /\ Follows(pc[t], req[t].op, loc[t])
        /\ Works(pc[t], req[t], loc[t])
    BY <1>1, Busy
  <1>3. p \in Labels
    BY DEF Labels, WalkPart
  <1>4. Reaches(p, req[t].op)
    BY <1>2 DEF Reaches, MountPart, DiffPart, CommitPart, UnpackPart, LayerPart, WalkPart,
                DeletePart, FetchPart, PutPart
  <1>5. Follows(p, req[t].op, l)
    BY <1>1, <1>2 DEF Follows, UnpackPart, LayerPart, WalkPart
  <1>6. Works(p, req[t], l)
    BY <1>1, <1>2 DEF Works, UnpackPart, LayerPart, WalkPart, CommitPart, FetchPart, PutPart
  <1>7. QED
    BY <1>1, <1>2, <1>3, <1>4, <1>5, <1>6 DEF Fits

LEMMA RemovalFits ==
    ASSUME ThreadsFit, SnapsTyped(snaps), NEW t \in Threads, RemovalStep(t)
    PROVE  ThreadsFit'
  <1>1. CASE StatLink(t)
    <2>1. pc[t] \in WalkPart /\ pc[t] \in UnpackPart \cup WalkPart \cup {"diff_lower"}
          /\ pc[t] # "idle" /\ UNCHANGED req
      BY <1>1 DEF StatLink, At, WalkPart
    <2>2. CASE Continue(t)
      BY <2>1, <2>2, ContinueFits
    <2>3. CASE /\ loc[t].cur \in DOMAIN snaps
               /\ Goto(t, "walk_remove")
               /\ loc' = [loc EXCEPT ![t].par = snaps[loc[t].cur].parent]
      <3> DEFINE l == [loc[t] EXCEPT !.par = snaps[loc[t].cur].parent]
      <3>1. loc[t] \in Locals
        BY <2>1, Busy
      <3>2. snaps[loc[t].cur].parent \in Somewhere
        BY <2>3 DEF SnapsTyped, Snapshots
      <3>3. /\ l \in Locals /\ l.loop = loc[t].loop /\ l.next = loc[t].next
            /\ l.todo = loc[t].todo
        BY <3>1, <3>2 DEF Locals
      <3>4. loc' = [loc EXCEPT ![t] = l]
        BY <2>3
      <3> HIDE DEF l
      <3>5. Fits(t, "walk_remove", req[t], l)
        BY <2>1, <3>3, WalkFits DEF WalkPart
      <3>6. QED
        BY <2>1, <2>3, <3>4, <3>5, StepFits
    <2>4. QED
      BY <1>1, <2>2, <2>3 DEF StatLink
  <1>2. CASE RemoveLink(t)
    <2>1. pc[t] \in WalkPart /\ pc[t] \in UnpackPart \cup WalkPart \cup {"diff_lower"}
          /\ pc[t] \in UnpackPart \cup WalkPart \cup DeletePart
          /\ pc[t] # "idle" /\ UNCHANGED req
      BY <1>2 DEF RemoveLink, At, WalkPart
    <2>2. CASE Climb(t)
      <3>1. CASE Continue(t)
        BY <2>1, <3>1, ContinueFits
      <3>2. CASE /\ Goto(t, "walk")
                 /\ loc' = [loc EXCEPT ![t] =
                              [@ EXCEPT !.cur = loc[t].par,
                                        !.depth = IF loc[t].depth > 0
                                                  THEN loc[t].depth - 1
                                                  ELSE loc[t].depth]]
        <4> DEFINE d == IF loc[t].depth > 0 THEN loc[t].depth - 1 ELSE loc[t].depth
                   l == [loc[t] EXCEPT !.cur = loc[t].par, !.depth = d]
        <4>1. loc[t] \in Locals /\ d \in Int
          BY <2>1, Busy DEF Locals
        <4>2. Goto(t, "walk") /\ loc' = [loc EXCEPT ![t] = l]
          BY <3>2
        <4> HIDE DEF d
        <4>3. /\ l \in Locals /\ l.loop = loc[t].loop /\ l.next = loc[t].next
              /\ l.todo = loc[t].todo
          BY <4>1 DEF Locals
        <4> HIDE DEF l
        <4>4. Fits(t, "walk", req[t], l)
          BY <2>1, <4>3, WalkFits DEF WalkPart
        <4>5. QED
          BY <2>1, <4>2, <4>4, StepFits
      <3>3. QED
        BY <2>2, <3>1, <3>2 DEF Climb
    <2>3. CASE Continue(t)
      BY <2>1, <2>3, ContinueFits
    <2>4. CASE EndPart(t, TRUE)
      BY <2>1, <2>4, EndPartFits
    <2>5. QED
      BY <1>2, <2>2, <2>3, <2>4 DEF RemoveLink
  <1>3. QED
    BY <1>1, <1>2 DEF RemovalStep

\* From one step of Mount to another.
LEMMA MountGotoFits ==
    ASSUME ThreadsFit, NEW t \in Threads, pc[t] \in MountPart,
           NEW p \in MountPart \ {"mount_lease"}, Goto(t, p), UNCHANGED <<req, loc>>
    PROVE  ThreadsFit'
  <1>1. pc[t] # "idle"
    BY DEF MountPart
  <1>2. /\ req[t] \in Requests[t] /\ loc[t] \in Locals
        /\ req[t].op = "mount" /\ loc[t].loop = "none"
    BY <1>1, Busy DEF Reaches, Follows, Importers
  <1>3. Fits(t, p, req[t], loc[t])
    BY <1>2 DEF Fits, Labels, Reaches, Follows, Works, MountPart, DiffPart, CommitPart,
       UnpackPart, LayerPart, WalkPart, DeletePart, FetchPart, PutPart, Importers
  <1>4. QED
    BY <1>3, GotoFits

LEMMA MountFits ==
    ASSUME ThreadsFit, NEW t \in Threads, MountStep(t)
    PROVE  ThreadsFit'
  <1>1. CASE MountLease(t)
    <2> DEFINE p == IF req[t].unpack THEN "unpack" ELSE "mount_create"
               o == req[t].name \notin leases
               l == [loc[t] EXCEPT !.owns = o, !.next = "mount_create"]
    <2>1. pc[t] = "mount_lease" /\ pc[t] # "idle" /\ pc[t] \in MountPart /\ UNCHANGED req
      BY <1>1 DEF MountLease, At, MountPart
    <2>2. /\ req[t] \in Requests[t] /\ loc[t] \in Locals
          /\ req[t].op = "mount" /\ loc[t].loop = "none"
          /\ req[t].unpack => loc[t].chain # << >>
      BY <2>1, Busy DEF Reaches, Follows, Works, Importers
    <2>3. o \in BOOLEAN
      OBVIOUS
    <2>4. Goto(t, p) /\ loc' = [loc EXCEPT ![t] = l]
      BY <1>1 DEF MountLease
    <2> HIDE DEF o
    <2>5. /\ l \in Locals /\ l.loop = "none" /\ l.next = "mount_create"
          /\ l.chain = loc[t].chain
      BY <2>2, <2>3 DEF Locals, Nexts
    <2> HIDE DEF l
    <2>6. Fits(t, p, req[t], l)
      BY <2>2, <2>5 DEF Fits, Labels, Reaches, Follows, Works, MountPart, DiffPart, CommitPart,
         UnpackPart, LayerPart, WalkPart, DeletePart, FetchPart, PutPart, Importers, Fetchers
    <2>7. QED
      BY <2>1, <2>4, <2>6, StepFits
  <1>2. CASE MountCreate(t)
    <2>1. pc[t] \in MountPart /\ UNCHANGED <<req, loc>>
      BY <1>2 DEF MountCreate, At, MountPart
    <2>2. PICK p \in MountPart \ {"mount_lease"} : Goto(t, p)
      BY <1>2 DEF MountCreate, MountPart
    <2>3. QED
      BY <2>1, <2>2, MountGotoFits
  <1>3. CASE MountExisting(t)
    <2>1. pc[t] \in MountPart /\ UNCHANGED <<req, loc>>
      BY <1>3 DEF MountExisting, At, MountPart
    <2>2. PICK p \in MountPart \ {"mount_lease"} : Goto(t, p)
      BY <1>3 DEF MountExisting, MountPart
    <2>3. QED
      BY <2>1, <2>2, MountGotoFits
  <1>4. CASE MountAll(t)
    <2>1. pc[t] \in MountPart /\ pc[t] # "idle" /\ UNCHANGED req
      BY <1>4 DEF MountAll, At, MountPart
    <2>2. Finish(t, FALSE) \/ (Goto(t, "mount_undo") /\ UNCHANGED loc)
      BY <1>4 DEF MountAll
    <2>3. "mount_undo" \in MountPart \ {"mount_lease"}
      BY DEF MountPart
    <2>4. QED
      BY <2>1, <2>2, <2>3, MountGotoFits, FinishFits
  <1>5. CASE MountUndo(t)
    <2>1. pc[t] \in MountPart /\ UNCHANGED <<req, loc>>
      BY <1>5 DEF MountUndo, At, MountPart
    <2>2. "mount_failed" \in MountPart \ {"mount_lease"}
      BY DEF MountPart
    <2>3. QED
      BY <1>5, <2>1, <2>2, MountGotoFits DEF MountUndo
  <1>6. CASE MountFailed(t)
    BY <1>6, FinishFits DEF MountFailed, At
  <1>7. CASE UmountLease(t)
    <2>1. pc[t] = "umount_lease" /\ pc[t] # "idle" /\ UNCHANGED <<req, loc>>
          /\ Goto(t, "umount_unlease")
      BY <1>7 DEF UmountLease, At
    <2>2. /\ req[t] \in Requests[t] /\ loc[t] \in Locals /\ req[t].op = "umount"
          /\ loc[t].loop = "none" /\ loc[t].next = "return"
      BY <2>1, Busy DEF Reaches, Follows, Importers
    <2>3. Fits(t, "umount_unlease", req[t], loc[t])
      BY <2>2 DEF Fits, Labels, Reaches, Follows, Works, MountPart, DiffPart, CommitPart,
         UnpackPart, LayerPart, WalkPart, DeletePart, FetchPart, PutPart, Importers
    <2>4. QED
      BY <2>1, <2>3, GotoFits
  <1>8. CASE UmountUnlease(t)
    <2> DEFINE d == IF req[t].rm > 0 THEN req[t].rm - 1 ELSE -1
               l == [loc[t] EXCEPT !.cur = req[t].name, !.depth = d]
    <2>1. pc[t] = "umount_unlease" /\ pc[t] # "idle" /\ UNCHANGED req
      BY <1>8 DEF UmountUnlease, At
    <2>2. /\ req[t] \in Requests[t] /\ loc[t] \in Locals /\ req[t].op = "umount"
          /\ loc[t].loop = "none" /\ loc[t].next = "return"
      BY <2>1, Busy DEF Reaches, Follows, Importers
    <2>3. req[t].name \in Somewhere /\ d \in Int
      BY <2>2, CallFacts DEF Somewhere
    <2>4. \/ Goto(t, "walk") /\ loc' = [loc EXCEPT ![t] = l]
          \/ Finish(t, TRUE)
      BY <1>8 DEF UmountUnlease
    <2> HIDE DEF d
    <2>5. l \in Locals /\ l.loop = "none" /\ l.next = "return"
      BY <2>2, <2>3 DEF Locals
    <2> HIDE DEF l
    <2>6. Fits(t, "walk", req[t], l)
      BY <2>2, <2>5 DEF Fits, Labels, Reaches, Follows, Works, MountPart, DiffPart, CommitPart,
         UnpackPart, LayerPart, WalkPart, DeletePart, FetchPart, PutPart, Importers
    <2>7. QED
      BY <2>1, <2>4, <2>6, StepFits, FinishFits
  <1>9. QED
    BY <1>1, <1>2, <1>3, <1>4, <1>5, <1>6, <1>7, <1>8 DEF MountStep

LEMMA LabelFits ==
    ASSUME ThreadsFit, SnapsTyped(snaps), NEW t \in Threads, LabelStep(t)
    PROVE  ThreadsFit'
  <1>1. CASE LabelStat(t)
    <2>1. pc[t] = "label_stat" /\ pc[t] # "idle" /\ UNCHANGED req
      BY <1>1 DEF LabelStat, At
    <2>2. CASE Finish(t, TRUE)
      BY <2>1, <2>2, FinishFits
    <2>3. CASE /\ req[t].name \in DOMAIN snaps
               /\ loc' = [loc EXCEPT ![t].ref = snaps[req[t].name].label]
               /\ Goto(t, "label_write")
      <3> DEFINE l == [loc[t] EXCEPT !.ref = snaps[req[t].name].label]
      <3>1. /\ req[t] \in Requests[t] /\ loc[t] \in Locals /\ req[t].op = "label"
            /\ loc[t].loop = "none"
        BY <2>1, Busy DEF Reaches, Follows, Importers
      <3>2. snaps[req[t].name].label \in Refs \cup {NoRef}
        BY <2>3 DEF SnapsTyped, Snapshots
      <3>3. l \in Locals /\ l.loop = "none"
        BY <3>1, <3>2 DEF Locals
      <3>4. loc' = [loc EXCEPT ![t] = l]
        BY <2>3
      <3> HIDE DEF l
      <3>5. Fits(t, "label_write", req[t], l)
        BY <3>1, <3>3 DEF Fits, Labels, Reaches, Follows, Works, MountPart, DiffPart, CommitPart,
           UnpackPart, LayerPart, WalkPart, DeletePart, FetchPart, PutPart, Importers
      <3>6. QED
        BY <2>1, <2>3, <3>4, <3>5, StepFits
    <2>4. QED
      BY <1>1, <2>2, <2>3 DEF LabelStat
  <1>2. CASE LabelWrite(t)
    <2>1. pc[t] # "idle" /\ UNCHANGED req /\ (Finish(t, FALSE) \/ Finish(t, TRUE))
      BY <1>2 DEF LabelWrite, At
    <2>2. QED
      BY <2>1, FinishFits
  <1>3. CASE Look(t)
    <2> DEFINE e == req[t].name \notin DOMAIN snaps \cup {NoParent}
    <2>1. pc[t] # "idle" /\ UNCHANGED req /\ Finish(t, e) /\ e \in BOOLEAN
      BY <1>3 DEF Look, At
    <2> HIDE DEF e
    <2>2. QED
      BY <2>1, FinishFits
  <1>4. QED
    BY <1>1, <1>2, <1>3 DEF LabelStep

\* From one step of Commit to another, or on to the storing of the record.
LEMMA StageFits ==
    ASSUME ThreadsFit, NEW t \in Threads, pc[t] \in DiffPart \cup CommitPart,
           NEW p \in DiffPart \cup CommitPart \cup {"put_update"},
           NEW l \in Locals, l.loop = loc[t].loop, l.todo = loc[t].todo,
           p # "diff_lower" => l.next = "return",
           p = "diff_lower" => l.next \in {"diff_mounts", "diff_view"},
           p \in CommitPart \cup {"put_update"} => l.chain # << >>
    PROVE  Fits(t, p, req[t], l)
  <1>1. pc[t] # "idle" /\ p # "idle"
    BY DEF DiffPart, CommitPart
  <1>2. /\ req[t] \in Requests[t] /\ req[t].op = "commit"
        /\ l.loop = "none" /\ l.todo = << >>
    BY <1>1, Busy DEF Reaches, Follows, Works, Importers
  <1>3. p \in Labels
    BY DEF Labels, DiffPart, CommitPart
  <1>4. Reaches(p, req[t].op)
    BY <1>2 DEF Reaches, MountPart, DiffPart, CommitPart, UnpackPart, LayerPart, WalkPart,
                DeletePart, FetchPart, PutPart
  <1>5. p \notin UnpackPart \cup WalkPart \cup DeletePart \cup FetchPart
    BY DEF DiffPart, CommitPart, UnpackPart, LayerPart, WalkPart, DeletePart, FetchPart
  <1>6. Follows(p, req[t].op, l)
    BY <1>2, <1>5 DEF Follows, Importers
  <1>7. Works(p, req[t], l)
    <2>1. p \in PutPart => p = "put_update"
      BY DEF DiffPart, CommitPart, PutPart
    <2>2. p \notin LayerPart /\ p # "mount_lease"
      BY <1>5 DEF UnpackPart, DiffPart, CommitPart
    <2>3. req[t].op \notin Fetchers /\ req[t].op # "single"
      BY <1>2 DEF Fetchers, Importers
    <2>4. QED
      BY <1>2, <1>5, <2>1, <2>2, <2>3 DEF Works
  <1>8. QED
    BY <1>1, <1>2, <1>3, <1>4, <1>6, <1>7 DEF Fits

\* What a step of Commit, but for the one before the view of the parent,
\* knows of its local variables.
LEMMA StageFacts ==
    ASSUME ThreadsFit, NEW t \in Threads, pc[t] \in DiffPart \cup CommitPart
    PROVE  /\ pc[t] # "idle"
           /\ loc[t] \in Locals
           /\ req[t] \in Requests[t] /\ req[t].op = "commit"
           /\ pc[t] # "diff_lower" => loc[t].next = "return"
           /\ pc[t] \in CommitPart => loc[t].chain # << >>
  <1>1. pc[t] # "idle"
    BY DEF DiffPart, CommitPart
  <1>2. QED
    BY <1>1, Busy DEF Reaches, Follows, Works

LEMMA StageGotoFits ==
    ASSUME ThreadsFit, NEW t \in Threads, pc[t] \in DiffPart \cup CommitPart,
           pc[t] # "diff_lower",
           NEW p \in DiffPart \cup CommitPart \cup {"put_update"}, p # "diff_lower",
           p \in CommitPart \cup {"put_update"} => pc[t] \in CommitPart,
           Goto(t, p), UNCHANGED <<req, loc>>
    PROVE  ThreadsFit'
  <1>1. Fits(t, p, req[t], loc[t])
    BY StageFacts, StageFits
  <1>2. QED
    BY <1>1, GotoFits

LEMMA DiffFailFits ==
    ASSUME ThreadsFit, NEW t \in Threads, pc[t] \in DiffPart, pc[t] # "diff_lower",
           DiffFail(t), UNCHANGED req
    PROVE  ThreadsFit'
  <1> DEFINE p == IF Upper(t) \in DOMAIN snaps THEN "clean_upper" ELSE "clean_lower"
             l == [loc[t] EXCEPT !.err = TRUE]
  <1>1. loc[t] \in Locals /\ loc[t].next = "return"
    BY StageFacts
  <1>2. l \in Locals /\ l.loop = loc[t].loop /\ l.todo = loc[t].todo /\ l.next = "return"
    BY <1>1 DEF Locals
  <1>3. Goto(t, p) /\ loc' = [loc EXCEPT ![t] = l]
    BY DEF DiffFail
  <1>4. p \in {"clean_upper", "clean_lower"}
    OBVIOUS
  <1> HIDE DEF p, l
  <1>5. Fits(t, p, req[t], l)
    BY <1>2, <1>4, StageFits DEF DiffPart, CommitPart
  <1>6. QED
    BY <1>3, <1>5, StepFits

LEMMA WriteBlobFits ==
    ASSUME ThreadsFit, NEW t \in Threads, NEW from \in CommitPart,
           NEW to \in CommitPart \cup {"put_update"}, NEW blob,
           WriteBlob(t, from, blob, to)
    PROVE  ThreadsFit'
  <1>1. /\ pc[t] \in CommitPart /\ pc[t] # "diff_lower" /\ pc[t] # "idle" /\ to # "diff_lower"
        /\ UNCHANGED req
    BY DEF WriteBlob, At, CommitPart
  <1>2. (Goto(t, to) /\ UNCHANGED loc) \/ Finish(t, TRUE)
    BY DEF WriteBlob
  <1>3. QED
    BY <1>1, <1>2, StageGotoFits, FinishFits

LEMMA CommitFits ==
    ASSUME ThreadsFit, SnapsTyped(snaps), ImagesTyped(images),
           MountsFollow(snaps, mounts, dir), NEW t \in Threads, CommitStep(t)
    PROVE  ThreadsFit'
  <1>1. CASE CommitStat(t)
    <2>1. pc[t] \in DiffPart /\ pc[t] # "diff_lower" /\ UNCHANGED req
      BY <1>1 DEF CommitStat, At, DiffPart
    <2>2. pc[t] # "idle" /\ loc[t] \in Locals /\ loc[t].next = "return"
      BY <2>1, StageFacts
    <2>3. CASE Finish(t, TRUE)
      BY <2>1, <2>2, <2>3, FinishFits
    <2>4. CASE req[t].name \in DOMAIN snaps /\ ~ Finish(t, TRUE)
      <3> DEFINE l == [loc[t] EXCEPT !.ref = snaps[req[t].name].label]
                 p == IF snaps[req[t].name].label = NoRef THEN "diff" ELSE "commit_base"
      <3>1. snaps[req[t].name].label \in Refs \cup {NoRef}
        BY <2>4 DEF SnapsTyped, Snapshots
      <3>2. l \in Locals /\ l.loop = loc[t].loop /\ l.todo = loc[t].todo /\ l.next = "return"
        BY <2>2, <3>1 DEF Locals
      <3>3. Goto(t, p) /\ loc' = [loc EXCEPT ![t] = l]
        BY <1>1, <2>4 DEF CommitStat
      <3>4. p \in {"diff", "commit_base"}
        OBVIOUS
      <3> HIDE DEF p, l
      <3>5. Fits(t, p, req[t], l)
        BY <2>1, <3>2, <3>4, StageFits DEF DiffPart, CommitPart
      <3>6. QED
        BY <2>1, <3>3, <3>5, StepFits
    <2>5. QED
      BY <1>1, <2>3, <2>4 DEF CommitStat
  <1>2. CASE CommitBase(t)
    <2>1. pc[t] \in DiffPart /\ pc[t] # "diff_lower" /\ UNCHANGED req
      BY <1>2 DEF CommitBase, At, DiffPart
    <2>2. pc[t] # "idle" /\ loc[t] \in Locals /\ loc[t].next = "return"
      BY <2>1, StageFacts
    <2>3. CASE Finish(t, TRUE)
      BY <2>1, <2>2, <2>3, FinishFits
    <2>4. CASE loc[t].ref \in DOMAIN images /\ ~ Finish(t, TRUE)
      <3> DEFINE l == [loc[t] EXCEPT !.chain = images[loc[t].ref], !.ref = NoRef]
      <3>1. images[loc[t].ref] \in Seq(Layers)
        BY <2>4 DEF ImagesTyped, Chains
      <3>2. l \in Locals /\ l.loop = loc[t].loop /\ l.todo = loc[t].todo /\ l.next = "return"
        BY <2>2, <3>1 DEF Locals
      <3>3. Goto(t, "diff") /\ loc' = [loc EXCEPT ![t] = l]
        BY <1>2, <2>4 DEF CommitBase
      <3> HIDE DEF l
      <3>4. Fits(t, "diff", req[t], l)
        BY <2>1, <3>2, StageFits DEF DiffPart, CommitPart
      <3>5. QED
        BY <2>1, <3>3, <3>4, StepFits
    <2>5. QED
      BY <1>2, <2>3, <2>4 DEF CommitBase
  <1>3. CASE DiffStat(t)
    <2>1. pc[t] \in DiffPart /\ pc[t] # "diff_lower" /\ UNCHANGED req
      BY <1>3 DEF DiffStat, At, DiffPart
    <2>2. pc[t] # "idle" /\ loc[t] \in Locals
      BY <2>1, StageFacts
    <2>3. CASE Finish(t, TRUE)
      BY <2>1, <2>2, <2>3, FinishFits
    <2>4. CASE req[t].name \in DOMAIN snaps /\ ~ Finish(t, TRUE)
      <3> DEFINE info == snaps[req[t].name]
                 n == IF info.kind = "active" THEN "diff_mounts" ELSE "diff_view"
                 l == [loc[t] EXCEPT !.par = info.parent, !.next = n]
      <3>1. info.parent \in Somewhere /\ n \in {"diff_mounts", "diff_view"}
        BY <2>4 DEF SnapsTyped, Snapshots
      <3>2. Goto(t, "diff_lower") /\ loc' = [loc EXCEPT ![t] = l]
        BY <1>3, <2>4 DEF DiffStat
      <3> HIDE DEF n, info
      <3>3. l \in Locals /\ l.loop = loc[t].loop /\ l.todo = loc[t].todo /\ l.next = n
        BY <2>2, <3>1 DEF Locals, Nexts
      <3> HIDE DEF l
      <3>4. Fits(t, "diff_lower", req[t], l)
        BY <2>1, <3>1, <3>3, StageFits DEF DiffPart, CommitPart
      <3>5. QED
        BY <2>1, <3>2, <3>4, StepFits
    <2>5. QED
      BY <1>3, <2>3, <2>4 DEF DiffStat
  <1>4. CASE DiffLower(t)
    <2>1. /\ pc[t] \in UnpackPart \cup WalkPart \cup {"diff_lower"} /\ pc[t] # "idle"
          /\ UNCHANGED req
      BY <1>4 DEF DiffLower, At
    <2>2. Continue(t) \/ Finish(t, TRUE)
      BY <1>4 DEF DiffLower
    <2>3. QED
      BY <2>1, <2>2, ContinueFits, FinishFits
  <1>5. CASE DiffMounts(t)
    <2>1. pc[t] \in DiffPart /\ pc[t] # "diff_lower" /\ UNCHANGED req
      BY <1>5 DEF DiffMounts, At, DiffPart
    <2>2. (Goto(t, "compare") /\ UNCHANGED loc) \/ DiffFail(t)
      BY <1>5 DEF DiffMounts
    <2>3. QED
      BY <2>1, <2>2, StageGotoFits, DiffFailFits DEF DiffPart, CommitPart
  <1>6. CASE DiffView(t)
    <2>1. pc[t] \in DiffPart /\ pc[t] # "diff_lower" /\ UNCHANGED req
      BY <1>6 DEF DiffView, At, DiffPart
    <2>2. (Goto(t, "compare") /\ UNCHANGED loc) \/ DiffFail(t)
      BY <1>6 DEF DiffView
    <2>3. QED
      BY <2>1, <2>2, StageGotoFits, DiffFailFits DEF DiffPart, CommitPart
  <1>7. CASE CleanUpper(t)
    <2>1. pc[t] \in DiffPart /\ pc[t] # "diff_lower" /\ Goto(t, "clean_lower")
          /\ UNCHANGED <<req, loc>>
      BY <1>7 DEF CleanUpper, At, DiffPart
    <2>2. QED
      BY <2>1, StageGotoFits DEF DiffPart, CommitPart
  <1>8. CASE CleanLower(t)
    <2>1. pc[t] \in DiffPart /\ pc[t] # "diff_lower" /\ UNCHANGED req
      BY <1>8 DEF CleanLower, At, DiffPart
    <2>2. pc[t] # "idle" /\ loc[t] \in Locals /\ loc[t].next = "return"
      BY <2>1, StageFacts
    <2>3. CASE Finish(t, TRUE)
      BY <2>1, <2>2, <2>3, FinishFits
    <2>4. CASE ~ Finish(t, TRUE)
      <3> DEFINE c == Append(loc[t].chain, loc[t].layer)
                 l == [loc[t] EXCEPT !.chain = c]
      <3>1. Goto(t, "commit_mounts") /\ loc' = [loc EXCEPT ![t] = l]
        BY <1>8, <2>4 DEF CleanLower
      <3>2. c \in Seq(Layers) /\ c # << >>
        <4>1. loc[t].chain \in Seq(Layers) /\ loc[t].layer \in Layers
          BY <2>2 DEF Locals
        <4>2. QED
          BY <4>1, AppendProperties
      <3> HIDE DEF c
      <3>3. l \in Locals /\ l.loop = loc[t].loop /\ l.todo = loc[t].todo /\ l.next = "return"
            /\ l.chain # << >>
        BY <2>2, <3>2 DEF Locals
      <3> HIDE DEF l
      <3>4. Fits(t, "commit_mounts", req[t], l)
        BY <2>1, <3>3, StageFits DEF DiffPart, CommitPart
      <3>5. QED
        BY <2>1, <3>1, <3>4, StepFits
    <2>5. QED
      BY <2>3, <2>4
  <1>9. CASE Compare(t)
    <2>1. pc[t] \in DiffPart /\ pc[t] # "diff_lower" /\ UNCHANGED req
      BY <1>9 DEF Compare, At, DiffPart
    <2>2. pc[t] # "idle" /\ loc[t] \in Locals /\ loc[t].next = "return"
      BY <2>1, StageFacts
    <2>3. CASE DiffFail(t)
      BY <2>1, <2>3, DiffFailFits
    <2>4. CASE dir[t] # Gone /\ ~ DiffFail(t)
      <3> DEFINE p == IF Upper(t) \in DOMAIN snaps THEN "clean_upper" ELSE "clean_lower"
                 l == [loc[t] EXCEPT !.layer = snaps[dir[t]].diff]
      <3>1. snaps[dir[t]].diff \in Layers
        BY <2>4 DEF MountsFollow, SnapsTyped, Snapshots
      <3>2. l \in Locals /\ l.loop = loc[t].loop /\ l.todo = loc[t].todo /\ l.next = "return"
        BY <2>2, <3>1 DEF Locals
      <3>3. Goto(t, p) /\ loc' = [loc EXCEPT ![t] = l]
        BY <1>9, <2>4 DEF Compare
      <3>4. p \in {"clean_upper", "clean_lower"}
        OBVIOUS
      <3> HIDE DEF p, l
      <3>5. Fits(t, p, req[t], l)
        BY <2>1, <3>2, <3>4, StageFits DEF DiffPart, CommitPart
      <3>6. QED
        BY <2>1, <3>3, <3>5, StepFits
    <2>5. QED
      BY <1>9, <2>3, <2>4 DEF Compare
  <1>10. CASE CommitMounts(t)
    <2>1. pc[t] \in CommitPart /\ pc[t] # "diff_lower" /\ pc[t] # "idle" /\ UNCHANGED req
      BY <1>10 DEF CommitMounts, At, CommitPart
    <2>2. (Goto(t, "commit_apply") /\ UNCHANGED loc) \/ Finish(t, TRUE)
      BY <1>10 DEF CommitMounts
    <2>3. QED
      BY <2>1, <2>2, StageGotoFits, FinishFits DEF CommitPart
  <1>11. CASE CommitApply(t)
    <2>1. pc[t] \in CommitPart /\ pc[t] # "diff_lower" /\ pc[t] # "idle" /\ UNCHANGED req
      BY <1>11 DEF CommitApply, At, CommitPart
    <2>2. (Goto(t, "commit_snapshot") /\ UNCHANGED loc) \/ Finish(t, TRUE)
      BY <1>11 DEF CommitApply
    <2>3. QED
      BY <2>1, <2>2, StageGotoFits, FinishFits DEF CommitPart
  <1>12. CASE CommitActive(t)
    <2>1. pc[t] \in CommitPart /\ pc[t] # "diff_lower" /\ pc[t] # "idle" /\ UNCHANGED req
      BY <1>12 DEF CommitActive, At, CommitPart
    <2>2. (Goto(t, "commit_manifest") /\ UNCHANGED loc) \/ Finish(t, TRUE)
      BY <1>12 DEF CommitActive
    <2>3. QED
      BY <2>1, <2>2, StageGotoFits, FinishFits DEF CommitPart
  <1>13. CASE CommitManifest(t) \/ CommitConfig(t)
    BY <1>13, WriteBlobFits DEF CommitManifest, CommitConfig, CommitPart
  <1>14. QED
    BY <1>1, <1>2, <1>3, <1>4, <1>5, <1>6, <1>7, <1>8, <1>9, <1>10, <1>11, <1>12, <1>13
    DEF CommitStep

\* The image whose record is stored, or deleted, has a name, and the record
\* something to say.
LEMMA RecordFacts ==
    ASSUME ThreadsFit, NEW t \in Threads, pc[t] \in PutPart \cup DeletePart
    PROVE  /\ Image(t).ref \in Refs
           /\ pc[t] \in PutPart => Image(t).chain \in Chains
  <1>1. pc[t] # "idle"
    BY DEF PutPart, DeletePart
  <1>2. /\ req[t] \in Requests[t] /\ loc[t] \in Locals
        /\ Reaches(pc[t], req[t].op) /\ Works(pc[t], req[t], loc[t])
    BY <1>1, Busy
  <1>3. loc[t].todo \in Seq(Images) /\ loc[t].chain \in Seq(Layers)
    BY <1>2 DEF Locals
  <1>4. CASE loc[t].todo # << >>
    BY <1>3, <1>4, ImageFacts DEF Image
  <1>5. CASE loc[t].todo = << >>
    <2>1. /\ Image(t).ref = req[t].ref /\ Image(t).chain = loc[t].chain
      BY <1>5 DEF Image
    <2>2. /\ req[t].op \in {"commit", "create", "update", "delete"}
          /\ pc[t] \in PutPart => loc[t].chain # << >>
      BY <1>2, <1>5 DEF Reaches, Works, Fetchers, Importers, DeletePart
    <2>3. req[t].ref \in Refs
      BY <1>2, <2>2, CallFacts
    <2>4. QED
      BY <1>3, <2>1, <2>2, <2>3 DEF Chains
  <1>6. QED
    BY <1>4, <1>5

LEMMA AfterPutFits ==
    ASSUME ThreadsFit, NEW t \in Threads, pc[t] \in PutPart, AfterPut(t), UNCHANGED req
    PROVE  ThreadsFit'
  <1>1. pc[t] # "idle" /\ pc[t] # "diff_lower"
    BY DEF PutPart
  <1>2. /\ req[t] \in Requests[t] /\ loc[t] \in Locals
        /\ Reaches(pc[t], req[t].op) /\ Works(pc[t], req[t], loc[t])
        /\ Follows(pc[t], req[t].op, loc[t])
    BY <1>1, Busy
  <1>3. req[t].op \in {"commit", "pull", "import", "single", "create", "update"}
    BY <1>2 DEF Reaches, Fetchers, Importers
  <1>4. CASE req[t].op = "commit"
    <2>1. Goto(t, "unpack") /\ UNCHANGED loc
      BY <1>4 DEF AfterPut
    <2>2. loc[t].loop = "none" /\ loc[t].next = "return" /\ loc[t].todo = << >>
          /\ loc[t].chain # << >>
      BY <1>1, <1>2, <1>4 DEF Follows, Works, Importers, Fetchers
    <2>3. Fits(t, "unpack", req[t], loc[t])
      BY <1>2, <1>4, <2>2 DEF Fits, Labels, Reaches, Follows, Works, Fetchers, Importers,
         MountPart, DiffPart, CommitPart, UnpackPart, LayerPart, WalkPart, DeletePart,
         FetchPart, PutPart
    <2>4. QED
      BY <2>1, <2>3, GotoFits
  <1>5. CASE req[t].op = "pull" /\ req[t].unpack
    <2> DEFINE l == [Blank EXCEPT !.chain = Image(t).chain]
    <2>1. Image(t).chain \in Chains
      BY RecordFacts
    <2>2. l \in Locals /\ l.chain # << >> /\ l.loop = "none" /\ l.next = "return"
      BY <2>1, BlankFacts DEF Locals, Chains
    <2>3. Goto(t, "unpack") /\ loc' = [loc EXCEPT ![t] = l]
      BY <1>5 DEF AfterPut
    <2> HIDE DEF l
    <2>4. Fits(t, "unpack", req[t], l)
      BY <1>2, <1>5, <2>2 DEF Fits, Labels, Reaches, Follows, Works, Fetchers, Importers,
         MountPart, DiffPart, CommitPart, UnpackPart, LayerPart, WalkPart, DeletePart,
         FetchPart, PutPart
    <2>5. QED
      BY <2>3, <2>4, StepFits
  <1>6. CASE (req[t].op = "pull" /\ ~ req[t].unpack) \/ req[t].op \in {"create", "update"}
    <2>1. Finish(t, FALSE)
      BY <1>6 DEF AfterPut
    <2>2. QED
      BY <1>1, <2>1, FinishFits
  <1>7. CASE req[t].op \in {"import", "single"}
    <2>1. AfterImported(t) /\ req[t].op \in Importers
      BY <1>7 DEF AfterPut, Importers
    <2>2. loc[t].todo # << >> /\ loc[t].todo \in Seq(Images)
      BY <1>2, <2>1 DEF Works, Fetchers, Locals
    <2>3. req[t].archive \in Seq(Images) /\ req[t].archive # << >>
      BY <1>2, <2>1, CallFacts DEF Fetchers
    <2>4. CASE Len(loc[t].todo) > 1
      <3> DEFINE l == [loc[t] EXCEPT !.todo = Tail(@)]
      <3>1. Tail(loc[t].todo) \in Seq(Images) /\ Tail(loc[t].todo) # << >>
        BY <2>2, <2>4, ImageFacts
      <3>2. l \in Locals /\ l.todo # << >>
        BY <1>2, <3>1 DEF Locals
      <3>3. Goto(t, "put_update") /\ loc' = [loc EXCEPT ![t] = l]
        BY <2>1, <2>4 DEF AfterImported
      <3> HIDE DEF l
      <3>4. Fits(t, "put_update", req[t], l)
        BY <1>2, <2>1, <3>2 DEF Fits, Labels, Reaches, Follows, Works, Fetchers, Importers,
           MountPart, DiffPart, CommitPart, UnpackPart, LayerPart, WalkPart, DeletePart,
           FetchPart, PutPart
      <3>5. QED
        BY <3>3, <3>4, StepFits
    <2>5. CASE ~ (Len(loc[t].todo) > 1) /\ req[t].unpack
      <3>1. UnpackFirst(t, req[t].archive, FALSE)
        BY <2>1, <2>5 DEF AfterImported
      <3>2. QED
        BY <1>1, <2>1, <2>3, <3>1, UnpackFirstFits
    <2>6. CASE ~ (Len(loc[t].todo) > 1) /\ ~ req[t].unpack
      BY <1>1, <2>1, <2>6, FetchedFits DEF AfterImported
    <2>7. QED
      BY <2>4, <2>5, <2>6
  <1>8. QED
    BY <1>3, <1>4, <1>5, <1>6, <1>7

\* On from a part that brings the content to one that stores the record, or
\* to another way to store it.
LEMMA PutGotoFits ==
    ASSUME ThreadsFit, NEW t \in Threads, pc[t] \in FetchPart \cup PutPart,
           NEW p \in PutPart \cup {"fetch_children"},
           p = "fetch_children" => pc[t] = "fetch",
           Goto(t, p), UNCHANGED <<req, loc>>
    PROVE  ThreadsFit'
  <1>1. pc[t] # "idle" /\ pc[t] # "diff_lower"
    BY DEF PutPart, FetchPart
  <1>2. /\ req[t] \in Requests[t] /\ loc[t] \in Locals
        /\ Reaches(pc[t], req[t].op) /\ Works(pc[t], req[t], loc[t])
        /\ Follows(pc[t], req[t].op, loc[t])
    BY <1>1, Busy
  <1>3. p \in FetchPart \cup PutPart /\ p # "idle" /\ p # "diff_lower"
    BY DEF FetchPart, PutPart
  <1>4. p \in Labels
    BY <1>3 DEF Labels, FetchPart, PutPart
  <1>5. Reaches(p, req[t].op)
    BY <1>2 DEF Reaches, MountPart, DiffPart, CommitPart, UnpackPart, LayerPart, WalkPart,
                DeletePart, FetchPart, PutPart, Fetchers, Importers
  <1>6. Follows(p, req[t].op, loc[t])
    BY <1>1, <1>2, <1>3 DEF Follows, UnpackPart, LayerPart, WalkPart, DeletePart, FetchPart,
                            PutPart
  <1>7. Works(p, req[t], loc[t])
    <2>1. pc[t] \in FetchPart => req[t].op \in Fetchers
      BY <1>2 DEF Reaches
    <2>2. p \notin UnpackPart \cup CommitPart \cup WalkPart \cup DeletePart \cup LayerPart
      BY <1>3 DEF FetchPart, PutPart, UnpackPart, LayerPart, CommitPart, WalkPart, DeletePart
    <2>3. p # "mount_lease"
      BY <1>3 DEF FetchPart, PutPart
    <2>4. QED
      BY <1>2, <1>3, <2>1, <2>2, <2>3 DEF Works
  <1>8. QED
    BY <1>2, <1>3, <1>4, <1>5, <1>6, <1>7, GotoFits DEF Fits

LEMMA ImageFits ==
    ASSUME ThreadsFit, ImagesTyped(images), NEW t \in Threads, ImageStep(t)
    PROVE  ThreadsFit'
  <1>1. CASE FetchManifest(t)
    <2>1. /\ pc[t] = "fetch" /\ pc[t] # "idle" /\ pc[t] \in FetchPart \cup PutPart
          /\ UNCHANGED req
      BY <1>1 DEF FetchManifest, At, FetchPart
    <2>2. (Goto(t, "fetch_children") /\ UNCHANGED loc) \/ Finish(t, TRUE)
      BY <1>1 DEF FetchManifest
    <2>3. QED
      BY <2>1, <2>2, PutGotoFits, FinishFits
  <1>2. CASE FetchChildren(t)
    <2> DEFINE p == IF req[t].op = "pull" THEN "put_create" ELSE "put_update"
    <2>1. /\ pc[t] # "idle" /\ pc[t] \in FetchPart \cup PutPart /\ UNCHANGED req
      BY <1>2 DEF FetchChildren, At, FetchPart
    <2>2. (Goto(t, p) /\ UNCHANGED loc) \/ Finish(t, TRUE)
      BY <1>2 DEF FetchChildren
    <2>3. p \in PutPart /\ p # "fetch_children"
      BY DEF PutPart
    <2> HIDE DEF p
    <2>4. QED
      BY <2>1, <2>2, <2>3, PutGotoFits, FinishFits
  <1>3. CASE PutUpdate(t)
    <2>1. /\ pc[t] \in PutPart /\ pc[t] # "idle" /\ UNCHANGED req
      BY <1>3 DEF PutUpdate, At, PutPart
    <2>2. AfterPut(t) \/ (Goto(t, "put_create") /\ UNCHANGED loc) \/ Finish(t, TRUE)
      BY <1>3 DEF PutUpdate
    <2>3. "put_create" \in PutPart
      BY DEF PutPart
    <2>4. QED
      BY <2>1, <2>2, <2>3, AfterPutFits, PutGotoFits, FinishFits
  <1>4. CASE PutCreate(t)
    <2>1. /\ pc[t] \in PutPart /\ pc[t] # "idle" /\ UNCHANGED req
      BY <1>4 DEF PutCreate, At, PutPart
    <2>2. AfterPut(t) \/ (Goto(t, "put_update") /\ UNCHANGED loc) \/ Finish(t, TRUE)
      BY <1>4 DEF PutCreate
    <2>3. "put_update" \in PutPart
      BY DEF PutPart
    <2>4. QED
      BY <2>1, <2>2, <2>3, AfterPutFits, PutGotoFits, FinishFits
  <1>5. CASE DeleteGet(t)
    <2>1. /\ pc[t] = "delete" /\ pc[t] # "idle" /\ pc[t] \in DeletePart
          /\ pc[t] \in UnpackPart \cup WalkPart \cup DeletePart /\ UNCHANGED req
      BY <1>5 DEF DeleteGet, At, DeletePart
    <2>2. CASE EndPart(t, TRUE)
      BY <2>1, <2>2, EndPartFits
    <2>3. CASE ~ EndPart(t, TRUE)
      <3> DEFINE l == [loc[t] EXCEPT !.chain = images[Image(t).ref]]
      <3>1. /\ Image(t).ref \in DOMAIN images /\ Goto(t, "delete_check")
            /\ loc' = [loc EXCEPT ![t] = l]
        BY <1>5, <2>3 DEF DeleteGet
      <3>2. images[Image(t).ref] \in Seq(Layers)
        BY <3>1 DEF ImagesTyped, Chains
      <3>3. /\ req[t] \in Requests[t] /\ loc[t] \in Locals
            /\ Reaches(pc[t], req[t].op) /\ Works(pc[t], req[t], loc[t])
            /\ Follows(pc[t], req[t].op, loc[t])
        BY <2>1, Busy
      <3>4. l \in Locals /\ l.loop = loc[t].loop /\ l.todo = loc[t].todo
            /\ l.next = loc[t].next
        BY <3>2, <3>3 DEF Locals
      <3> HIDE DEF l
      <3>5. Fits(t, "delete_check", req[t], l)
        BY <2>1, <3>3, <3>4 DEF Fits, Labels, Reaches, Follows, Works, Importers,
           MountPart, DiffPart, CommitPart, UnpackPart, LayerPart, WalkPart, DeletePart,
           FetchPart, PutPart
      <3>6. QED
        BY <2>1, <3>1, <3>5, StepFits
    <2>4. QED
      BY <2>2, <2>3
  <1>6. CASE DeleteCheck(t)
    <2>1. /\ pc[t] = "delete_check" /\ pc[t] # "idle" /\ pc[t] \in DeletePart
          /\ UNCHANGED req
      BY <1>6 DEF DeleteCheck, At, DeletePart
    <2>2. /\ req[t] \in Requests[t] /\ loc[t] \in Locals
          /\ Reaches(pc[t], req[t].op) /\ Works(pc[t], req[t], loc[t])
          /\ Follows(pc[t], req[t].op, loc[t])
      BY <2>1, Busy
    <2>3. CASE Goto(t, "delete_image") /\ UNCHANGED loc
      <3>1. Fits(t, "delete_image", req[t], loc[t])
        BY <2>1, <2>2 DEF Fits, Labels, Reaches, Follows, Works, Importers,
           MountPart, DiffPart, CommitPart, UnpackPart, LayerPart, WalkPart, DeletePart,
           FetchPart, PutPart
      <3>2. QED
        BY <2>1, <2>3, <3>1, GotoFits
    <2>4. CASE EndPart(t, TRUE)
      BY <2>1, <2>4, EndPartFits
    <2>5. CASE ~ (Goto(t, "delete_image") /\ UNCHANGED loc) /\ ~ EndPart(t, TRUE)
      <3> DEFINE c == Chain(loc[t].chain)
                 d == -1
                 l == [loc[t] EXCEPT !.cur = c, !.depth = d, !.next = "delete_image"]
      <3>1. Goto(t, "walk") /\ loc' = [loc EXCEPT ![t] = l]
        BY <1>6, <2>5 DEF DeleteCheck
      <3>2. c \in Somewhere /\ d \in Int
        BY <2>2, NameFacts DEF Locals
      <3> HIDE DEF c, d
      <3>3. l \in Locals /\ l.loop = loc[t].loop /\ l.todo = loc[t].todo
            /\ l.next = "delete_image"
        BY <2>2, <3>2 DEF Locals, Nexts
      <3> HIDE DEF l
      <3>4. Fits(t, "walk", req[t], l)
        BY <2>1, <2>2, <3>3 DEF Fits, Labels, Reaches, Follows, Works, Importers,
           MountPart, DiffPart, CommitPart, UnpackPart, LayerPart, WalkPart, DeletePart,
           FetchPart, PutPart
      <3>5. QED
        BY <2>1, <3>1, <3>4, StepFits
    <2>6. QED
      BY <2>3, <2>4, <2>5
  <1>7. CASE DeleteImage(t)
    <2>1. /\ pc[t] \in UnpackPart \cup WalkPart \cup DeletePart /\ UNCHANGED req
      BY <1>7 DEF DeleteImage, At, DeletePart
    <2>2. EndPart(t, FALSE) \/ EndPart(t, TRUE)
      BY <1>7 DEF DeleteImage
    <2>3. QED
      BY <2>1, <2>2, EndPartFits
  <1>8. QED
    BY <1>1, <1>2, <1>3, <1>4, <1>5, <1>6, <1>7 DEF ImageStep

-----------------------------------------------------------------------------
(* A call begins, returns, or is gone with its process.                    *)

\* A call begins at p, with no local variables but l.
LEMMA StartFits ==
    ASSUME ThreadsFit, NEW t \in Threads, NEW r \in Requests[t], NEW p, NEW l \in Locals,
           Start(t, r, p),
           loc' = [loc EXCEPT ![t] = l] \/ (l = loc[t] /\ UNCHANGED loc),
           p \in Labels \ {"idle"}, Reaches(p, r.op), Follows(p, r.op, l), Works(p, r, l)
    PROVE  ThreadsFit'
  <1>1. Fits(t, p, r, l)
    BY DEF Fits
  <1>2. loc' = [loc EXCEPT ![t] = l]
    BY DEF ThreadsFit
  <1>3. QED
    BY <1>1, <1>2, MoveFits DEF Start, Goto

\* A call that begins with no local variables set.
LEMMA PlainStartFits ==
    ASSUME ThreadsFit, NEW t \in Threads, NEW r \in Requests[t],
           NEW p \in {"umount_lease", "return", "commit", "delete", "label_stat",
                      "label_write", "look"},
           Start(t, r, p),
           UNCHANGED loc, Reaches(p, r.op), p = "delete" => r.op = "delete"
    PROVE  ThreadsFit'
  <1>1. loc[t] = Blank
    BY DEF Start, At, ThreadsFit, Fits
  <1>2. p \in Labels \ {"idle"}
    BY DEF Labels
  <1>3. Follows(p, r.op, loc[t])
    BY <1>1, BlankFacts DEF Follows, UnpackPart, LayerPart, WalkPart, DeletePart
  <1>4. Works(p, r, loc[t])
    BY <1>1, BlankFacts DEF Works, UnpackPart, LayerPart, WalkPart, DeletePart, CommitPart,
                            FetchPart, PutPart
  <1>5. QED
    BY <1>1, <1>2, <1>3, <1>4, BlankFacts, StartFits

LEMMA BeginFits ==
    ASSUME ThreadsFit, ImagesTyped(images), NEW t \in Threads, Begin(t)
    PROVE  ThreadsFit'
  <1>1. CASE MountStart(t)
    <2>1. PICK r \in Requests[t] :
            /\ r.op = "mount"
            /\ r.ref = NoRef \/ r.ref \in DOMAIN images
            /\ Start(t, r, "mount_lease")
            /\ loc' = [loc EXCEPT ![t].chain =
                         IF r.ref = NoRef THEN << >> ELSE images[r.ref]]
      BY <1>1 DEF MountStart
    <2> DEFINE c == IF r.ref = NoRef THEN << >> ELSE images[r.ref]
               l == [Blank EXCEPT !.chain = c]
    <2>2. loc[t] = Blank
      BY <2>1 DEF Start, At, ThreadsFit, Fits
    <2>3. loc' = [loc EXCEPT ![t] = l]
      BY <2>1, <2>2
    <2>4. c \in Seq(Layers) /\ (r.ref # NoRef => c # << >>)
      BY <2>1 DEF ImagesTyped, Chains
    <2> HIDE DEF c
    <2>5. l \in Locals /\ l.chain = c /\ l.loop = "none"
      BY <2>4, BlankFacts DEF Locals
    <2> HIDE DEF l
    <2>6. r.unpack => r.ref # NoRef
      BY <2>1, CallFacts
    <2>7. /\ "mount_lease" \in Labels \ {"idle"}
          /\ Reaches("mount_lease", r.op)
          /\ Follows("mount_lease", r.op, l)
          /\ Works("mount_lease", r, l)
      BY <2>1, <2>4, <2>5, <2>6 DEF Labels, Reaches, Follows, Works, MountPart, DiffPart,
         CommitPart, UnpackPart, LayerPart, WalkPart, DeletePart, FetchPart, PutPart, Importers
    <2>8. QED
      BY <2>1, <2>3, <2>5, <2>7, StartFits
  <1>2. CASE UmountStart(t)
    <2>1. PICK r \in Requests[t] :
            /\ r.op = "umount"
            /\ \/ Start(t, r, IF r.rm = 0 THEN "return" ELSE "umount_lease") /\ UNCHANGED loc
               \/ Start(t, r, "return") /\ loc' = [loc EXCEPT ![t].err = TRUE]
      BY <1>2 DEF UmountStart
    <2>2. Reaches("return", r.op) /\ Reaches("umount_lease", r.op)
      BY <2>1 DEF Reaches, MountPart, DiffPart,
         CommitPart, UnpackPart, LayerPart, WalkPart, DeletePart, FetchPart, PutPart
    <2>3. CASE Start(t, r, IF r.rm = 0 THEN "return" ELSE "umount_lease") /\ UNCHANGED loc
      <3>1. PICK p \in {"return", "umount_lease"} : Start(t, r, p)
        BY <2>3
      <3>2. Reaches(p, r.op) /\ p # "delete"
        BY <2>2
      <3>3. QED
        BY <2>1, <2>3, <3>1, <3>2, PlainStartFits
    <2>4. CASE Start(t, r, "return") /\ loc' = [loc EXCEPT ![t].err = TRUE]
      <3> DEFINE l == [Blank EXCEPT !.err = TRUE]
      <3>1. loc[t] = Blank
        BY <2>4 DEF Start, At, ThreadsFit, Fits
      <3>2. loc' = [loc EXCEPT ![t] = l]
        BY <2>4, <3>1
      <3>3. l \in Locals /\ l.loop = "none" /\ l.next = "return"
        BY BlankFacts DEF Locals
      <3> HIDE DEF l
      <3>4. /\ "return" \in Labels \ {"idle"}
            /\ Follows("return", r.op, l)
            /\ Works("return", r, l)
        BY <2>1, <3>3 DEF Labels, Follows, Works, CommitPart, UnpackPart, LayerPart, WalkPart,
           DeletePart, FetchPart, PutPart
      <3>5. QED
        BY <2>1, <2>2, <2>4, <3>2, <3>3, <3>4, StartFits
    <2>5. QED
      BY <2>1, <2>3, <2>4
  <1>3. CASE CommitStart(t)
    <2>1. PICK r \in Requests[t] : r.op = "commit" /\ Start(t, r, "commit") /\ UNCHANGED loc
      BY <1>3 DEF CommitStart
    <2>2. Reaches("commit", r.op)
      BY <2>1 DEF Reaches, MountPart, DiffPart,
         CommitPart, UnpackPart, LayerPart, WalkPart, DeletePart, FetchPart, PutPart
    <2>3. QED
      BY <2>1, <2>2, PlainStartFits
  <1>4. CASE FetchStart(t)
    <2>1. PICK r \in Requests[t] :
            /\ r.op \in {"import", "single", "pull"}
            /\ Start(t, r, "fetch")
            /\ loc' = [loc EXCEPT ![t].todo = r.archive]
      BY <1>4 DEF FetchStart
    <2> DEFINE l == [Blank EXCEPT !.todo = r.archive]
    <2>2. loc[t] = Blank
      BY <2>1 DEF Start, At, ThreadsFit, Fits
    <2>3. loc' = [loc EXCEPT ![t] = l]
      BY <2>1, <2>2
    <2>4. r.archive \in Seq(Images) /\ r.archive # << >>
      BY <2>1, CallFacts DEF Fetchers, Importers
    <2>5. l \in Locals /\ l.todo = r.archive /\ l.loop = "none"
      BY <2>4, BlankFacts DEF Locals
    <2> HIDE DEF l
    <2>6. /\ "fetch" \in Labels \ {"idle"}
          /\ Reaches("fetch", r.op)
          /\ Follows("fetch", r.op, l)
          /\ Works("fetch", r, l)
      BY <2>1, <2>4, <2>5 DEF Labels, Reaches, Follows, Works, MountPart, DiffPart,
         CommitPart, UnpackPart, LayerPart, WalkPart, DeletePart, FetchPart, PutPart,
         Fetchers, Importers
    <2>7. QED
      BY <2>1, <2>3, <2>5, <2>6, StartFits
  <1>5. CASE RecordStart(t)
    <2>1. PICK r \in Requests[t] :
            /\ r.op \in {"create", "update"}
            /\ Start(t, r, IF r.op = "create" THEN "put_create" ELSE "put_update")
            /\ loc' = [loc EXCEPT ![t].chain = r.chain]
      BY <1>5 DEF RecordStart
    <2> DEFINE l == [Blank EXCEPT !.chain = r.chain]
               p == IF r.op = "create" THEN "put_create" ELSE "put_update"
    <2>2. loc[t] = Blank
      BY <2>1 DEF Start, At, ThreadsFit, Fits
    <2>3. loc' = [loc EXCEPT ![t] = l]
      BY <2>1, <2>2
    <2>4. r.chain \in Chains
      BY <2>1, CallFacts
    <2>5. l \in Locals /\ l.chain # << >> /\ l.loop = "none" /\ l.todo = << >>
      BY <2>4, BlankFacts DEF Locals, Chains
    <2> HIDE DEF l
    <2>6. /\ p \in Labels \ {"idle"}
          /\ Reaches(p, r.op)
          /\ Follows(p, r.op, l)
          /\ Works(p, r, l)
      BY <2>1, <2>5 DEF Labels, Reaches, Follows, Works, MountPart, DiffPart,
         CommitPart, UnpackPart, LayerPart, WalkPart, DeletePart, FetchPart, PutPart,
         Fetchers, Importers
    <2>7. QED
      BY <2>1, <2>3, <2>5, <2>6, StartFits
  <1>6. CASE UnpackStart(t)
    <2>1. PICK r \in Requests[t] :
            /\ r.op = "unpack"
            /\ r.ref \in DOMAIN images
            /\ Start(t, r, "unpack")
            /\ loc' = [loc EXCEPT ![t].chain = images[r.ref]]
      BY <1>6 DEF UnpackStart
    <2> DEFINE l == [Blank EXCEPT !.chain = images[r.ref]]
    <2>2. loc[t] = Blank
      BY <2>1 DEF Start, At, ThreadsFit, Fits
    <2>3. loc' = [loc EXCEPT ![t] = l]
      BY <2>1, <2>2
    <2>4. images[r.ref] \in Chains
      BY <2>1 DEF ImagesTyped
    <2>5. l \in Locals /\ l.chain # << >> /\ l.loop = "none" /\ l.next = "return"
      BY <2>4, BlankFacts DEF Locals, Chains
    <2> HIDE DEF l
    <2>6. /\ "unpack" \in Labels \ {"idle"}
          /\ Reaches("unpack", r.op)
          /\ Follows("unpack", r.op, l)
          /\ Works("unpack", r, l)
      BY <2>1, <2>5 DEF Labels, Reaches, Follows, Works, MountPart, DiffPart,
         CommitPart, UnpackPart, LayerPart, WalkPart, DeletePart, FetchPart, PutPart,
         Fetchers, Importers
    <2>7. QED
      BY <2>1, <2>3, <2>5, <2>6, StartFits
  <1>7. CASE DeleteStart(t)
    <2>1. PICK r \in Requests[t] : r.op = "delete" /\ Start(t, r, "delete") /\ UNCHANGED loc
      BY <1>7 DEF DeleteStart
    <2>2. Reaches("delete", r.op)
      BY <2>1 DEF Reaches, MountPart, DiffPart,
         CommitPart, UnpackPart, LayerPart, WalkPart, DeletePart, FetchPart, PutPart
    <2>3. QED
      BY <2>1, <2>2, PlainStartFits
  <1>8. CASE LabelStart(t)
    <2>1. PICK r \in Requests[t] :
            /\ r.op \in {"label", "update_labels"}
            /\ Start(t, r, IF r.op = "label" THEN "label_stat" ELSE "label_write")
            /\ UNCHANGED loc
      BY <1>8 DEF LabelStart
    <2> DEFINE p == IF r.op = "label" THEN "label_stat" ELSE "label_write"
    <2>2. /\ p \in {"label_stat", "label_write"}
          /\ Reaches(p, r.op)
      BY <2>1 DEF Reaches, MountPart, DiffPart,
         CommitPart, UnpackPart, LayerPart, WalkPart, DeletePart, FetchPart, PutPart
    <2>3. Start(t, r, p)
      BY <2>1
    <2> HIDE DEF p
    <2>4. QED
      BY <2>1, <2>2, <2>3, PlainStartFits
  <1>9. CASE LookStart(t)
    <2>1. PICK r \in Requests[t] : r.op = "look" /\ Start(t, r, "look") /\ UNCHANGED loc
      BY <1>9 DEF LookStart
    <2>2. Reaches("look", r.op)
      BY <2>1 DEF Reaches, MountPart, DiffPart,
         CommitPart, UnpackPart, LayerPart, WalkPart, DeletePart, FetchPart, PutPart
    <2>3. QED
      BY <2>1, <2>2, PlainStartFits
  <1>10. QED
    BY <1>1, <1>2, <1>3, <1>4, <1>5, <1>6, <1>7, <1>8, <1>9 DEF Begin

LEMMA IdleFits ==
    ASSUME NEW t
    PROVE  Fits(t, "idle", NoReq, Blank)
  BY BlankFacts DEF Fits, Labels

LEMMA ReturnFits ==
    ASSUME ThreadsFit, NEW t \in Threads, Return(t)
    PROVE  ThreadsFit'
  <1>1. /\ pc' = [pc EXCEPT ![t] = "idle"] /\ req' = [req EXCEPT ![t] = NoReq]
        /\ loc' = [loc EXCEPT ![t] = Blank]
    BY DEF Return, Goto
  <1>2. QED
    BY <1>1, IdleFits, MoveFits

LEMMA ProcessEndsFits ==
    ASSUME ProcessEnds
    PROVE  ThreadsFit'
  <1>1. /\ pc' = [t \in Threads |-> "idle"] /\ req' = [t \in Threads |-> NoReq]
        /\ loc' = [t \in Threads |-> Blank]
    BY DEF ProcessEnds
  <1>2. /\ pc' = [t \in Threads |-> pc'[t]] /\ req' = [t \in Threads |-> req'[t]]
        /\ loc' = [t \in Threads |-> loc'[t]]
        /\ \A t \in Threads : pc'[t] = "idle" /\ req'[t] = NoReq /\ loc'[t] = Blank
    BY <1>1
  <1>3. \A t \in Threads : Fits(t, pc'[t], req'[t], loc'[t])
    BY <1>2, IdleFits
  <1>4. QED
    BY <1>2, <1>3 DEF ThreadsFit, Fits

LEMMA NextFits ==
    ASSUME TInv, [Next]_vars
    PROVE  ThreadsFit'
  <1>1. ThreadsFit /\ SnapsTyped(snaps) /\ ImagesTyped(images) /\ MountsFollow(snaps, mounts, dir)
    BY DEF TInv, StoreTyped
  <1>2. ASSUME NEW t \in Threads, Begin(t) \/ Step(t) \/ MountPanic(t)
        PROVE  ThreadsFit'
    <2>1. CASE Begin(t)
      BY <1>1, <2>1, BeginFits
    <2>2. CASE Step(t)
      BY <1>1, <2>2, UnpackFits, RemovalFits, MountFits, CommitFits, ImageFits, ImportFits,
         LabelFits, ReturnFits DEF Step
    <2>3. CASE MountPanic(t)
      BY <2>3, ProcessEndsFits DEF MountPanic
    <2>4. QED
      BY <1>2, <2>1, <2>2, <2>3
  <1>3. CASE UserWrite
    BY <1>1, <1>3 DEF UserWrite, thread, ThreadsFit, Fits
  <1>4. CASE Kill \/ Reboot
    BY <1>4, ProcessEndsFits DEF Kill, Reboot
  <1>5. CASE UNCHANGED vars
    BY <1>1, <1>5 DEF vars, ThreadsFit, Fits
  <1>6. QED
    BY <1>2, <1>3, <1>4, <1>5 DEF Next

-----------------------------------------------------------------------------
(* The types of the store: what each transaction does to them.             *)

LEMMA CreatedTyped ==
    ASSUME NEW s, SnapsTyped(s), NEW kind \in {"active", "view"}, NEW n \in Names,
           NEW p \in Somewhere, NEW label \in Refs \cup {NoRef}
    PROVE  /\ SnapsTyped(Created(s, kind, n, p, label))
           /\ DOMAIN Created(s, kind, n, p, label) = DOMAIN s \cup {n}
  <1> DEFINE r == [kind |-> kind, parent |-> p, label |-> label, diff |-> {}]
  <1>1. r \in Snapshots
    BY DEF Snapshots, Kinds, Layers
  <1> HIDE DEF r
  <1>2. /\ DOMAIN Put(s, n, r) = DOMAIN s \cup {n}
        /\ \A m \in DOMAIN s \cup {n} : Put(s, n, r)[m] = IF m = n THEN r ELSE s[m]
    BY DEF Put
  <1>3. SnapsTyped(Put(s, n, r))
    BY <1>1, <1>2 DEF SnapsTyped
  <1>4. QED
    BY <1>2, <1>3 DEF Created, r

LEMMA RemovedTyped ==
    ASSUME NEW s, SnapsTyped(s), NEW n
    PROVE  SnapsTyped(Removed(s, n))
  <1>1. /\ DOMAIN Removed(s, n) = DOMAIN s \ {n}
        /\ \A m \in DOMAIN s \ {n} : Removed(s, n)[m] = s[m]
    BY RemovedFacts
  <1>2. QED
    BY <1>1 DEF SnapsTyped

LEMMA CommittedTyped ==
    ASSUME NEW s, SnapsTyped(s), NEW n \in DOMAIN s, NEW c \in Names,
           NEW label \in Refs \cup {NoRef}
    PROVE  /\ SnapsTyped(Committed(s, n, c, label))
           /\ DOMAIN Committed(s, n, c, label) = (DOMAIN s \ {n}) \cup {c}
  <1> DEFINE r == [s[n] EXCEPT !.kind = "committed", !.label = label]
             u == Removed(s, n)
  <1>1. r \in Snapshots
    <2>1. s[n] \in Snapshots
      BY DEF SnapsTyped
    <2>2. QED
      BY <2>1 DEF Snapshots, Kinds
  <1>2. SnapsTyped(u) /\ DOMAIN u = DOMAIN s \ {n}
    BY RemovedTyped, RemovedFacts
  <1>3. Committed(s, n, c, label) = Put(u, c, r)
    BY DEF Committed
  <1> HIDE DEF r, u
  <1>4. /\ DOMAIN Put(u, c, r) = DOMAIN u \cup {c}
        /\ \A m \in DOMAIN u \cup {c} : Put(u, c, r)[m] = IF m = c THEN r ELSE u[m]
    BY DEF Put
  <1>5. SnapsTyped(Put(u, c, r))
    BY <1>1, <1>2, <1>4 DEF SnapsTyped
  <1>6. QED
    BY <1>2, <1>3, <1>4, <1>5

LEMMA WrittenTyped ==
    ASSUME NEW s, SnapsTyped(s), NEW n, NEW d \in Layers
    PROVE  /\ SnapsTyped(Written(s, n, d))
           /\ DOMAIN Written(s, n, d) = DOMAIN s
  <1>1. /\ DOMAIN Written(s, n, d) = DOMAIN s
        /\ \A m \in DOMAIN s : Written(s, n, d)[m] =
                IF m = n THEN [s[m] EXCEPT !.diff = @ \cup d] ELSE s[m]
    BY DEF Written
  <1>2. \A m \in DOMAIN s : [s[m] EXCEPT !.diff = @ \cup d] \in Snapshots
    <2>1. TAKE m \in DOMAIN s
    <2>2. s[m] \in Snapshots
      BY DEF SnapsTyped
    <2>3. s[m].diff \cup d \in Layers
      BY <2>2 DEF Snapshots, Layers
    <2>4. QED
      BY <2>2, <2>3 DEF Snapshots
  <1>3. QED
    BY <1>1, <1>2 DEF SnapsTyped

LEMMA RelabelledTyped ==
    ASSUME NEW s, SnapsTyped(s), NEW n, NEW label \in Refs \cup {NoRef}
    PROVE  /\ SnapsTyped(Relabelled(s, n, label))
           /\ DOMAIN Relabelled(s, n, label) = DOMAIN s
  <1>1. /\ DOMAIN Relabelled(s, n, label) = DOMAIN s
        /\ \A m \in DOMAIN s : Relabelled(s, n, label)[m] =
                IF m = n THEN [s[m] EXCEPT !.label = label] ELSE s[m]
    BY DEF Relabelled
  <1>2. \A m \in DOMAIN s : [s[m] EXCEPT !.label = label] \in Snapshots
    BY DEF SnapsTyped, Snapshots
  <1>3. QED
    BY <1>1, <1>2 DEF SnapsTyped

\* The mounts, and those the calls hold, when no snapshot goes ...
LEMMA GrowFollows ==
    ASSUME NEW s, NEW s2, NEW ms, NEW ms2, NEW ds, NEW ds2, MountsFollow(s, ms, ds),
           DOMAIN s \subseteq DOMAIN s2, ms2 \subseteq ms,
           NEW t, NEW d, d = Gone \/ d \in DOMAIN s2,
           ds2 = ds \/ ds2 = [ds EXCEPT ![t] = d]
    PROVE  MountsFollow(s2, ms2, ds2)
  BY DEF MountsFollow

\* ... when one is removed ...
LEMMA RemoveFollows ==
    ASSUME StoreTyped, NEW n, RemoveSnapshot(n)
    PROVE  SnapsTyped(snaps') /\ MountsFollow(snaps', mounts', dir')
  <1>1. /\ snaps' = Removed(snaps, n)
        /\ mounts' = {m \in mounts : m.snap # n}
        /\ dir' = [t \in Threads |-> IF dir[t] = n THEN Gone ELSE dir[t]]
    BY DEF RemoveSnapshot
  <1>2. DOMAIN snaps' = DOMAIN snaps \ {n} /\ SnapsTyped(snaps')
    BY <1>1, RemovedFacts, RemovedTyped DEF StoreTyped
  <1>3. mounts' \subseteq Mounted /\ \A m \in mounts' : m.snap \in DOMAIN snaps'
    BY <1>1, <1>2 DEF StoreTyped, MountsFollow
  <1>4. /\ dir' = [t \in Threads |-> dir'[t]]
        /\ \A t \in Threads : dir'[t] = Gone \/ dir'[t] \in DOMAIN snaps'
    BY <1>1, <1>2 DEF StoreTyped, MountsFollow
  <1>5. QED
    BY <1>2, <1>3, <1>4 DEF MountsFollow

\* ... and when one is committed.
LEMMA CommitFollows ==
    ASSUME StoreTyped, NEW n \in DOMAIN snaps, NEW c \in Names, CommitSnapshot(n, c)
    PROVE  SnapsTyped(snaps') /\ MountsFollow(snaps', mounts', dir')
  <1>1. /\ snaps' = Committed(snaps, n, c, NoRef)
        /\ mounts' = {IF m.snap = n THEN [m EXCEPT !.snap = c] ELSE m : m \in mounts}
        /\ dir' = [t \in Threads |-> IF dir[t] = n THEN c ELSE dir[t]]
    BY DEF CommitSnapshot
  <1>2. DOMAIN snaps' = (DOMAIN snaps \ {n}) \cup {c} /\ SnapsTyped(snaps')
    <2>1. SnapsTyped(snaps) /\ NoRef \in Refs \cup {NoRef}
      BY DEF StoreTyped
    <2>2. SnapsTyped(Committed(snaps, n, c, NoRef))
      BY <2>1, CommittedTyped
    <2>3. DOMAIN Committed(snaps, n, c, NoRef) = (DOMAIN snaps \ {n}) \cup {c}
      BY DEF Committed, Put, Removed, Restrict
    <2>4. QED
      BY <1>1, <2>2, <2>3
  <1>3. \A m \in mounts : [m EXCEPT !.snap = c] \in Mounted /\ [m EXCEPT !.snap = c].snap = c
    BY DEF StoreTyped, MountsFollow, Mounted
  <1>4. mounts' \subseteq Mounted /\ \A m \in mounts' : m.snap \in DOMAIN snaps'
    BY <1>1, <1>2, <1>3 DEF StoreTyped, MountsFollow
  <1>5. /\ dir' = [t \in Threads |-> dir'[t]]
        /\ \A t \in Threads : dir'[t] = Gone \/ dir'[t] \in DOMAIN snaps'
    BY <1>1, <1>2 DEF StoreTyped, MountsFollow
  <1>6. QED
    BY <1>2, <1>4, <1>5 DEF MountsFollow

-----------------------------------------------------------------------------
(* The transactions as steps of the store.                                 *)

LEMMA StoreSame ==
    ASSUME StoreTyped, NEW t,
           leases' \subseteq Names, mounts' \subseteq mounts, UNCHANGED <<snaps, images>>,
           serial' = serial \/ serial' \in Serials, NEW d, d = Gone \/ d \in DOMAIN snaps,
           UNCHANGED dir \/ dir' = [dir EXCEPT ![t] = d]
    PROVE  StoreTyped'
  <1>1. MountsFollow(snaps', mounts', dir')
    BY GrowFollows DEF StoreTyped
  <1>2. QED
    BY <1>1 DEF StoreTyped, SnapsTyped, ImagesTyped, MountsFollow

LEMMA StoreUnchanged ==
    ASSUME StoreTyped, UNCHANGED <<snaps, images, leases, mounts, serial, dir>>
    PROVE  StoreTyped'
  BY DEF StoreTyped, SnapsTyped, ImagesTyped, MountsFollow

LEMMA StoreGrown ==
    ASSUME StoreTyped, SnapsTyped(snaps'), DOMAIN snaps \subseteq DOMAIN snaps',
           UNCHANGED <<images, leases, mounts, serial>>,
           NEW t, NEW d, d = Gone \/ d \in DOMAIN snaps',
           UNCHANGED dir \/ dir' = [dir EXCEPT ![t] = d]
    PROVE  StoreTyped'
  <1>1. MountsFollow(snaps', mounts', dir')
    BY GrowFollows DEF StoreTyped
  <1>2. QED
    BY <1>1 DEF StoreTyped, SnapsTyped, ImagesTyped, MountsFollow

LEMMA StoreCreated ==
    ASSUME StoreTyped, NEW kind \in {"active", "view"}, NEW n \in Names,
           NEW p \in Somewhere, NEW label \in Refs \cup {NoRef},
           snaps' = Created(snaps, kind, n, p, label),
           UNCHANGED <<images, leases, mounts, serial>>,
           NEW t, NEW d, d = n \/ d \in DOMAIN snaps,
           UNCHANGED dir \/ dir' = [dir EXCEPT ![t] = d]
    PROVE  StoreTyped'
  <1>1. SnapsTyped(snaps)
    BY DEF StoreTyped
  <1>2. SnapsTyped(snaps')
    BY <1>1, CreatedTyped
  <1>3. DOMAIN snaps' = DOMAIN snaps \cup {n}
    BY DEF Created, Put
  <1>4. QED
    BY <1>2, <1>3, StoreGrown

LEMMA StoreWritten ==
    ASSUME StoreTyped, NEW n, NEW d \in Layers, snaps' = Written(snaps, n, d),
           UNCHANGED <<images, leases, mounts, serial, dir>>
    PROVE  StoreTyped'
  <1>1. SnapsTyped(snaps)
    BY DEF StoreTyped
  <1>2. SnapsTyped(snaps')
    BY <1>1, WrittenTyped
  <1>3. DOMAIN snaps' = DOMAIN snaps
    BY DEF Written
  <1>4. QED
    BY <1>2, <1>3, StoreGrown

LEMMA StoreRelabelled ==
    ASSUME StoreTyped, NEW n, NEW label \in Refs \cup {NoRef},
           snaps' = Relabelled(snaps, n, label),
           UNCHANGED <<images, leases, mounts, serial, dir>>
    PROVE  StoreTyped'
  <1>1. SnapsTyped(snaps)
    BY DEF StoreTyped
  <1>2. SnapsTyped(snaps')
    BY <1>1, RelabelledTyped
  <1>3. DOMAIN snaps' = DOMAIN snaps
    BY DEF Relabelled
  <1>4. QED
    BY <1>2, <1>3, StoreGrown

LEMMA StoreRemoved ==
    ASSUME StoreTyped, NEW n, RemoveSnapshot(n), UNCHANGED <<images, leases, serial>>
    PROVE  StoreTyped'
  <1>1. SnapsTyped(snaps') /\ MountsFollow(snaps', mounts', dir')
    BY RemoveFollows
  <1>2. QED
    BY <1>1 DEF StoreTyped, SnapsTyped, ImagesTyped, MountsFollow

LEMMA LoseTyped ==
    ASSUME serial \in Serials, NEW kind \in TempKinds, NEW t \in Threads, Lose(kind, t)
    PROVE  serial' \in Serials
  BY DEF Lose, Serials

LEMMA StoreCleared ==
    ASSUME StoreTyped, NEW kind \in TempKinds, NEW t \in Threads,
           \/ RemoveSnapshot(Temp(kind, t)) /\ UNCHANGED serial
           \/ Lose(kind, t) /\ UNCHANGED <<snaps, mounts, dir>>,
           UNCHANGED <<images, leases>>
    PROVE  StoreTyped'
  <1>1. CASE RemoveSnapshot(Temp(kind, t)) /\ UNCHANGED serial
    BY <1>1, StoreRemoved
  <1>2. CASE Lose(kind, t) /\ UNCHANGED <<snaps, mounts, dir>>
    <2>1. serial' \in Serials
      BY <1>2, LoseTyped DEF StoreTyped
    <2>2. QED
      BY <1>2, <2>1 DEF StoreTyped, SnapsTyped, ImagesTyped, MountsFollow
  <1>3. QED
    BY <1>1, <1>2

LEMMA StoreCommitted ==
    ASSUME StoreTyped, NEW n, NEW c \in Names, CommitResult(snaps, n, c) = "ok",
           CommitSnapshot(n, c), UNCHANGED <<images, leases, serial>>
    PROVE  StoreTyped'
  <1>1. n \in DOMAIN snaps
    BY DEF CommitResult
  <1>2. SnapsTyped(snaps') /\ MountsFollow(snaps', mounts', dir')
    BY <1>1, CommitFollows
  <1>3. QED
    BY <1>2 DEF StoreTyped, SnapsTyped, ImagesTyped, MountsFollow

LEMMA StoreRecorded ==
    ASSUME StoreTyped, ImagesTyped(images'), UNCHANGED <<snaps, leases, mounts, serial, dir>>
    PROVE  StoreTyped'
  BY DEF StoreTyped, SnapsTyped, ImagesTyped, MountsFollow

LEMMA TempNames ==
    ASSUME StoreTyped, NEW t \in Threads
    PROVE  /\ Extract(t) \in Names /\ Lower(t) \in Names /\ Upper(t) \in Names
           /\ Temp("lease", t) \in Names
  BY NameFacts DEF StoreTyped, Serials, Extract, Lower, Upper, Temp, TempKinds

-----------------------------------------------------------------------------
(* The types of the store: what each part does to them.                    *)

LEMMA UnpackTypes ==
    ASSUME TInv, NEW t \in Threads, UnpackStep(t)
    PROVE  StoreTyped'
  <1>1. StoreTyped /\ ThreadsFit
    BY DEF TInv
  <1>2. CASE CheckUnpacked(t)
    BY <1>1, <1>2, StoreUnchanged DEF CheckUnpacked, store
  <1>3. ASSUME pc[t] \in LayerPart
        PROVE  /\ loc[t].chain[loc[t].i] \in Layers
               /\ Below(t) \in Somewhere
               /\ UpTo(t) \in Names
    <2>1. pc[t] # "idle"
      BY <1>3 DEF LayerPart
    <2>2. loc[t].chain \in Seq(Layers) /\ loc[t].i \in 1..Len(loc[t].chain)
      BY <1>1, <1>3, <2>1, Busy DEF Works, Locals
    <2>3. QED
      BY <2>2, LayerFacts, NameFacts DEF Below, UpTo
  <1>4. CASE PrepareLayer(t)
    <2>1. /\ Below(t) \in Somewhere /\ Extract(t) \in Names /\ "active" \in {"active", "view"}
          /\ NoRef \in Refs \cup {NoRef}
      BY <1>1, <1>3, <1>4, TempNames DEF PrepareLayer, At, LayerPart
    <2>2. UNCHANGED <<images, leases, mounts, serial, dir>>
      BY <1>4 DEF PrepareLayer
    <2>3. \/ snaps' = Created(snaps, "active", Extract(t), Below(t), NoRef)
          \/ UNCHANGED snaps
      BY <1>4 DEF PrepareLayer
    <2>4. CASE snaps' = Created(snaps, "active", Extract(t), Below(t), NoRef)
      BY <1>1, <2>1, <2>2, <2>4, StoreCreated
    <2>5. QED
      BY <1>1, <2>2, <2>3, <2>4, StoreUnchanged
  <1>5. CASE ApplyLayer(t)
    <2>1. loc[t].chain[loc[t].i] \in Layers
      BY <1>3, <1>5 DEF ApplyLayer, At, LayerPart
    <2>2. UNCHANGED <<images, leases, mounts, serial, dir>>
      BY <1>5 DEF ApplyLayer
    <2>3. \/ snaps' = Written(snaps, Extract(t), loc[t].chain[loc[t].i])
          \/ UNCHANGED snaps
      BY <1>5 DEF ApplyLayer
    <2>4. QED
      BY <1>1, <2>1, <2>2, <2>3, StoreWritten, StoreUnchanged
  <1>6. CASE CommitLayer(t)
    <2>1. UpTo(t) \in Names
      BY <1>3, <1>6 DEF CommitLayer, At, LayerPart
    <2>2. UNCHANGED <<images, leases, serial>>
      BY <1>6 DEF CommitLayer
    <2>3. \/ /\ CommitResult(snaps, Extract(t), UpTo(t)) = "ok"
             /\ CommitSnapshot(Extract(t), UpTo(t))
          \/ UNCHANGED <<snaps, mounts, dir>>
      BY <1>6 DEF CommitLayer
    <2>4. QED
      BY <1>1, <2>1, <2>2, <2>3, StoreCommitted, StoreUnchanged
  <1>7. CASE AbortLayer(t)
    BY <1>1, <1>7, StoreCleared DEF AbortLayer, Extract, TempKinds
  <1>8. QED
    BY <1>2, <1>4, <1>5, <1>6, <1>7 DEF UnpackStep

LEMMA RemovalTypes ==
    ASSUME TInv, NEW t \in Threads, RemovalStep(t)
    PROVE  StoreTyped'
  <1>1. StoreTyped
    BY DEF TInv
  <1>2. CASE StatLink(t)
    BY <1>1, <1>2, StoreUnchanged DEF StatLink, store
  <1>3. CASE RemoveLink(t)
    BY <1>1, <1>3, StoreRemoved, StoreUnchanged DEF RemoveLink
  <1>4. QED
    BY <1>2, <1>3 DEF RemovalStep

LEMMA LabelTypes ==
    ASSUME TInv, NEW t \in Threads, LabelStep(t)
    PROVE  StoreTyped'
  <1>1. StoreTyped /\ ThreadsFit
    BY DEF TInv
  <1>2. CASE LabelStat(t) \/ Look(t)
    BY <1>1, <1>2, StoreUnchanged DEF LabelStat, Look, store
  <1>3. CASE LabelWrite(t)
    <2>1. pc[t] = "label_write" /\ pc[t] # "idle"
      BY <1>3 DEF LabelWrite, At
    <2>2. /\ req[t] \in Requests[t] /\ loc[t].ref \in Refs \cup {NoRef}
          /\ req[t].op \in {"label", "update_labels"}
      BY <1>1, <2>1, Busy DEF Locals, Reaches
    <2>3. \A label \in NewLabels(t) : label \in Refs \cup {NoRef}
      BY <2>2, CallFacts DEF NewLabels
    <2>4. UNCHANGED <<images, leases, mounts, serial, dir>>
      BY <1>3 DEF LabelWrite
    <2>5. CASE UNCHANGED snaps
      BY <1>1, <2>4, <2>5, StoreUnchanged
    <2>6. CASE \E label \in NewLabels(t) : snaps' = Relabelled(snaps, req[t].name, label)
      BY <1>1, <2>3, <2>4, <2>6, StoreRelabelled
    <2>7. QED
      BY <1>3, <2>5, <2>6 DEF LabelWrite
  <1>4. QED
    BY <1>2, <1>3 DEF LabelStep

\* The name of a call is one that a snapshot can have.
LEMMA CalledName ==
    ASSUME ThreadsFit, NEW t \in Threads, pc[t] # "idle",
           req[t].op \in {"mount", "umount", "commit"}
    PROVE  req[t].name \in Names
  <1>1. req[t] \in Requests[t]
    BY Busy
  <1>2. ChosenNames \subseteq Names
    BY DEF Names
  <1>3. QED
    BY <1>1, <1>2, CallFacts

LEMMA MountTypes ==
    ASSUME TInv, NEW t \in Threads, MountStep(t)
    PROVE  StoreTyped'
  <1>1. StoreTyped /\ ThreadsFit
    BY DEF TInv
  <1>2. ASSUME pc[t] \in MountPart
        PROVE  /\ req[t].name \in Names /\ req[t].target \in Targets
               /\ req[t].ref \in Refs \cup {NoRef}
               /\ Chain(loc[t].chain) \in Somewhere
    <2>1. pc[t] # "idle"
      BY <1>2 DEF MountPart
    <2>2. req[t].op = "mount" /\ req[t] \in Requests[t] /\ loc[t].chain \in Seq(Layers)
      BY <1>1, <1>2, <2>1, Busy DEF Reaches, Locals
    <2>3. QED
      BY <1>1, <2>1, <2>2, CalledName, CallFacts, NameFacts
  <1>3. CASE MountLease(t)
    <2>1. req[t].name \in Names
      BY <1>2, <1>3 DEF MountLease, At, MountPart
    <2>2. leases' \subseteq Names
      BY <1>1, <1>3, <2>1 DEF MountLease, StoreTyped
    <2>3. UNCHANGED <<snaps, images, mounts, serial, dir>>
      BY <1>3 DEF MountLease
    <2>4. QED
      BY <1>1, <2>2, <2>3, StoreSame
  <1>4. CASE MountCreate(t)
    <2> DEFINE kind == IF req[t].ro THEN "view" ELSE "active"
               n == req[t].name
               p == Chain(loc[t].chain)
    <2>1. n \in Names /\ p \in Somewhere /\ req[t].ref \in Refs \cup {NoRef}
      BY <1>2, <1>4 DEF MountCreate, At, MountPart
    <2>2. kind \in {"active", "view"}
      OBVIOUS
    <2>3. UNCHANGED <<images, leases, mounts, serial>>
      BY <1>4 DEF MountCreate
    <2>4. \/ /\ snaps' = Created(snaps, kind, n, p, req[t].ref)
             /\ dir' = [dir EXCEPT ![t] = n]
          \/ UNCHANGED <<snaps, dir>>
      BY <1>4 DEF MountCreate
    <2> HIDE DEF kind, n, p
    <2>5. CASE /\ snaps' = Created(snaps, kind, n, p, req[t].ref)
               /\ dir' = [dir EXCEPT ![t] = n]
      BY <1>1, <2>1, <2>2, <2>3, <2>5, StoreCreated
    <2>6. QED
      BY <1>1, <2>3, <2>4, <2>5, StoreUnchanged
  <1>5. CASE MountExisting(t)
    <2>1. UNCHANGED <<snaps, images, leases, mounts, serial>>
      BY <1>5 DEF MountExisting, store
    <2>2. \/ /\ dir' = [dir EXCEPT ![t] = req[t].name]
             /\ req[t].name \in DOMAIN snaps
          \/ UNCHANGED dir
      BY <1>5 DEF MountExisting, MountsResult
    <2>3. CASE dir' = [dir EXCEPT ![t] = req[t].name] /\ req[t].name \in DOMAIN snaps
      BY <1>1, <2>1, <2>3, StoreSame DEF StoreTyped
    <2>4. QED
      BY <1>1, <2>1, <2>2, <2>3, StoreUnchanged
  <1>6. CASE MountAll(t)
    <2> DEFINE m == [target |-> req[t].target, snap |-> dir[t],
                     rw |-> snaps[dir[t]].kind # "view"]
    <2>1. req[t].target \in Targets
      BY <1>2, <1>6 DEF MountAll, At, MountPart
    <2>2. UNCHANGED <<snaps, images, leases, serial, dir>>
      BY <1>6 DEF MountAll
    <2>3. CASE dir[t] # Gone /\ mounts' = mounts \cup {m}
      <3>1. dir[t] \in DOMAIN snaps /\ dir[t] \in Names
        BY <1>1, <2>3 DEF StoreTyped, SnapsTyped, MountsFollow
      <3>2. m \in Mounted /\ m.snap = dir[t]
        BY <2>1, <3>1 DEF Mounted
      <3>3. MountsFollow(snaps', mounts', dir')
        BY <1>1, <2>2, <2>3, <3>1, <3>2 DEF StoreTyped, MountsFollow
      <3>4. QED
        BY <1>1, <2>2, <3>3 DEF StoreTyped, SnapsTyped, ImagesTyped, MountsFollow
    <2>4. CASE UNCHANGED mounts
      BY <1>1, <2>2, <2>4, StoreUnchanged
    <2>5. QED
      BY <1>6, <2>3, <2>4 DEF MountAll
  <1>7. CASE MountUndo(t)
    BY <1>1, <1>7, StoreRemoved, StoreUnchanged DEF MountUndo
  <1>8. CASE MountFailed(t)
    BY <1>1, <1>8, StoreUnchanged DEF MountFailed, store
  <1>9. CASE UmountLease(t)
    <2>1. leases' \subseteq Names
      BY <1>1, <1>9, TempNames DEF UmountLease, TakeLease, StoreTyped
    <2>2. UNCHANGED <<snaps, images, mounts, serial, dir>>
      BY <1>9 DEF UmountLease
    <2>3. QED
      BY <1>1, <2>1, <2>2, StoreSame
  <1>10. CASE UmountUnlease(t)
    <2>1. leases' \subseteq Names
      BY <1>1, <1>10 DEF UmountUnlease, StoreTyped
    <2>2. UNCHANGED <<snaps, images, mounts, serial, dir>>
      BY <1>10 DEF UmountUnlease
    <2>3. QED
      BY <1>1, <2>1, <2>2, StoreSame
  <1>11. QED
    BY <1>3, <1>4, <1>5, <1>6, <1>7, <1>8, <1>9, <1>10 DEF MountStep

LEMMA CommitTypes ==
    ASSUME TInv, NEW t \in Threads, CommitStep(t)
    PROVE  StoreTyped'
  <1>1. StoreTyped /\ ThreadsFit
    BY DEF TInv
  <1>2. ASSUME pc[t] \in DiffPart \cup CommitPart
        PROVE  /\ req[t].name \in Names /\ loc[t] \in Locals
               /\ pc[t] \in CommitPart => loc[t].chain # << >>
    <2>1. pc[t] # "idle"
      BY <1>2 DEF DiffPart, CommitPart
    <2>2. /\ req[t].op = "commit" /\ loc[t] \in Locals
          /\ pc[t] \in CommitPart => loc[t].chain # << >>
      BY <1>1, <1>2, <2>1, Busy DEF Reaches, Works
    <2>3. QED
      BY <1>1, <2>1, <2>2, CalledName
  <1>3. CASE CommitStat(t) \/ CommitBase(t) \/ DiffStat(t)
    BY <1>1, <1>3, StoreUnchanged DEF CommitStat, CommitBase, DiffStat, store
  <1>4. CASE DiffLower(t)
    <2>1. loc[t].par \in Somewhere /\ Lower(t) \in Names
      BY <1>1, <1>2, <1>4, TempNames DEF DiffLower, At, DiffPart, Locals
    <2>2. UNCHANGED <<images, leases, mounts, serial, dir>>
      BY <1>4 DEF DiffLower
    <2>3. \/ snaps' = Created(snaps, "view", Lower(t), loc[t].par, NoRef)
          \/ UNCHANGED snaps
      BY <1>4 DEF DiffLower
    <2>4. CASE snaps' = Created(snaps, "view", Lower(t), loc[t].par, NoRef)
      BY <1>1, <2>1, <2>2, <2>4, StoreCreated
    <2>5. QED
      BY <1>1, <2>2, <2>3, <2>4, StoreUnchanged
  <1>5. CASE DiffMounts(t) \/ CommitMounts(t)
    <2>1. UNCHANGED <<snaps, images, leases, mounts, serial>>
      BY <1>5 DEF DiffMounts, CommitMounts, store
    <2>2. \/ /\ dir' = [dir EXCEPT ![t] = req[t].name]
             /\ req[t].name \in DOMAIN snaps
          \/ UNCHANGED dir
      BY <1>5 DEF DiffMounts, CommitMounts, MountsResult
    <2>3. CASE dir' = [dir EXCEPT ![t] = req[t].name] /\ req[t].name \in DOMAIN snaps
      BY <1>1, <2>1, <2>3, StoreSame DEF StoreTyped
    <2>4. QED
      BY <1>1, <2>1, <2>2, <2>3, StoreUnchanged
  <1>6. CASE DiffView(t)
    <2> DEFINE n == req[t].name
    <2>1. n \in Names /\ n \in Somewhere /\ Upper(t) \in Names
      BY <1>1, <1>2, <1>6, TempNames DEF DiffView, At, DiffPart, Somewhere
    <2>2. UNCHANGED <<images, leases, mounts, serial>>
      BY <1>6 DEF DiffView
    <2>3. \/ /\ CreateResult(snaps, Upper(t), n) = "ok"
             /\ snaps' = Created(snaps, "view", Upper(t), n, NoRef)
             /\ dir' = [dir EXCEPT ![t] = n]
          \/ UNCHANGED <<snaps, dir>>
      BY <1>6 DEF DiffView
    <2> HIDE DEF n
    <2>4. CASE /\ CreateResult(snaps, Upper(t), n) = "ok"
               /\ snaps' = Created(snaps, "view", Upper(t), n, NoRef)
               /\ dir' = [dir EXCEPT ![t] = n]
      <3>1. n \in DOMAIN snaps
        BY <2>1, <2>4, NameFacts DEF CreateResult
      <3>2. QED
        BY <1>1, <2>1, <2>2, <2>4, <3>1, StoreCreated
    <2>5. QED
      BY <1>1, <2>2, <2>3, <2>4, StoreUnchanged
  <1>7. CASE Compare(t)
    BY <1>1, <1>7, StoreUnchanged DEF Compare
  <1>8. CASE CleanUpper(t)
    BY <1>1, <1>8, StoreCleared DEF CleanUpper, Upper, TempKinds
  <1>9. CASE CleanLower(t)
    BY <1>1, <1>9, StoreCleared DEF CleanLower, Lower, TempKinds
  <1>10. CASE CommitApply(t)
    <2>1. loc[t].layer \in Layers
      BY <1>2, <1>10 DEF CommitApply, At, CommitPart, Locals
    <2>2. UNCHANGED <<images, leases, mounts, serial, dir>>
      BY <1>10 DEF CommitApply
    <2>3. \/ snaps' = Written(snaps, dir[t], loc[t].layer)
          \/ UNCHANGED snaps
      BY <1>10 DEF CommitApply
    <2>4. QED
      BY <1>1, <2>1, <2>2, <2>3, StoreWritten, StoreUnchanged
  <1>11. CASE CommitActive(t)
    <2>1. Chain(loc[t].chain) \in Names
      BY <1>2, <1>11, NameFacts DEF CommitActive, At, CommitPart, Locals, Chains
    <2>2. UNCHANGED <<images, leases, serial>>
      BY <1>11 DEF CommitActive
    <2>3. \/ /\ CommitResult(snaps, req[t].name, Chain(loc[t].chain)) = "ok"
             /\ CommitSnapshot(req[t].name, Chain(loc[t].chain))
          \/ UNCHANGED <<snaps, mounts, dir>>
      BY <1>11 DEF CommitActive
    <2>4. QED
      BY <1>1, <2>1, <2>2, <2>3, StoreCommitted, StoreUnchanged
  <1>12. CASE CommitManifest(t) \/ CommitConfig(t)
    BY <1>1, <1>12, StoreUnchanged DEF CommitManifest, CommitConfig, WriteBlob
  <1>13. QED
    BY <1>3, <1>4, <1>5, <1>6, <1>7, <1>8, <1>9, <1>10, <1>11, <1>12 DEF CommitStep

LEMMA ImageTypes ==
    ASSUME TInv, NEW t \in Threads, ImageStep(t)
    PROVE  StoreTyped'
  <1>1. StoreTyped /\ ThreadsFit /\ ImagesTyped(images)
    BY DEF TInv, StoreTyped
  <1>2. CASE FetchManifest(t) \/ FetchChildren(t) \/ DeleteGet(t) \/ DeleteCheck(t)
    BY <1>1, <1>2, StoreUnchanged
    DEF FetchManifest, FetchChildren, DeleteGet, DeleteCheck, store
  <1>3. CASE PutUpdate(t) \/ PutCreate(t)
    <2> DEFINE r == Image(t).ref
               c == Image(t).chain
    <2>1. r \in Refs /\ c \in Chains
      BY <1>1, <1>3, RecordFacts DEF PutUpdate, PutCreate, At, PutPart
    <2>2. UNCHANGED <<snaps, leases, mounts, serial, dir>>
      BY <1>3 DEF PutUpdate, PutCreate
    <2>3. \/ images' = [images EXCEPT ![r] = c]
          \/ images' = Put(images, r, c)
          \/ UNCHANGED images
      BY <1>3 DEF PutUpdate, PutCreate
    <2> HIDE DEF r, c
    <2>4. ImagesTyped(images')
      BY <1>1, <2>1, <2>3 DEF ImagesTyped, Put
    <2>5. QED
      BY <1>1, <2>2, <2>4, StoreRecorded
  <1>4. CASE DeleteImage(t)
    <2>1. UNCHANGED <<snaps, leases, mounts, serial, dir>>
      BY <1>4 DEF DeleteImage
    <2>2. ImagesTyped(images')
      BY <1>1, <1>4 DEF DeleteImage, ImagesTyped, Restrict
    <2>3. QED
      BY <1>1, <2>1, <2>2, StoreRecorded
  <1>5. QED
    BY <1>2, <1>3, <1>4 DEF ImageStep

LEMMA BeginTypes ==
    ASSUME TInv, NEW t \in Threads, Begin(t)
    PROVE  StoreTyped'
  <1>1. StoreTyped
    BY DEF TInv
  <1>2. CASE \/ CommitStart(t) \/ FetchStart(t) \/ RecordStart(t) \/ UnpackStart(t)
             \/ DeleteStart(t) \/ LabelStart(t) \/ LookStart(t)
    <2>1. TakeLease(t) /\ UNCHANGED <<snaps, images, mounts, serial, dir>>
      BY <1>2 DEF CommitStart, FetchStart, RecordStart, UnpackStart, DeleteStart, LabelStart,
                  LookStart
    <2>2. leases' \subseteq Names
      BY <1>1, <2>1, TempNames DEF TakeLease, StoreTyped
    <2>3. QED
      BY <1>1, <2>1, <2>2, StoreSame
  <1>3. CASE MountStart(t)
    BY <1>1, <1>3, StoreUnchanged DEF MountStart, store
  <1>4. CASE UmountStart(t)
    <2>1. mounts' \subseteq mounts /\ UNCHANGED <<snaps, images, leases, serial, dir>>
      BY <1>4 DEF UmountStart
    <2>2. leases' \subseteq Names
      BY <1>1, <2>1 DEF StoreTyped
    <2>3. QED
      BY <1>1, <2>1, <2>2, StoreSame
  <1>5. QED
    BY <1>2, <1>3, <1>4 DEF Begin

LEMMA ReturnTypes ==
    ASSUME TInv, NEW t \in Threads, Return(t)
    PROVE  StoreTyped'
  <1>1. StoreTyped
    BY DEF TInv
  <1>2. leases' \subseteq Names
    BY <1>1 DEF Return, StoreTyped
  <1>3. dir' = [dir EXCEPT ![t] = Gone] /\ UNCHANGED <<snaps, images, mounts>>
    BY DEF Return
  <1>4. serial' = serial \/ serial' \in Serials
    BY <1>1, LoseTyped DEF Return, StoreTyped, TempKinds
  <1>5. QED
    BY <1>1, <1>2, <1>3, <1>4, StoreSame

LEMMA CrashTypes ==
    ASSUME StoreTyped, ProcessEnds, UNCHANGED mounts \/ mounts' = {}
    PROVE  StoreTyped'
  <1>1. MountsFollow(snaps', mounts', dir')
    BY DEF StoreTyped, MountsFollow, ProcessEnds
  <1>2. UNCHANGED <<snaps, images, leases>> /\ serial' \in Serials
    BY DEF StoreTyped, Serials, ProcessEnds
  <1>3. QED
    BY <1>1, <1>2 DEF StoreTyped, SnapsTyped, ImagesTyped, MountsFollow

LEMMA NextTypes ==
    ASSUME TInv, [Next]_vars
    PROVE  StoreTyped'
  <1>1. StoreTyped
    BY DEF TInv
  <1>2. ASSUME NEW t \in Threads, Begin(t) \/ Step(t) \/ MountPanic(t)
        PROVE  StoreTyped'
    <2>1. CASE ImportStep(t)
      BY <1>1, <2>1, StoreUnchanged DEF ImportStep, Unpacked, Deleted, Undone, store
    <2>2. CASE Step(t)
      BY <2>1, <2>2, UnpackTypes, RemovalTypes, MountTypes, CommitTypes, ImageTypes,
         LabelTypes, ReturnTypes DEF Step
    <2>3. CASE MountPanic(t)
      BY <1>1, <2>3, CrashTypes DEF MountPanic
    <2>4. QED
      BY <1>2, <2>2, <2>3, BeginTypes
  <1>3. CASE UserWrite
    <2>1. PICK m \in mounts, x \in UserChanges : snaps' = Written(snaps, m.snap, {x})
      BY <1>3 DEF UserWrite
    <2>2. {x} \in Layers
      BY <2>1, UserAssumption DEF Layers
    <2>3. UNCHANGED <<images, leases, mounts, serial, dir>>
      BY <1>3 DEF UserWrite, thread
    <2>4. QED
      BY <1>1, <2>1, <2>2, <2>3, StoreWritten
  <1>4. CASE Kill \/ Reboot
    BY <1>1, <1>4, CrashTypes DEF Kill, Reboot
  <1>5. CASE UNCHANGED vars
    BY <1>1, <1>5, StoreUnchanged DEF vars
  <1>6. QED
    BY <1>2, <1>3, <1>4, <1>5 DEF Next

-----------------------------------------------------------------------------

LEMMA TypesInvariant == Spec => []TInv
  <1>1. Init => TInv
    <2> SUFFICES ASSUME Init
                 PROVE  TInv
      OBVIOUS
    <2>1. /\ pc = [t \in Threads |-> pc[t]] /\ req = [t \in Threads |-> req[t]]
          /\ loc = [t \in Threads |-> loc[t]] /\ dir = [t \in Threads |-> dir[t]]
          /\ \A t \in Threads : /\ pc[t] = "idle" /\ req[t] = NoReq /\ loc[t] = Blank
                                /\ dir[t] = Gone
      BY DEF Init
    <2>2. ThreadsFit
      BY <2>1, IdleFits DEF ThreadsFit
    <2>3. StoreTyped
      BY <2>1 DEF Init, StoreTyped, Serials, SnapsTyped, ImagesTyped, MountsFollow
    <2>4. QED
      BY <2>2, <2>3 DEF TInv
  <1>2. TInv /\ [Next]_vars => TInv'
    BY NextFits, NextTypes DEF TInv
  <1>3. QED
    BY <1>1, <1>2, PTL DEF Spec

\* Whatever the calls, their number, their interleaving and the crashes: the
\* store and every call have their types, and a mount, or the mounts a call
\* holds, are of a snapshot that is still there or of directories known to
\* be gone; no removal or renaming by another call leaves them dangling.
THEOREM StoreTypeOK == Spec => []TypeOK
  <1>1. TInv => TypeOK
    <2> SUFFICES ASSUME TInv
                 PROVE  TypeOK
      OBVIOUS
    <2>1. ASSUME NEW t \in Threads
          PROVE  /\ pc[t] \in Labels
                 /\ req[t] = NoReq \/ req[t] \in Requests[t]
                 /\ pc[t] = "idle" <=> req[t] = NoReq
      BY RequestsAssumption DEF TInv, ThreadsFit, Fits
    <2>2. QED
      BY <2>1 DEF TInv, StoreTyped, SnapsTyped, ImagesTyped, MountsFollow, Snapshots, Somewhere,
                  TypeOK
  <1>2. QED
    BY <1>1, TypesInvariant, PTL
=============================================================================
