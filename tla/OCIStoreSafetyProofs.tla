------------------------ MODULE OCIStoreSafetyProofs ------------------------
(***************************************************************************)
(* What the store promises beyond the types, for any number of threads,    *)
(* requests, layers and crashes, each from an inductive invariant that     *)
(* says how far every call in progress has got:                            *)
(*                                                                         *)
(*   ContentInv    a call that is about to write a record of what it has   *)
(*                 fetched or committed has its content in the store;      *)
(*   TempsInv      an extraction snapshot, a view of a diff and a lease    *)
(*                 are of a call that is at the part that uses them, or    *)
(*                 have a number that their thread does not use any more;  *)
(*   WalksInv      a removal walks from the key it was asked to remove to  *)
(*                 chain IDs only;                                         *)
(*   ChainsInv     an extraction snapshot holds the layer its call will    *)
(*                 commit it as, and nobody mounts one;                    *)
(*   MountsInv     a Mount that got its mounts has its lease, and the      *)
(*                 mounts it holds are of its key;                         *)
(*   UmountsInv    an Umount that removes has taken the lease away and     *)
(*                 goes on to the snapshot of its key;                     *)
(*   CommitsInv    a Commit applies its changes to the snapshot it was     *)
(*                 asked for, which nobody has committed meanwhile.        *)
(*                                                                         *)
(* From the last follows that the store implements SnapshotTree.           *)
(***************************************************************************)
EXTENDS OCIStoreProofs

-----------------------------------------------------------------------------
(* Content.                                                                *)

\* Callers record what they have got from an archive or a registry, or what
\* they commit.
FetchedOnly == \A t \in Threads : \A r \in Requests[t] : r.op \notin {"create", "update"}

\* The images s are in the content store b.
Have(s, b) == \A i \in DOMAIN s : ContentOf(s[i].chain) \subseteq b

\* What the call r at p, with the local variables l, will record or read, or has
\* already counted on, is in the content store b.
Stocked(p, r, l, b) ==
    /\ p \in FetchPart => l.todo = r.archive
    /\ p \in PutPart \cup UnpackPart \cup {"unpacked"} /\ r.op \in Fetchers =>
          Have(r.archive, b) /\ Have(l.todo, b)
    /\ p \in PutPart /\ r.op \notin Fetchers => ContentOf(l.chain) \subseteq b
    /\ p \in UnpackPart \cup {"mount_lease", "mount_create"} /\ l.chain # << >> =>
          ContentOf(l.chain) \subseteq b
    /\ p \in DiffPart \cup CommitPart => LayersOf(l.chain) \subseteq b
    /\ p \in {"clean_upper", "clean_lower"} /\ ~ l.err => Layer(l.layer) \in b
    /\ p = "commit_config" => Manifest(l.chain) \in b

\* An import and a pull bring their own content, the others rely on the records.
ContentInv ==
    /\ FetchedOnly => ContentComplete
    /\ \A t \in Threads : FetchedOnly \/ req[t].op \in Fetchers =>
          Stocked(pc[t], req[t], loc[t], blobs)

-----------------------------------------------------------------------------
(* Temporary snapshots and leases.                                         *)

\* Where a call is while it has the temporary snapshot or lease of that kind.
Holds(kind, p, r) ==
    CASE kind = "extract" -> p \in {"apply", "commit_layer", "abort_layer"}
      [] kind = "lower"   -> p \in {"diff_mounts", "diff_view", "compare", "clean_upper",
                                    "clean_lower"}
      [] kind = "upper"   -> p \in {"compare", "clean_upper"}
      [] kind = "lease"   -> p # "idle" /\ r.op # "mount"

\* The one with the number n is held if the number is the current one, last.
Temporary(kind, t, n, s, ls, last, p, r) ==
    /\ <<kind, t, n>> \in DOMAIN s =>
          /\ kind # "lease"
          /\ n <= last
          /\ n = last => Holds(kind, p, r)
    /\ <<kind, t, n>> \in ls =>
          /\ kind = "lease"
          /\ n <= last
          /\ n = last => Holds(kind, p, r)

TempsHeld(s, ls, last, p, r) ==
    \A kind \in TempKinds, t \in Threads, n \in Nat :
        Temporary(kind, t, n, s, ls, last[<<kind, t>>], p[t], r[t])

TempsInv == TempsHeld(snaps, leases, serial, pc, req)

-----------------------------------------------------------------------------
(* Removals.                                                               *)

Walking(p, r, l) ==
    /\ p \in WalkPart => \/ l.cur[1] = "chain"
                         \/ r.op = "umount" /\ l.cur = r.name
    /\ p = "walk_remove" => l.par[1] = "chain"

WalksInv == \A t \in Threads : Walking(pc[t], req[t], loc[t])

-----------------------------------------------------------------------------
(* Chains.                                                                 *)

\* Callers mount under keys of their own, and nobody commits.
UnpackOnly ==
    \A t \in Threads : \A r \in Requests[t] :
        /\ r.op # "commit"
        /\ r.op = "mount" => r.name \in {"key"} \X Keys

\* The extraction snapshot of t, if nobody has taken it away.
Extracted(t) ==
    Extract(t) \in DOMAIN snaps =>
        /\ pc[t] \in {"apply", "commit_layer"} =>
              /\ snaps[Extract(t)].kind = "active"
              /\ snaps[Extract(t)].parent = Below(t)
        /\ pc[t] = "apply" => snaps[Extract(t)].diff = {}
        /\ pc[t] = "commit_layer" => snaps[Extract(t)].diff = loc[t].chain[loc[t].i]

ChainsInv ==
    /\ ChainsFaithful
    /\ \A t \in Threads : Extracted(t)
    /\ \A m \in mounts : m.snap[1] = "key"
    /\ \A t \in Threads : dir[t] = Gone \/ dir[t][1] = "key"

-----------------------------------------------------------------------------
(* A step of one call leaves the others alone.                             *)

Apart(t) == \A u \in Threads \ {t} : pc'[u] = pc[u] /\ req'[u] = req[u] /\ loc'[u] = loc[u]

LEMMA PartsApart ==
    ASSUME ThreadsFit, NEW t \in Threads
    PROVE  /\ \A p : Goto(t, p) /\ UNCHANGED <<req, loc>> => Apart(t)
           /\ \A p, l : Goto(t, p) /\ loc' = [loc EXCEPT ![t] = l] /\ UNCHANGED req => Apart(t)
           /\ \A failed : Finish(t, failed) /\ UNCHANGED req => Apart(t)
           /\ \A failed : EndPart(t, failed) /\ UNCHANGED req => Apart(t)
           /\ Continue(t) /\ UNCHANGED req => Apart(t)
  BY DEF ThreadsFit, Goto, Finish, EndPart, Continue, Apart

LEMMA UnpackApart ==
    ASSUME ThreadsFit, NEW t \in Threads, UnpackStep(t)
    PROVE  Apart(t)
  <1>1. NextLayer(t) /\ UNCHANGED req => Apart(t)
    <2>1. CASE Continue(t)
      BY <2>1, PartsApart
    <2>2. CASE Goto(t, "extract") /\ loc' = [loc EXCEPT ![t].i = @ + 1] /\ UNCHANGED req
      BY <2>2 DEF ThreadsFit, Goto, Apart
    <2>3. QED
      BY <2>1, <2>2, PartsApart DEF NextLayer
  <1>2. CASE CheckUnpacked(t)
    <2>1. CASE Continue(t)
      BY <1>2, <2>1, PartsApart DEF CheckUnpacked
    <2>2. CASE Goto(t, "extract") /\ loc' = [loc EXCEPT ![t].i = 1]
      BY <1>2, <2>2 DEF ThreadsFit, Goto, Apart, CheckUnpacked
    <2>3. QED
      BY <1>2, <2>1, <2>2, PartsApart DEF CheckUnpacked
  <1>3. CASE PrepareLayer(t)
    BY <1>3, PartsApart DEF PrepareLayer
  <1>4. CASE ApplyLayer(t)
    <2>1. CASE Goto(t, "abort_layer") /\ loc' = [loc EXCEPT ![t].err = TRUE]
      BY <1>4, <2>1 DEF ThreadsFit, Goto, Apart, ApplyLayer
    <2>2. QED
      BY <1>4, <2>1, PartsApart DEF ApplyLayer
  <1>5. CASE CommitLayer(t)
    <2> DEFINE e == CommitResult(snaps, Extract(t), UpTo(t)) # "exists"
    <2>1. CASE Goto(t, "abort_layer") /\ loc' = [loc EXCEPT ![t].err = e]
      BY <1>5, <2>1 DEF ThreadsFit, Goto, Apart, CommitLayer
    <2>2. QED
      BY <1>1, <1>5, <2>1 DEF CommitLayer
  <1>6. CASE AbortLayer(t)
    BY <1>1, <1>6, PartsApart DEF AbortLayer
  <1>7. QED
    BY <1>2, <1>3, <1>4, <1>5, <1>6 DEF UnpackStep

LEMMA RemovalApart ==
    ASSUME ThreadsFit, NEW t \in Threads, RemovalStep(t)
    PROVE  Apart(t)
  <1>1. CASE StatLink(t)
    <2>1. CASE Continue(t)
      BY <1>1, <2>1, PartsApart DEF StatLink
    <2>2. CASE Goto(t, "walk_remove") /\ loc' = [loc EXCEPT ![t].par = snaps[loc[t].cur].parent]
      BY <1>1, <2>2 DEF ThreadsFit, Goto, Apart, StatLink
    <2>3. QED
      BY <1>1, <2>1, <2>2 DEF StatLink
  <1>2. CASE RemoveLink(t)
    BY <1>2, PartsApart DEF RemoveLink, Climb
  <1>3. QED
    BY <1>1, <1>2 DEF RemovalStep

LEMMA MountApart ==
    ASSUME ThreadsFit, NEW t \in Threads, MountStep(t)
    PROVE  Apart(t)
  <1>1. CASE \/ MountCreate(t) \/ MountExisting(t) \/ MountAll(t) \/ MountUndo(t)
             \/ MountFailed(t) \/ UmountLease(t)
    BY <1>1, PartsApart
    DEF MountCreate, MountExisting, MountAll, MountUndo, MountFailed, UmountLease
  <1>2. CASE MountLease(t) \/ UmountUnlease(t)
    BY <1>2, PartsApart DEF MountLease, UmountUnlease
  <1>3. QED
    BY <1>1, <1>2 DEF MountStep

LEMMA CommitApart ==
    ASSUME ThreadsFit, NEW t \in Threads, CommitStep(t)
    PROVE  Apart(t)
  <1>1. DiffFail(t) /\ UNCHANGED req => Apart(t)
    BY DEF DiffFail, ThreadsFit, Goto, Apart
  <1>2. CASE CommitStat(t)
    <2>1. CASE Finish(t, TRUE)
      BY <1>2, <2>1, PartsApart DEF CommitStat
    <2>2. QED
      BY <1>2, <2>1 DEF CommitStat, ThreadsFit, Goto, Apart
  <1>3. CASE CommitBase(t) \/ DiffStat(t) \/ DiffLower(t)
    BY <1>3, PartsApart DEF CommitBase, DiffStat, DiffLower
  <1>4. CASE DiffMounts(t) \/ DiffView(t)
    BY <1>1, <1>4, PartsApart DEF DiffMounts, DiffView
  <1>5. CASE Compare(t)
    <2>1. CASE DiffFail(t)
      BY <1>1, <1>5, <2>1 DEF Compare
    <2>2. QED
      BY <1>5, <2>1 DEF Compare, ThreadsFit, Goto, Apart
  <1>6. CASE CleanUpper(t)
    BY <1>6, PartsApart DEF CleanUpper
  <1>7. CASE CleanLower(t)
    <2>1. CASE Finish(t, TRUE)
      BY <1>7, <2>1, PartsApart DEF CleanLower
    <2>2. CASE /\ loc' = [loc EXCEPT ![t].chain = Append(@, loc[t].layer)]
               /\ Goto(t, "commit_mounts")
      BY <1>7, <2>2 DEF CleanLower, ThreadsFit, Goto, Apart
    <2>3. QED
      BY <1>7, <2>1, <2>2 DEF CleanLower
  <1>8. CASE CommitMounts(t) \/ CommitApply(t) \/ CommitActive(t)
    BY <1>8, PartsApart DEF CommitMounts, CommitApply, CommitActive
  <1>9. CASE CommitManifest(t) \/ CommitConfig(t)
    BY <1>9, PartsApart DEF CommitManifest, CommitConfig, WriteBlob
  <1>10. QED
    BY <1>2, <1>3, <1>4, <1>5, <1>6, <1>7, <1>8, <1>9 DEF CommitStep

LEMMA ImportApart ==
    ASSUME ThreadsFit, NEW t \in Threads
    PROVE  /\ Fetched(t) /\ UNCHANGED req => Apart(t)
           /\ AfterImported(t) /\ UNCHANGED req => Apart(t)
           /\ pc[t] \in PutPart /\ AfterPut(t) /\ UNCHANGED req => Apart(t)
           /\ ImportStep(t) => Apart(t)
  <1>1. /\ \A todo, errs : UnpackFirst(t, todo, errs) /\ UNCHANGED req => Apart(t)
        /\ \A todo, errs, loop : DeleteFirst(t, todo, errs, loop) /\ UNCHANGED req => Apart(t)
    BY PartsApart DEF UnpackFirst, DeleteFirst
  <1>2. Fetched(t) /\ UNCHANGED req => Apart(t)
    BY <1>1, PartsApart DEF Fetched
  <1>3. AfterImported(t) /\ UNCHANGED req => Apart(t)
    <2>1. Goto(t, "put_update") /\ loc' = [loc EXCEPT ![t].todo = Tail(@)] /\ UNCHANGED req
          => Apart(t)
      BY DEF ThreadsFit, Goto, Apart
    <2>2. QED
      BY <1>1, <1>2, <2>1 DEF AfterImported
  <1>4. pc[t] \in PutPart /\ AfterPut(t) /\ UNCHANGED req => Apart(t)
    <2> SUFFICES ASSUME pc[t] \in PutPart, AfterPut(t), UNCHANGED req
                 PROVE  Apart(t)
      OBVIOUS
    <2>1. CASE req[t].op \in {"import", "single"}
      BY <1>3, <2>1 DEF AfterPut
    <2>2. CASE req[t].op \notin {"import", "single"}
      <3> DEFINE l == [Blank EXCEPT !.chain = Image(t).chain]
      <3>1. CASE Goto(t, "unpack") /\ UNCHANGED loc
        BY <3>1, PartsApart
      <3>2. CASE Goto(t, "unpack") /\ loc' = [loc EXCEPT ![t] = l]
        <4> HIDE DEF l
        <4>1. QED
          BY <3>2, PartsApart
      <3>3. CASE Finish(t, FALSE)
        BY <3>3, PartsApart
      <3>4. req[t].op \in {"commit", "pull", "create", "update"}
        BY <2>2, Busy DEF Reaches, PutPart, Fetchers, Importers
      <3>5. QED
        BY <3>1, <3>2, <3>3, <3>4 DEF AfterPut
    <2>3. QED
      BY <2>1, <2>2
  <1>5. ImportStep(t) => Apart(t)
    BY <1>1, <1>2, PartsApart DEF ImportStep, Unpacked, Deleted, Undone
  <1>6. QED
    BY <1>2, <1>3, <1>4, <1>5

LEMMA ImageApart ==
    ASSUME ThreadsFit, NEW t \in Threads, ImageStep(t)
    PROVE  Apart(t)
  <1>1. CASE FetchManifest(t) \/ FetchChildren(t)
    BY <1>1, PartsApart DEF FetchManifest, FetchChildren
  <1>2. CASE PutUpdate(t) \/ PutCreate(t)
    <2>1. pc[t] \in PutPart
      BY <1>2 DEF PutUpdate, PutCreate, At, PutPart
    <2>2. QED
      BY <1>2, <2>1, PartsApart, ImportApart DEF PutUpdate, PutCreate
  <1>3. CASE DeleteGet(t)
    <2>1. CASE EndPart(t, TRUE)
      BY <1>3, <2>1, PartsApart DEF DeleteGet
    <2>2. QED
      BY <1>3, <2>1 DEF DeleteGet, ThreadsFit, Goto, Apart
  <1>4. CASE DeleteCheck(t) \/ DeleteImage(t)
    BY <1>4, PartsApart DEF DeleteCheck, DeleteImage
  <1>5. QED
    BY <1>1, <1>2, <1>3, <1>4 DEF ImageStep

LEMMA LabelApart ==
    ASSUME ThreadsFit, NEW t \in Threads, LabelStep(t)
    PROVE  Apart(t)
  <1>1. CASE LabelStat(t)
    <2>1. CASE Finish(t, TRUE)
      BY <1>1, <2>1, PartsApart DEF LabelStat
    <2>2. QED
      BY <1>1, <2>1 DEF LabelStat, ThreadsFit, Goto, Apart
  <1>2. CASE LabelWrite(t) \/ Look(t)
    BY <1>2, PartsApart DEF LabelWrite, Look
  <1>3. QED
    BY <1>1, <1>2 DEF LabelStep

LEMMA BeginApart ==
    ASSUME ThreadsFit, NEW t \in Threads, Begin(t)
    PROVE  Apart(t)
  <1>1. CASE CommitStart(t) \/ DeleteStart(t) \/ LabelStart(t) \/ LookStart(t)
    BY <1>1 DEF ThreadsFit, Apart, Goto, Start, CommitStart, DeleteStart, LabelStart, LookStart
  <1>2. CASE MountStart(t) \/ UmountStart(t) \/ FetchStart(t)
    BY <1>2 DEF ThreadsFit, Apart, Goto, Start, MountStart, UmountStart, FetchStart
  <1>3. CASE RecordStart(t) \/ UnpackStart(t)
    BY <1>3 DEF ThreadsFit, Apart, Goto, Start, RecordStart, UnpackStart
  <1>4. QED
    BY <1>1, <1>2, <1>3 DEF Begin

LEMMA StepApart ==
    ASSUME ThreadsFit, NEW t \in Threads, Begin(t) \/ Step(t)
    PROVE  Apart(t)
  <1>1. CASE Return(t)
    BY <1>1 DEF ThreadsFit, Apart, Goto, Return
  <1>2. QED
    BY <1>1, BeginApart, UnpackApart, RemovalApart, MountApart, CommitApart, ImportApart,
       ImageApart, LabelApart DEF Step

\* What holds of every thread goes on holding if it does for the one that
\* takes the step, and what the others rely on is still there.
LEMMA BlobsGrow ==
    ASSUME NEW t \in Threads, Begin(t) \/ Step(t)
    PROVE  blobs \subseteq blobs'
  <1>1. CASE Begin(t)
    BY <1>1 DEF Begin, MountStart, UmountStart, CommitStart, FetchStart, RecordStart,
                UnpackStart, DeleteStart, LabelStart, LookStart, store
  <1>2. CASE UnpackStep(t) \/ RemovalStep(t) \/ MountStep(t)
    BY <1>2 DEF UnpackStep, CheckUnpacked, PrepareLayer, ApplyLayer, CommitLayer, AbortLayer,
                RemovalStep, StatLink, RemoveLink,
                MountStep, MountLease, MountCreate, MountExisting, MountAll, MountUndo,
                MountFailed, UmountLease, UmountUnlease, store
  <1>3. CASE CommitStep(t)
    BY <1>3 DEF CommitStep, CommitStat, CommitBase, DiffStat, DiffLower, DiffMounts, DiffView,
                Compare, CleanUpper, CleanLower, CommitMounts, CommitApply, CommitActive,
                CommitManifest, CommitConfig, WriteBlob, store
  <1>4. CASE ImageStep(t) \/ ImportStep(t) \/ LabelStep(t) \/ Return(t)
    BY <1>4 DEF ImageStep, FetchManifest, FetchChildren, PutUpdate, PutCreate, DeleteGet,
                DeleteCheck, DeleteImage, ImportStep, Unpacked, Deleted, Undone,
                LabelStep, LabelStat, LabelWrite, Look, Return, store
  <1>5. QED
    BY <1>1, <1>2, <1>3, <1>4 DEF Step

\* Only the return ends a call.
LEMMA StepCalls ==
    ASSUME NEW t \in Threads, Step(t), ~ Return(t)
    PROVE  UNCHANGED req /\ pc[t] # "idle"
  <1>1. CASE UnpackStep(t)
    BY <1>1 DEF UnpackStep, CheckUnpacked, PrepareLayer, ApplyLayer, CommitLayer, AbortLayer, At
  <1>2. CASE RemovalStep(t) \/ LabelStep(t) \/ ImportStep(t)
    BY <1>2 DEF RemovalStep, StatLink, RemoveLink, LabelStep, LabelStat, LabelWrite, Look,
                ImportStep, Unpacked, Deleted, Undone, At
  <1>3. CASE MountStep(t)
    BY <1>3 DEF MountStep, MountLease, MountCreate, MountExisting, MountAll, MountUndo,
                MountFailed, UmountLease, UmountUnlease, At
  <1>4. CASE CommitStep(t)
    <2>1. CASE \/ CommitStat(t) \/ CommitBase(t) \/ DiffStat(t) \/ DiffLower(t) \/ DiffMounts(t)
               \/ DiffView(t) \/ Compare(t)
      BY <2>1 DEF CommitStat, CommitBase, DiffStat, DiffLower, DiffMounts, DiffView, Compare, At
    <2>2. CASE \/ CleanUpper(t) \/ CleanLower(t) \/ CommitMounts(t) \/ CommitApply(t)
               \/ CommitActive(t) \/ CommitManifest(t) \/ CommitConfig(t)
      BY <2>2 DEF CleanUpper, CleanLower, CommitMounts, CommitApply, CommitActive,
                  CommitManifest, CommitConfig, WriteBlob, At
    <2>3. QED
      BY <1>4, <2>1, <2>2 DEF CommitStep
  <1>5. CASE ImageStep(t)
    BY <1>5 DEF ImageStep, FetchManifest, FetchChildren, PutUpdate, PutCreate, DeleteGet,
                DeleteCheck, DeleteImage, At
  <1>6. QED
    BY <1>1, <1>2, <1>3, <1>4, <1>5 DEF Step

-----------------------------------------------------------------------------
(* Where a step takes its call.                                            *)

LEMMA PartsLead ==
    ASSUME ThreadsFit, NEW t \in Threads
    PROVE  /\ \A p : Goto(t, p) => pc'[t] = p
           /\ \A failed : Finish(t, failed) => pc'[t] = "return"
           /\ Continue(t) => pc'[t] = loc[t].next
           /\ \A failed : pc[t] # "idle" /\ EndPart(t, failed) =>
                             pc'[t] \in {"return", "unpacked", "deleted", "undone"}
  <1>1. \A p : Goto(t, p) => pc'[t] = p
    BY DEF ThreadsFit, Goto
  <1>2. pc[t] # "idle" => loc[t].loop \in Loops
    BY Busy DEF Locals
  <1>3. \A failed : Finish(t, failed) => pc'[t] = "return"
    BY <1>1 DEF Finish
  <1>4. \A failed : EndPart(t, failed) =>
           Finish(t, failed) \/ (loc[t].loop # "none" /\ pc'[t] = loc[t].loop)
    BY <1>1 DEF EndPart
  <1>5. Continue(t) => pc'[t] = loc[t].next
    BY <1>1 DEF Continue
  <1>6. QED
    BY <1>1, <1>2, <1>3, <1>4, <1>5 DEF Loops

LEMMA UnpackLeads ==
    ASSUME ThreadsFit, NEW t \in Threads, UnpackStep(t)
    PROVE  pc'[t] \in UnpackPart \cup {"return", "unpacked", "deleted", "undone", "mount_create"}
  <1>1. pc[t] \in UnpackPart /\ pc[t] # "idle"
    BY DEF UnpackStep, CheckUnpacked, PrepareLayer, ApplyLayer, CommitLayer, AbortLayer, At,
           UnpackPart, LayerPart
  <1>2. loc[t].next \in {"return", "unpacked", "mount_create"}
    <2>1. req[t].op \in Importers \cup {"pull", "mount", "commit", "unpack"}
      BY <1>1, Busy DEF Reaches, Fetchers
    <2>2. pc[t] # "diff_lower"
      BY <1>1 DEF UnpackPart, LayerPart
    <2>3. QED
      BY <1>1, <2>1, <2>2, Busy DEF Follows
  <1>3. NextLayer(t) => pc'[t] \in {"extract", "return", "unpacked", "mount_create"}
    BY <1>2, PartsLead DEF NextLayer
  <1>4. CASE CheckUnpacked(t) \/ PrepareLayer(t) \/ ApplyLayer(t)
    BY <1>1, <1>2, <1>4, PartsLead
    DEF CheckUnpacked, PrepareLayer, ApplyLayer, UnpackPart, LayerPart
  <1>5. CASE CommitLayer(t) \/ AbortLayer(t)
    BY <1>1, <1>3, <1>5, PartsLead DEF CommitLayer, AbortLayer, UnpackPart, LayerPart
  <1>6. QED
    BY <1>4, <1>5 DEF UnpackStep

LEMMA RemovalLeads ==
    ASSUME ThreadsFit, NEW t \in Threads, RemovalStep(t)
    PROVE  pc'[t] \in WalkPart \cup {"return", "unpacked", "deleted", "undone", "delete_image"}
  <1>1. pc[t] \in WalkPart /\ pc[t] # "idle"
    BY DEF RemovalStep, StatLink, RemoveLink, At, WalkPart
  <1>2. loc[t].next \in {"return", "delete_image"}
    <2>1. req[t].op \in {"umount", "delete", "single"}
      BY <1>1, Busy DEF Reaches
    <2>2. pc[t] # "diff_lower"
      BY <1>1 DEF WalkPart
    <2>3. QED
      BY <1>1, <2>1, <2>2, Busy DEF Follows
  <1>3. QED
    BY <1>1, <1>2, PartsLead DEF RemovalStep, StatLink, RemoveLink, Climb, WalkPart

LEMMA MountLeads ==
    ASSUME ThreadsFit, NEW t \in Threads, MountStep(t)
    PROVE  pc'[t] \in MountPart \cup {"return", "unpack", "umount_unlease", "walk"}
  BY PartsLead
  DEF MountStep, MountLease, MountCreate, MountExisting, MountAll, MountUndo, MountFailed,
      UmountLease, UmountUnlease, MountPart

LEMMA LabelLeads ==
    ASSUME ThreadsFit, NEW t \in Threads, LabelStep(t)
    PROVE  pc'[t] \in {"return", "label_write"}
  BY PartsLead DEF LabelStep, LabelStat, LabelWrite, Look

LEMMA FetchedLeads ==
    ASSUME ThreadsFit, NEW t \in Threads, Fetched(t)
    PROVE  pc'[t] \in {"return", "delete"}
  BY PartsLead DEF Fetched, DeleteFirst

LEMMA ImportLeads ==
    ASSUME ThreadsFit, NEW t \in Threads, ImportStep(t)
    PROVE  pc'[t] \in {"return", "unpack", "delete"}
  BY PartsLead, FetchedLeads
  DEF ImportStep, Unpacked, Deleted, Undone, UnpackFirst, DeleteFirst

-----------------------------------------------------------------------------
(* ContentInv: a step of the call t.                                       *)

\* The places where a call counts on the content of the store.
Stocking == FetchPart \cup PutPart \cup UnpackPart \cup DiffPart \cup CommitPart
            \cup {"unpacked", "mount_lease", "mount_create"}

\* Elsewhere there is nothing to have.
LEMMA NotRecording ==
    ASSUME NEW p, NEW r, NEW l, NEW b, p \notin Stocking
    PROVE  Stocked(p, r, l, b)
  BY DEF Stocked, Stocking, FetchPart, PutPart, UnpackPart, LayerPart, DiffPart, CommitPart

\* The content store only grows.
LEMMA StockedGrows ==
    ASSUME NEW p, NEW r, NEW l, NEW b, NEW b2, Stocked(p, r, l, b), b \subseteq b2
    PROVE  Stocked(p, r, l, b2)
  BY DEF Stocked, Have

LEMMA HaveFirst ==
    ASSUME NEW s \in Seq(Images), s # << >>, NEW b, Have(s, b)
    PROVE  ContentOf(Head(s).chain) \subseteq b /\ Have(Tail(s), b)
  <1>1. 1 \in DOMAIN s /\ Head(s) = s[1]
    BY HeadTailProperties, LenProperties, EmptySeq
  <1>2. \A i \in DOMAIN Tail(s) : i + 1 \in DOMAIN s /\ Tail(s)[i] = s[i + 1]
    BY HeadTailProperties, LenProperties, EmptySeq
  <1>3. QED
    BY <1>1, <1>2 DEF Have

\* Unpacking: the chain of layers stays the same to the end.
LEMMA UnpackKeepsChain ==
    ASSUME ThreadsFit, NEW t \in Threads, UnpackStep(t)
    PROVE  /\ UNCHANGED <<blobs, req>>
           /\ pc[t] \in UnpackPart
           /\ pc'[t] # "return" => loc'[t].todo = loc[t].todo
           /\ pc'[t] \in UnpackPart \cup {"mount_create"} => loc'[t].chain = loc[t].chain
  <1>1. /\ pc[t] \in UnpackPart /\ UNCHANGED <<blobs, req>>
    BY DEF UnpackStep, CheckUnpacked, PrepareLayer, ApplyLayer, CommitLayer, AbortLayer, At,
           UnpackPart, LayerPart, store
  <1>2. loc[t] \in Locals /\ loc[t].loop \in Loops
    BY <1>1, Busy DEF UnpackPart, LayerPart, Locals
  <1> DEFINE Same == loc'[t].todo = loc[t].todo /\ loc'[t].chain = loc[t].chain
             Ended == \/ pc'[t] = "return"
                      \/ pc'[t] \in Loops \ {"none"} /\ loc'[t].todo = loc[t].todo
  <1>3. UNCHANGED loc => Same
    OBVIOUS
  <1>4. Continue(t) => Same
    <2> SUFFICES ASSUME Continue(t)
                 PROVE  Same
      OBVIOUS
    <2>1. PICK m : /\ m = [loc[t] EXCEPT !.next = "return", !.i = 0, !.cur = NoParent,
                                         !.par = NoParent, !.depth = 0]
                   /\ loc' = [loc EXCEPT ![t] = m]
      BY DEF Continue
    <2>2. m.todo = loc[t].todo /\ m.chain = loc[t].chain
      BY <1>2, <2>1, ContinuedFacts, Zenon
    <2>3. loc'[t] = m
      BY <2>1 DEF ThreadsFit
    <2>4. QED
      BY <2>2, <2>3
  <1>5. /\ \A e : loc' = [loc EXCEPT ![t].err = e] => Same
        /\ \A n : loc' = [loc EXCEPT ![t].i = n] => Same
    BY <1>2 DEF ThreadsFit, Locals
  <1>6. \A failed : EndPart(t, failed) => Ended
    <2> SUFFICES ASSUME NEW failed, EndPart(t, failed)
                 PROVE  Ended
      OBVIOUS
    <2>1. CASE Finish(t, failed)
      BY <2>1, PartsLead
    <2>2. CASE /\ loc[t].loop # "none"
               /\ Goto(t, loc[t].loop)
               /\ loc' = [loc EXCEPT ![t] = [Blank EXCEPT !.todo = loc[t].todo,
                                                          !.errs = loc[t].errs \/ failed]]
      <3>1. pc'[t] = loc[t].loop
        BY <2>2, PartsLead
      <3>2. loc'[t].todo = loc[t].todo
        BY <2>2, BlankFacts DEF ThreadsFit, Locals
      <3>3. QED
        BY <1>2, <2>2, <3>1, <3>2
    <2>3. QED
      BY <2>1, <2>2 DEF EndPart
  <1>7. NextLayer(t) => Same
    <2>1. loc' = [loc EXCEPT ![t].i = @ + 1] => Same
      BY <1>2 DEF ThreadsFit, Locals
    <2> HIDE DEF Same
    <2>2. QED
      BY <1>4, <2>1 DEF NextLayer
  <1> HIDE DEF Same, Ended
  <1>8. Same \/ Ended
    <2>0. CASE CheckUnpacked(t)
      BY <1>4, <1>5, <1>6, <2>0 DEF CheckUnpacked
    <2>1. CASE PrepareLayer(t)
      BY <1>3, <1>6, <2>1 DEF PrepareLayer
    <2>2. CASE ApplyLayer(t)
      BY <1>3, <1>5, <2>2 DEF ApplyLayer
    <2>3. CASE CommitLayer(t)
      <3> DEFINE e == CommitResult(snaps, Extract(t), UpTo(t)) # "exists"
      <3>1. NextLayer(t) \/ loc' = [loc EXCEPT ![t].err = e]
        BY <2>3 DEF CommitLayer
      <3>2. QED
        BY <1>5, <1>7, <3>1
    <2>4. CASE AbortLayer(t)
      BY <1>6, <1>7, <2>4 DEF AbortLayer
    <2>5. QED
      BY <2>0, <2>1, <2>2, <2>3, <2>4 DEF UnpackStep
  <1>9. QED
    BY <1>1, <1>8 DEF Same, Ended, Loops, UnpackPart, LayerPart

LEMMA UnpackStocked ==
    ASSUME ThreadsFit, NEW t \in Threads, UnpackStep(t),
           Stocked(pc[t], req[t], loc[t], blobs)
    PROVE  Stocked(pc'[t], req'[t], loc'[t], blobs')
  <1>1. /\ UNCHANGED <<blobs, req>>
        /\ pc[t] \in UnpackPart
        /\ pc'[t] # "return" => loc'[t].todo = loc[t].todo
        /\ pc'[t] \in UnpackPart \cup {"mount_create"} => loc'[t].chain = loc[t].chain
    BY UnpackKeepsChain
  <1>2. CASE pc'[t] \in {"return", "deleted", "undone"}
    BY <1>2, NotRecording
    DEF Stocking, FetchPart, PutPart, UnpackPart, LayerPart, DiffPart, CommitPart
  <1>3. CASE pc'[t] \in UnpackPart \cup {"unpacked", "mount_create"}
    <2>1. pc'[t] \notin FetchPart \cup PutPart \cup DiffPart \cup CommitPart
      BY <1>3 DEF FetchPart, PutPart, UnpackPart, LayerPart, DiffPart, CommitPart
    <2>2. pc'[t] # "unpacked" => loc'[t].chain = loc[t].chain
      BY <1>1, <1>3
    <2>3. pc[t] # "unpacked" /\ pc'[t] # "return"
      BY <1>1, <1>3 DEF UnpackPart, LayerPart
    <2>4. req[t].op \in Fetchers => Have(req[t].archive, blobs) /\ Have(loc[t].todo, blobs)
      BY <1>1 DEF Stocked
    <2>5. loc[t].chain # << >> => ContentOf(loc[t].chain) \subseteq blobs
      BY <1>1 DEF Stocked
    <2>6. pc'[t] = "unpacked" => pc'[t] \notin UnpackPart \cup {"mount_lease", "mount_create"}
      BY DEF UnpackPart, LayerPart
    <2>7. pc'[t] \notin {"clean_upper", "clean_lower", "commit_config"}
      BY <2>1 DEF DiffPart, CommitPart
    <2>8. QED
      BY <1>1, <2>1, <2>2, <2>3, <2>4, <2>5, <2>6, <2>7 DEF Stocked
  <1>4. QED
    BY <1>2, <1>3, UnpackLeads

\* The next image of an archive is unpacked.
LEMMA FirstStocked ==
    ASSUME ThreadsFit, NEW t \in Threads, NEW todo \in Seq(Images), todo # << >>, NEW errs,
           UnpackFirst(t, todo, errs), UNCHANGED <<blobs, req>>,
           Have(todo, blobs), Have(req[t].archive, blobs)
    PROVE  Stocked(pc'[t], req'[t], loc'[t], blobs')
  <1>1. pc'[t] = "unpack"
    BY PartsLead DEF UnpackFirst
  <1>2. loc'[t].todo = todo /\ loc'[t].chain = Head(todo).chain
    BY BlankFacts DEF UnpackFirst, ThreadsFit, Locals
  <1>3. ContentOf(Head(todo).chain) \subseteq blobs
    BY HaveFirst
  <1>4. QED
    BY <1>1, <1>2, <1>3 DEF Stocked, FetchPart, PutPart, DiffPart, CommitPart

LEMMA ImportStocked ==
    ASSUME ThreadsFit, NEW t \in Threads, ImportStep(t),
           Stocked(pc[t], req[t], loc[t], blobs)
    PROVE  Stocked(pc'[t], req'[t], loc'[t], blobs')
  <1>1. ASSUME pc'[t] \in {"return", "delete"}
        PROVE  Stocked(pc'[t], req'[t], loc'[t], blobs')
    BY <1>1, NotRecording
    DEF Stocking, FetchPart, PutPart, UnpackPart, LayerPart, DiffPart, CommitPart
  <1>2. CASE Unpacked(t) /\ Len(loc[t].todo) > 1
    <2> DEFINE s == loc[t].todo
    <2>1. /\ pc[t] = "unpacked" /\ UNCHANGED <<blobs, req>>
          /\ UnpackFirst(t, Tail(s), loc[t].errs)
      BY <1>2 DEF Unpacked, At, store
    <2>2. s \in Seq(Images) /\ req[t].op \in Fetchers
      BY <2>1, Busy DEF Locals, Reaches, Fetchers
    <2>3. Have(req[t].archive, blobs) /\ Have(s, blobs)
      BY <2>1, <2>2 DEF Stocked
    <2>4. s # << >> /\ Tail(s) \in Seq(Images) /\ Tail(s) # << >>
      <3>1. Len(s) > 1
        BY <1>2
      <3> HIDE DEF s
      <3>2. s # << >> /\ Len(s) \in Nat
        BY <2>2, <3>1, LenProperties, EmptySeq
      <3>3. Tail(s) \in Seq(Images) /\ Len(Tail(s)) = Len(s) - 1
        BY <2>2, <3>2, HeadTailProperties
      <3>4. Len(Tail(s)) # 0
        <4>1. \A n \in Nat : n > 1 => n - 1 # 0
          OBVIOUS
        <4>2. QED
          BY <3>1, <3>2, <3>3, <4>1, Zenon
      <3>5. Tail(s) # << >>
        BY <3>4, EmptySeq
      <3>6. QED
        BY <3>2, <3>3, <3>5
    <2>5. Have(Tail(s), blobs)
      <3> HIDE DEF s
      <3>1. QED
        BY <2>2, <2>3, <2>4, HaveFirst
    <2>6. QED
      BY <2>1, <2>3, <2>4, <2>5, FirstStocked
  <1>3. CASE Unpacked(t) /\ ~ (Len(loc[t].todo) > 1)
    BY <1>1, <1>3, FetchedLeads DEF Unpacked
  <1>4. CASE Deleted(t) \/ Undone(t)
    BY <1>1, <1>4, PartsLead DEF Deleted, Undone, DeleteFirst
  <1>5. QED
    BY <1>2, <1>3, <1>4 DEF ImportStep

LEMMA MountStocked ==
    ASSUME ThreadsFit, NEW t \in Threads, MountStep(t),
           Stocked(pc[t], req[t], loc[t], blobs)
    PROVE  Stocked(pc'[t], req'[t], loc'[t], blobs')
  <1>1. CASE MountLease(t)
    <2>1. /\ pc[t] = "mount_lease" /\ UNCHANGED <<blobs, req>>
          /\ pc'[t] \in {"unpack", "mount_create"}
      BY <1>1, PartsLead DEF MountLease, At
    <2>2. loc[t] \in Locals /\ req[t].op = "mount"
      BY <2>1, Busy DEF Reaches, MountPart
    <2>3. loc'[t].chain = loc[t].chain
      <3> DEFINE o == req[t].name \notin leases
      <3>1. loc' = [loc EXCEPT ![t] = [@ EXCEPT !.owns = o, !.next = "mount_create"]]
        BY <1>1 DEF MountLease
      <3> HIDE DEF o
      <3>2. QED
        BY <2>2, <3>1 DEF ThreadsFit, Locals
    <2>4. QED
      BY <2>1, <2>2, <2>3
      DEF Stocked, FetchPart, PutPart, DiffPart, CommitPart, Fetchers, Importers
  <1>2. CASE ~ MountLease(t)
    <2>1. pc'[t] \in {"mount_existing", "mount_all", "mount_undo", "mount_failed", "return",
                      "umount_unlease", "walk"}
      BY <1>2, PartsLead
      DEF MountStep, MountCreate, MountExisting, MountAll, MountUndo, MountFailed,
          UmountLease, UmountUnlease
    <2>2. QED
      BY <2>1, NotRecording
      DEF Stocking, FetchPart, PutPart, UnpackPart, LayerPart, DiffPart, CommitPart
  <1>3. QED
    BY <1>1, <1>2

LEMMA PlainStocked ==
    ASSUME ThreadsFit, NEW t \in Threads, RemovalStep(t) \/ LabelStep(t) \/ Return(t)
    PROVE  Stocked(pc'[t], req'[t], loc'[t], blobs')
  <1>1. pc'[t] \in WalkPart \cup {"idle", "return", "unpacked", "deleted", "undone",
                                 "delete_image", "label_write"}
    BY RemovalLeads, LabelLeads, PartsLead DEF Return
  <1>2. pc'[t] # "unpacked"
    <2>1. CASE RemovalStep(t)
      <3>1. pc[t] \in WalkPart /\ pc[t] # "idle"
        BY <2>1 DEF RemovalStep, StatLink, RemoveLink, At, WalkPart
      <3>2. loc[t].loop # "unpacked"
        <4>1. req[t].op \in {"umount", "delete", "single"}
          BY <3>1, Busy DEF Reaches
        <4>2. QED
          BY <3>1, <4>1, Busy DEF Follows, Importers
      <3>3. loc[t].next # "unpacked"
        <4>1. req[t].op \in {"umount", "delete", "single"} /\ pc[t] # "diff_lower"
          BY <3>1, Busy DEF Reaches, WalkPart
        <4>2. QED
          BY <3>1, <4>1, Busy DEF Follows
      <3>4. ASSUME NEW failed, EndPart(t, failed)
            PROVE  pc'[t] # "unpacked"
        <4>1. CASE Finish(t, failed)
          BY <4>1, PartsLead
        <4>2. CASE Goto(t, loc[t].loop)
          BY <3>2, <4>2, PartsLead
        <4>3. QED
          BY <3>4, <4>1, <4>2 DEF EndPart
      <3>5. QED
        BY <2>1, <3>3, <3>4, PartsLead DEF RemovalStep, StatLink, RemoveLink, Climb
    <2>2. QED
      BY <2>1, LabelLeads, PartsLead DEF Return
  <1>3. QED
    BY <1>1, <1>2, NotRecording
    DEF Stocking, FetchPart, PutPart, UnpackPart, LayerPart, DiffPart, CommitPart, WalkPart

LEMMA BeginStocked ==
    ASSUME ThreadsFit, ContentInv, NEW t \in Threads, Begin(t),
           FetchedOnly \/ req'[t].op \in Fetchers
    PROVE  Stocked(pc'[t], req'[t], loc'[t], blobs')
  <1>1. CASE UmountStart(t) \/ DeleteStart(t) \/ LabelStart(t) \/ LookStart(t)
    <2>1. pc'[t] \in {"return", "umount_lease", "delete", "label_stat", "label_write", "look"}
      BY <1>1, PartsLead DEF UmountStart, DeleteStart, LabelStart, LookStart, Start
    <2>2. QED
      BY <2>1, NotRecording
      DEF Stocking, FetchPart, PutPart, UnpackPart, LayerPart, DiffPart, CommitPart
  <1>2. CASE CommitStart(t)
    <2>1. pc'[t] = "commit" /\ loc'[t] = Blank
      BY <1>2, PartsLead DEF CommitStart, Start, At, ThreadsFit, Fits
    <2>2. Blank.chain = << >>
      BY BlankFacts
    <2>3. LayersOf(<< >>) = {}
      BY DEF LayersOf
    <2>4. QED
      BY <2>1, <2>2, <2>3 DEF Stocked, FetchPart, PutPart, UnpackPart, LayerPart, CommitPart
  <1>3. CASE RecordStart(t)
    <2>1. PICK r \in Requests[t] : r.op \in {"create", "update"} /\ req' = [req EXCEPT ![t] = r]
      BY <1>3 DEF RecordStart, Start
    <2>2. r.op \notin Fetchers /\ ~ FetchedOnly
      BY <2>1 DEF FetchedOnly, Fetchers, Importers
    <2>3. req'[t] = r
      BY <2>1 DEF ThreadsFit
    <2>4. QED
      BY <2>2, <2>3
  <1>4. CASE FetchStart(t)
    <2>1. PICK r \in Requests[t] : /\ Start(t, r, "fetch")
                                   /\ loc' = [loc EXCEPT ![t].todo = r.archive]
      BY <1>4 DEF FetchStart
    <2>2. pc'[t] = "fetch" /\ req'[t] = r
      BY <2>1, PartsLead DEF Start, ThreadsFit
    <2>3. loc[t] \in Locals
      BY DEF ThreadsFit, Fits
    <2>4. loc'[t].todo = r.archive
      BY <2>1, <2>3 DEF ThreadsFit, Locals
    <2>5. QED
      BY <2>2, <2>4 DEF Stocked, PutPart, UnpackPart, LayerPart, DiffPart, CommitPart
  <1>5. CASE MountStart(t) \/ UnpackStart(t)
    <2>1. PICK r \in Requests[t] :
            /\ r.op \in {"mount", "unpack"}
            /\ Start(t, r, IF r.op = "mount" THEN "mount_lease" ELSE "unpack")
            /\ \/ loc' = [loc EXCEPT ![t].chain = << >>]
               \/ /\ r.ref \in DOMAIN images
                  /\ loc' = [loc EXCEPT ![t].chain = images[r.ref]]
      BY <1>5 DEF MountStart, UnpackStart
    <2>2. /\ pc'[t] \in {"mount_lease", "unpack"} /\ req'[t] = r /\ loc[t] \in Locals
      BY <2>1, PartsLead DEF Start, ThreadsFit, Fits
    <2>3. r.op \notin Fetchers
      BY <2>1 DEF Fetchers, Importers
    <2>4. ContentComplete /\ UNCHANGED blobs
      BY <1>5, <2>2, <2>3 DEF ContentInv, MountStart, UnpackStart, store
    <2>5. loc'[t].chain # << >> => ContentOf(loc'[t].chain) \subseteq blobs
      <3>1. \A c : loc' = [loc EXCEPT ![t].chain = c] => loc'[t].chain = c
        BY <2>2 DEF ThreadsFit, Locals
      <3>2. QED
        BY <2>1, <2>4, <3>1 DEF ContentComplete
    <2>6. QED
      BY <2>2, <2>3, <2>4, <2>5 DEF Stocked, FetchPart, PutPart, DiffPart, CommitPart
  <1>6. QED
    BY <1>1, <1>2, <1>3, <1>4, <1>5 DEF Begin

LEMMA CommitStocked ==
    ASSUME ThreadsFit, ContentComplete, NEW t \in Threads, CommitStep(t),
           Stocked(pc[t], req[t], loc[t], blobs)
    PROVE  Stocked(pc'[t], req'[t], loc'[t], blobs')
  <1>1. /\ pc[t] \in DiffPart \cup CommitPart /\ pc[t] \notin PutPart /\ pc[t] # "idle"
        /\ UNCHANGED req
    BY DEF CommitStep, CommitStat, CommitBase, DiffStat, DiffLower, DiffMounts, DiffView,
           Compare, CleanUpper, CleanLower, CommitMounts, CommitApply, CommitActive,
           CommitManifest, CommitConfig, WriteBlob, At, DiffPart, CommitPart, PutPart
  <1>2. /\ loc[t] \in Locals /\ req[t].op = "commit"
        /\ LayersOf(loc[t].chain) \subseteq blobs
        /\ pc[t] \in {"clean_upper", "clean_lower"} /\ ~ loc[t].err
           => Layer(loc[t].layer) \in blobs
        /\ pc[t] = "commit_config" => Manifest(loc[t].chain) \in blobs
    BY <1>1, Busy DEF Stocked, Reaches
  <1>3. ASSUME pc'[t] = "return"
        PROVE  Stocked(pc'[t], req'[t], loc'[t], blobs')
    BY <1>3, NotRecording
    DEF Stocking, FetchPart, PutPart, UnpackPart, LayerPart, DiffPart, CommitPart
  <1>4. ASSUME LayersOf(loc'[t].chain) \subseteq blobs',
               pc'[t] \in DiffPart \cup CommitPart,
               pc'[t] \notin {"clean_upper", "clean_lower", "commit_config"}
        PROVE  Stocked(pc'[t], req'[t], loc'[t], blobs')
    BY <1>4
    DEF Stocked, FetchPart, PutPart, UnpackPart, LayerPart, DiffPart, CommitPart
  <1>5. CASE CommitStat(t)
    <2>1. CASE Finish(t, TRUE)
      BY <1>3, <2>1, PartsLead
    <2>2. CASE /\ loc' = [loc EXCEPT ![t].ref = snaps[req[t].name].label]
               /\ Goto(t, IF snaps[req[t].name].label = NoRef THEN "diff" ELSE "commit_base")
      <3>1. loc'[t].chain = loc[t].chain
        BY <1>2, <2>2 DEF ThreadsFit, Locals
      <3>2. pc'[t] \in {"diff", "commit_base"} /\ UNCHANGED blobs
        BY <1>5, <2>2, PartsLead DEF CommitStat, store
      <3>3. QED
        BY <1>2, <1>4, <3>1, <3>2 DEF DiffPart, CommitPart
    <2>3. QED
      BY <1>5, <2>1, <2>2 DEF CommitStat
  <1>6. CASE CommitBase(t)
    <2>1. CASE Finish(t, TRUE)
      BY <1>3, <2>1, PartsLead
    <2>2. CASE /\ loc[t].ref \in DOMAIN images
               /\ loc' = [loc EXCEPT ![t] = [@ EXCEPT !.chain = images[loc[t].ref],
                                                      !.ref = NoRef]]
               /\ Goto(t, "diff")
      <3>1. loc'[t].chain = images[loc[t].ref]
        BY <1>2, <2>2 DEF ThreadsFit, Locals
      <3>2. LayersOf(images[loc[t].ref]) \subseteq blobs
        BY <2>2 DEF ContentComplete, ContentOf
      <3>3. pc'[t] = "diff" /\ UNCHANGED blobs
        BY <1>6, <2>2, PartsLead DEF CommitBase, store
      <3>4. QED
        BY <1>4, <3>1, <3>2, <3>3 DEF DiffPart, CommitPart
    <2>3. QED
      BY <1>6, <2>1, <2>2 DEF CommitBase
  <1>7. CASE DiffStat(t)
    <2>1. CASE Finish(t, TRUE)
      BY <1>3, <2>1, PartsLead
    <2>2. CASE ~ Finish(t, TRUE)
      <3> DEFINE info == snaps[req[t].name]
                 n == IF info.kind = "active" THEN "diff_mounts" ELSE "diff_view"
      <3>1. loc' = [loc EXCEPT ![t] = [@ EXCEPT !.par = info.parent, !.next = n]]
        BY <1>7, <2>2 DEF DiffStat
      <3> HIDE DEF info, n
      <3>2. loc'[t].chain = loc[t].chain
        BY <1>2, <3>1 DEF ThreadsFit, Locals
      <3>3. pc'[t] = "diff_lower" /\ UNCHANGED blobs
        BY <1>7, <2>2, PartsLead DEF DiffStat, store
      <3>4. QED
        BY <1>2, <1>4, <3>2, <3>3 DEF DiffPart, CommitPart
    <2>3. QED
      BY <2>1, <2>2
  <1>8. CASE DiffLower(t)
    <2>1. CASE Finish(t, TRUE)
      BY <1>3, <2>1, PartsLead
    <2>2. CASE Continue(t)
      <3>1. loc'[t].chain = loc[t].chain
        <4>1. PICK m : /\ m = [loc[t] EXCEPT !.next = "return", !.i = 0, !.cur = NoParent,
                                             !.par = NoParent, !.depth = 0]
                       /\ loc' = [loc EXCEPT ![t] = m]
          BY <2>2 DEF Continue
        <4>2. m.chain = loc[t].chain
          BY <1>2, <4>1, ContinuedFacts, Zenon
        <4>3. QED
          BY <4>1, <4>2 DEF ThreadsFit
      <3>2. pc'[t] \in {"diff_mounts", "diff_view"}
        <4>1. pc[t] = "diff_lower"
          BY <1>8 DEF DiffLower, At
        <4>2. QED
          BY <1>1, <2>2, <4>1, PartsLead, Busy DEF Follows
      <3>3. UNCHANGED blobs
        BY <1>8 DEF DiffLower
      <3>4. QED
        BY <1>2, <1>4, <3>1, <3>2, <3>3 DEF DiffPart, CommitPart
    <2>3. QED
      BY <1>8, <2>1, <2>2 DEF DiffLower
  <1>9. DiffFail(t) /\ UNCHANGED blobs => Stocked(pc'[t], req'[t], loc'[t], blobs')
    <2> SUFFICES ASSUME DiffFail(t), UNCHANGED blobs
                 PROVE  Stocked(pc'[t], req'[t], loc'[t], blobs')
      OBVIOUS
    <2>1. loc'[t].chain = loc[t].chain /\ loc'[t].err
      BY <1>2 DEF DiffFail, ThreadsFit, Locals
    <2>2. pc'[t] \in {"clean_upper", "clean_lower"}
      BY PartsLead DEF DiffFail
    <2>3. QED
      BY <1>2, <2>1, <2>2 DEF Stocked, FetchPart, PutPart, UnpackPart, LayerPart
  <1>10. CASE DiffMounts(t) \/ DiffView(t)
    <2>1. CASE DiffFail(t)
      BY <1>9, <1>10, <2>1 DEF DiffMounts, DiffView, store
    <2>2. CASE Goto(t, "compare") /\ UNCHANGED loc
      <3>1. pc'[t] = "compare" /\ UNCHANGED blobs
        BY <1>10, <2>2, PartsLead DEF DiffMounts, DiffView, store
      <3>2. QED
        BY <1>2, <1>4, <2>2, <3>1 DEF DiffPart, CommitPart
    <2>3. QED
      BY <1>10, <2>1, <2>2 DEF DiffMounts, DiffView
  <1>11. CASE Compare(t)
    <2>1. CASE DiffFail(t) /\ UNCHANGED blobs
      BY <1>9, <2>1
    <2>2. CASE /\ loc' = [loc EXCEPT ![t].layer = snaps[dir[t]].diff]
               /\ blobs' = blobs \cup {Layer(snaps[dir[t]].diff)}
               /\ Goto(t, IF Upper(t) \in DOMAIN snaps THEN "clean_upper" ELSE "clean_lower")
      <3>1. loc'[t].chain = loc[t].chain /\ loc'[t].layer = snaps[dir[t]].diff
        BY <1>2, <2>2 DEF ThreadsFit, Locals
      <3>2. pc'[t] \in {"clean_upper", "clean_lower"}
        BY <2>2, PartsLead
      <3>3. QED
        BY <1>2, <2>2, <3>1, <3>2 DEF Stocked, FetchPart, PutPart, UnpackPart, LayerPart
    <2>3. QED
      BY <1>11, <2>1, <2>2 DEF Compare
  <1>12. CASE CleanUpper(t)
    <2>1. /\ pc[t] = "clean_upper" /\ pc'[t] = "clean_lower"
          /\ UNCHANGED <<blobs, loc>>
      BY <1>12, PartsLead DEF CleanUpper, At
    <2>2. QED
      BY <1>2, <2>1 DEF Stocked, FetchPart, PutPart, UnpackPart, LayerPart
  <1>13. CASE CleanLower(t)
    <2>1. CASE Finish(t, TRUE)
      BY <1>3, <2>1, PartsLead
    <2>2. CASE /\ ~ loc[t].err
               /\ loc' = [loc EXCEPT ![t].chain = Append(@, loc[t].layer)]
               /\ Goto(t, "commit_mounts")
      <3> DEFINE c == loc[t].chain
                 d == loc[t].layer
      <3>1. c \in Seq(Layers) /\ d \in Layers
        BY <1>2 DEF Locals
      <3>2. loc'[t].chain = Append(c, d)
        BY <1>2, <2>2 DEF ThreadsFit, Locals
      <3>3. Layer(d) \in blobs
        BY <1>2, <1>13, <2>2 DEF CleanLower, At
      <3>4. LayersOf(Append(c, d)) \subseteq blobs
        <4> HIDE DEF c, d
        <4>1. ASSUME NEW i \in DOMAIN Append(c, d)
              PROVE  Append(c, d)[i] = d \/ (i \in DOMAIN c /\ Append(c, d)[i] = c[i])
          BY <3>1, AppendProperties, LenProperties
        <4>2. LayersOf(c) \subseteq blobs
          BY <1>2 DEF c
        <4>3. \A i \in DOMAIN c : Layer(c[i]) \in blobs
          BY <4>2 DEF LayersOf
        <4>4. \A i \in DOMAIN Append(c, d) : Layer(Append(c, d)[i]) \in blobs
          BY <3>3, <4>1, <4>3
        <4>5. QED
          BY <4>4, Zenon DEF LayersOf
      <3>5. pc'[t] = "commit_mounts" /\ UNCHANGED blobs
        BY <1>13, <2>2, PartsLead DEF CleanLower
      <3>6. QED
        BY <1>4, <3>2, <3>4, <3>5 DEF DiffPart, CommitPart
    <2>3. QED
      BY <1>13, <2>1, <2>2 DEF CleanLower
  <1>14. CASE CommitMounts(t) \/ CommitApply(t) \/ CommitActive(t)
    <2>1. CASE Finish(t, TRUE)
      BY <1>3, <2>1, PartsLead
    <2>2. UNCHANGED blobs
      <3>1. CASE CommitMounts(t)
        BY <3>1 DEF CommitMounts, store
      <3>2. CASE CommitApply(t) \/ CommitActive(t)
        BY <3>2 DEF CommitApply, CommitActive
      <3>3. QED
        BY <1>14, <3>1, <3>2
    <2>3. CASE UNCHANGED loc /\ \E p : /\ p \in {"commit_apply", "commit_snapshot", "commit_manifest"}
                                       /\ Goto(t, p)
      BY <1>2, <1>4, <2>2, <2>3, PartsLead DEF DiffPart, CommitPart
    <2>4. QED
      BY <1>14, <2>1, <2>3 DEF CommitMounts, CommitApply, CommitActive
  <1>15. CASE CommitManifest(t)
    <2>1. pc'[t] = "return" \/ /\ pc'[t] = "commit_config" /\ UNCHANGED loc
                               /\ blobs' = blobs \cup {Manifest(loc[t].chain)}
      BY <1>15, PartsLead DEF CommitManifest, WriteBlob
    <2>2. QED
      BY <1>2, <1>3, <2>1 DEF Stocked, FetchPart, PutPart, UnpackPart, LayerPart
  <1>16. CASE CommitConfig(t)
    <2>1. \/ pc'[t] = "return"
          \/ /\ pc'[t] = "put_update" /\ UNCHANGED loc
             /\ blobs' = blobs \cup {Config(loc[t].chain)}
             /\ pc[t] = "commit_config"
      BY <1>16, PartsLead DEF CommitConfig, WriteBlob, At
    <2>2. req'[t].op \notin Fetchers
      BY <1>1, <1>2 DEF Fetchers, Importers
    <2>3. QED
      BY <1>2, <1>3, <2>1, <2>2
      DEF Stocked, ContentOf, FetchPart, UnpackPart, LayerPart, DiffPart, CommitPart
  <1>17. QED
    BY <1>5, <1>6, <1>7, <1>8, <1>10, <1>11, <1>12, <1>13, <1>14, <1>15, <1>16 DEF CommitStep

LEMMA FirstContent ==
    ASSUME ThreadsFit, NEW t \in Threads, pc[t] \in PutPart,
           Stocked(pc[t], req[t], loc[t], blobs)
    PROVE  /\ ContentOf(Image(t).chain) \subseteq blobs
           /\ req[t].op \in Fetchers => /\ loc[t].todo \in Seq(Images)
                                        /\ loc[t].todo # << >>
  <1>1. pc[t] # "idle" /\ pc[t] \notin FetchPart \cup WalkPart
    BY DEF PutPart, FetchPart, WalkPart
  <1>2. /\ loc[t].todo \in Seq(Images)
        /\ req[t].op \in Fetchers => loc[t].todo # << >>
        /\ req[t].op \notin Fetchers => loc[t].todo = << >>
    <2>1. req[t].op \in Fetchers \cup {"commit", "create", "update"}
      BY <1>1, Busy DEF Reaches
    <2>2. QED
      BY <1>1, <2>1, Busy DEF Locals, Works
  <1>4. CASE req[t].op \in Fetchers
    <2>1. 1 \in DOMAIN loc[t].todo /\ Image(t) = loc[t].todo[1]
      BY <1>2, <1>4, HeadTailProperties, EmptySeq, LenProperties DEF Image
    <2>2. QED
      BY <1>2, <1>4, <2>1 DEF Stocked, Have
  <1>5. CASE req[t].op \notin Fetchers
    BY <1>2, <1>5 DEF Stocked, Image
  <1>6. QED
    BY <1>4, <1>5, <1>2

LEMMA AfterPutStocked ==
    ASSUME ThreadsFit, NEW t \in Threads, pc[t] \in PutPart,
           Stocked(pc[t], req[t], loc[t], blobs), AfterPut(t), UNCHANGED <<blobs, req>>
    PROVE  Stocked(pc'[t], req'[t], loc'[t], blobs')
  <1>1. /\ req[t].op \in Fetchers \cup {"commit", "create", "update"} /\ pc[t] # "idle"
        /\ req[t] \in Requests[t] /\ loc[t] \in Locals
    BY Busy DEF Reaches, PutPart
  <1>2. ASSUME pc'[t] \in {"return", "delete"}
        PROVE  Stocked(pc'[t], req'[t], loc'[t], blobs')
    BY <1>2, NotRecording
    DEF Stocking, FetchPart, PutPart, UnpackPart, LayerPart, DiffPart, CommitPart
  <1>3. ContentOf(Image(t).chain) \subseteq blobs
    BY FirstContent
  <1>4. req[t].op \in Fetchers => Have(req[t].archive, blobs) /\ Have(loc[t].todo, blobs)
    BY DEF Stocked
  <1>5. CASE req[t].op \in {"create", "update"}
    BY <1>2, <1>5, PartsLead DEF AfterPut
  <1>6. CASE req[t].op = "commit"
    <2>1. /\ pc'[t] = "unpack" /\ UNCHANGED loc
      BY <1>6, PartsLead DEF AfterPut
    <2>2. ContentOf(loc[t].chain) \subseteq blobs
      BY <1>6 DEF Stocked, Fetchers, Importers
    <2>3. QED
      BY <1>6, <2>1, <2>2
      DEF Stocked, FetchPart, PutPart, DiffPart, CommitPart, Fetchers, Importers
  <1>7. CASE req[t].op = "pull"
    <2>1. CASE Finish(t, FALSE)
      BY <1>2, <2>1, PartsLead
    <2>2. CASE /\ Goto(t, "unpack")
               /\ loc' = [loc EXCEPT ![t] = [Blank EXCEPT !.chain = Image(t).chain]]
      <3>1. pc'[t] = "unpack"
        BY <2>2, PartsLead
      <3>2. loc'[t].chain = Image(t).chain /\ loc'[t].todo = << >>
        BY <2>2, BlankFacts DEF ThreadsFit, Locals
      <3>3. Have(<< >>, blobs)
        BY DEF Have
      <3>4. QED
        BY <1>3, <1>4, <1>7, <3>1, <3>2, <3>3
        DEF Stocked, FetchPart, PutPart, DiffPart, CommitPart, Fetchers, Importers
    <2>3. QED
      BY <1>7, <2>1, <2>2 DEF AfterPut
  <1>8. CASE req[t].op \in Importers
    <2> DEFINE s == loc[t].todo
    <2>1. AfterImported(t) /\ req[t].op \in Fetchers
      BY <1>8 DEF AfterPut, Importers, Fetchers
    <2>2. s \in Seq(Images) /\ s # << >>
      BY <2>1, FirstContent
    <2>3. CASE Len(s) > 1
      <3>1. Goto(t, "put_update") /\ loc' = [loc EXCEPT ![t].todo = Tail(@)]
        BY <2>1, <2>3 DEF AfterImported
      <3>2. pc'[t] = "put_update"
        BY <3>1, PartsLead
      <3>3. loc'[t].todo = Tail(s)
        BY <1>1, <3>1 DEF ThreadsFit, Locals
      <3>4. Have(Tail(s), blobs)
        <4> HIDE DEF s
        <4>1. Have(s, blobs)
          BY <1>4, <2>1 DEF s
        <4>2. QED
          BY <2>2, <4>1, HaveFirst
      <3>5. QED
        BY <1>4, <2>1, <3>2, <3>3, <3>4
        DEF Stocked, FetchPart, UnpackPart, LayerPart, DiffPart, CommitPart
    <2>4. CASE UnpackFirst(t, req[t].archive, FALSE)
      <3>1. req[t].archive \in Seq(Images) /\ req[t].archive # << >>
        BY <1>1, <2>1, CallFacts
      <3>2. QED
        BY <1>4, <2>1, <2>4, <3>1, FirstStocked
    <2>5. CASE Fetched(t)
      BY <1>2, <2>5, FetchedLeads
    <2>6. QED
      BY <2>1, <2>3, <2>4, <2>5 DEF AfterImported
  <1>9. QED
    BY <1>1, <1>5, <1>6, <1>7, <1>8 DEF Fetchers

LEMMA ImageStocked ==
    ASSUME ThreadsFit, NEW t \in Threads, ImageStep(t),
           Stocked(pc[t], req[t], loc[t], blobs)
    PROVE  Stocked(pc'[t], req'[t], loc'[t], blobs')
  <1>1. ASSUME pc'[t] \in {"return", "deleted", "undone", "delete_check", "walk",
                           "delete_image"}
        PROVE  Stocked(pc'[t], req'[t], loc'[t], blobs')
    BY <1>1, NotRecording
    DEF Stocking, FetchPart, PutPart, UnpackPart, LayerPart, DiffPart, CommitPart
  <1>2. CASE FetchManifest(t)
    <2>1. CASE Finish(t, TRUE)
      BY <1>1, <2>1, PartsLead
    <2>2. CASE ~ Finish(t, TRUE)
      <3>1. /\ pc[t] = "fetch" /\ pc'[t] = "fetch_children" /\ UNCHANGED <<loc, req>>
        BY <1>2, <2>2, PartsLead DEF FetchManifest, At
      <3>2. QED
        BY <3>1 DEF Stocked, FetchPart, PutPart, UnpackPart, LayerPart, DiffPart, CommitPart
    <2>3. QED
      BY <2>1, <2>2
  <1>3. CASE DeleteGet(t) \/ DeleteCheck(t) \/ DeleteImage(t)
    <2>1. /\ pc[t] \in DeletePart /\ pc[t] # "idle"
          /\ pc[t] \notin UnpackPart
      BY <1>3 DEF DeleteGet, DeleteCheck, DeleteImage, At, DeletePart, UnpackPart, LayerPart
    <2>2. loc[t].loop \in {"none", "deleted", "undone"}
      <3>1. req[t].op \in {"delete", "single"}
        BY <2>1, Busy DEF Reaches
      <3>2. QED
        BY <2>1, <3>1, Busy DEF Follows, Importers
    <2>3. ASSUME NEW failed, EndPart(t, failed)
          PROVE  pc'[t] \in {"return", "deleted", "undone"}
      <3>1. CASE Finish(t, failed)
        BY <3>1, PartsLead
      <3>2. CASE loc[t].loop # "none" /\ Goto(t, loc[t].loop)
        BY <2>2, <3>2, PartsLead
      <3>3. QED
        BY <2>3, <3>1, <3>2 DEF EndPart
    <2>4. pc'[t] \in {"return", "deleted", "undone", "delete_check", "walk", "delete_image"}
      BY <1>3, <2>3, PartsLead DEF DeleteGet, DeleteCheck, DeleteImage
    <2>5. QED
      BY <1>1, <2>4
  <1>4. CASE FetchChildren(t)
    <2>1. CASE Finish(t, TRUE)
      BY <1>1, <2>1, PartsLead
    <2>2. CASE ~ Finish(t, TRUE)
      <3>1. /\ pc'[t] \in PutPart /\ pc[t] = "fetch_children" /\ UNCHANGED <<loc, req>>
            /\ blobs' = blobs \cup UNION {ContentOf(c) : c \in ChainsOf(t)}
        BY <1>4, <2>2, PartsLead DEF FetchChildren, At, PutPart
      <3>2. req[t].op \in Fetchers
        BY <3>1, Busy DEF Reaches, FetchPart
      <3>3. Have(loc[t].todo, blobs') /\ loc[t].todo = req[t].archive
        BY <3>1 DEF ChainsOf, Have, Stocked, FetchPart
      <3>4. pc'[t] \in {"put_update", "put_create"}
        BY <3>1 DEF PutPart
      <3>5. QED
        BY <3>1, <3>2, <3>3, <3>4
        DEF Stocked, FetchPart, UnpackPart, LayerPart, DiffPart, CommitPart
    <2>3. QED
      BY <2>1, <2>2
  <1>5. CASE PutUpdate(t) \/ PutCreate(t)
    <2>1. /\ pc[t] \in PutPart /\ UNCHANGED <<blobs, req>>
          /\ \/ AfterPut(t)
             \/ Finish(t, TRUE)
             \/ /\ Goto(t, "put_create") \/ Goto(t, "put_update")
                /\ UNCHANGED loc
      BY <1>5 DEF PutUpdate, PutCreate, At, PutPart
    <2>2. CASE Goto(t, "put_create") \/ Goto(t, "put_update")
      <3>1. pc'[t] \in {"put_update", "put_create"}
        BY <2>2, PartsLead
      <3>3. CASE UNCHANGED loc
        BY <2>1, <3>1, <3>3
        DEF Stocked, FetchPart, PutPart, UnpackPart, LayerPart, DiffPart, CommitPart
      <3>4. CASE AfterPut(t)
        BY <2>1, <3>4, AfterPutStocked
      <3>5. CASE Finish(t, TRUE)
        BY <1>1, <3>5, PartsLead
      <3>6. QED
        BY <2>1, <3>3, <3>4, <3>5
    <2>3. QED
      BY <1>1, <2>1, <2>2, AfterPutStocked, PartsLead
  <1>6. QED
    BY <1>2, <1>3, <1>4, <1>5 DEF ImageStep

\* Records are stored, with the content there, or are taken away.
LEMMA RecordsComplete ==
    ASSUME ThreadsFit, ContentComplete, NEW t \in Threads, ImageStep(t),
           Stocked(pc[t], req[t], loc[t], blobs)
    PROVE  ContentComplete'
  <1>1. blobs \subseteq blobs'
    BY BlobsGrow DEF Step
  <1>2. CASE FetchManifest(t) \/ FetchChildren(t) \/ DeleteGet(t) \/ DeleteCheck(t)
    BY <1>1, <1>2 DEF FetchManifest, FetchChildren, DeleteGet, DeleteCheck, store,
                      ContentComplete
  <1>3. CASE PutUpdate(t) \/ PutCreate(t)
    <2> DEFINE r == Image(t).ref
               c == Image(t).chain
    <2>1. pc[t] \in PutPart
      BY <1>3 DEF PutUpdate, PutCreate, At, PutPart
    <2>2. ContentOf(c) \subseteq blobs
      BY <2>1, FirstContent
    <2>3. \/ images' = [images EXCEPT ![r] = c]
          \/ images' = Put(images, r, c)
          \/ UNCHANGED images
      BY <1>3 DEF PutUpdate, PutCreate
    <2> HIDE DEF r, c
    <2>4. \A q \in DOMAIN images' : images'[q] = c \/ (q \in DOMAIN images /\ images'[q] = images[q])
      BY <2>3 DEF Put
    <2>5. QED
      BY <1>1, <2>2, <2>4 DEF ContentComplete
  <1>4. CASE DeleteImage(t)
    BY <1>1, <1>4 DEF DeleteImage, Restrict, ContentComplete
  <1>5. QED
    BY <1>2, <1>3, <1>4 DEF ImageStep

LEMMA RecordsKept ==
    ASSUME ContentComplete, NEW t \in Threads, Begin(t) \/ Step(t), ~ ImageStep(t)
    PROVE  ContentComplete'
  <1>1. UNCHANGED images
    <2>1. CASE Begin(t)
      BY <2>1 DEF Begin, MountStart, UmountStart, CommitStart, FetchStart, RecordStart,
                  UnpackStart, DeleteStart, LabelStart, LookStart, store
    <2>2. CASE UnpackStep(t) \/ RemovalStep(t) \/ MountStep(t)
      BY <2>2 DEF UnpackStep, CheckUnpacked, PrepareLayer, ApplyLayer, CommitLayer, AbortLayer,
                  RemovalStep, StatLink, RemoveLink,
                  MountStep, MountLease, MountCreate, MountExisting, MountAll, MountUndo,
                  MountFailed, UmountLease, UmountUnlease, store
    <2>3. CASE CommitStep(t)
      BY <2>3 DEF CommitStep, CommitStat, CommitBase, DiffStat, DiffLower, DiffMounts, DiffView,
                  Compare, CleanUpper, CleanLower, CommitMounts, CommitApply, CommitActive,
                  CommitManifest, CommitConfig, WriteBlob, store
    <2>4. CASE ImportStep(t) \/ LabelStep(t) \/ Return(t)
      BY <2>4 DEF ImportStep, Unpacked, Deleted, Undone,
                  LabelStep, LabelStat, LabelWrite, Look, Return, store
    <2>5. QED
      BY <2>1, <2>2, <2>3, <2>4 DEF Step
  <1>2. QED
    BY <1>1, BlobsGrow DEF ContentComplete

\* The steps that are not of a call leave records and content, and what the
\* calls have, as they are or end the calls.
LEMMA ContentStep ==
    ASSUME ThreadsFit, ContentInv, [Next]_vars
    PROVE  ContentInv'
  <1>1. ASSUME NEW t \in Threads, Begin(t) \/ Step(t)
        PROVE  ContentInv'
    <2>1. FetchedOnly \/ req'[t].op \in Fetchers => Stocked(pc'[t], req'[t], loc'[t], blobs')
      <3> SUFFICES ASSUME FetchedOnly \/ req'[t].op \in Fetchers
                   PROVE  Stocked(pc'[t], req'[t], loc'[t], blobs')
        OBVIOUS
      <3>1. CASE Begin(t)
        BY <3>1, BeginStocked
      <3>2. CASE Return(t)
        BY <3>2, PlainStocked
      <3>3. CASE Step(t) /\ ~ Return(t)
        <4>1. UNCHANGED req
          BY <3>3, StepCalls
        <4>2. Stocked(pc[t], req[t], loc[t], blobs)
          BY <4>1 DEF ContentInv
        <4>3. CommitStep(t) => ContentComplete
          <5> SUFFICES ASSUME CommitStep(t)
                       PROVE  req[t].op \notin Fetchers
            BY <4>1 DEF ContentInv
          <5>1. pc[t] \in DiffPart \cup CommitPart /\ pc[t] # "idle"
            BY DEF CommitStep, CommitStat, CommitBase, DiffStat, DiffLower, DiffMounts, DiffView,
                   Compare, CleanUpper, CleanLower, CommitMounts, CommitApply, CommitActive,
                   CommitManifest, CommitConfig, WriteBlob, At, DiffPart, CommitPart
          <5>2. QED
            BY <5>1, Busy DEF Reaches, Fetchers, Importers
        <4>4. QED
          BY <3>3, <4>2, <4>3, UnpackStocked, MountStocked, ImportStocked, PlainStocked,
             CommitStocked, ImageStocked DEF Step
      <3>4. QED
        BY <1>1, <3>1, <3>2, <3>3
    <2>2. \A u \in Threads \ {t} : FetchedOnly \/ req'[u].op \in Fetchers =>
             Stocked(pc'[u], req'[u], loc'[u], blobs')
      BY <1>1, StepApart, BlobsGrow, StockedGrows DEF Apart, ContentInv
    <2>3. FetchedOnly => ContentComplete'
      BY <1>1, RecordsComplete, RecordsKept DEF ContentInv
    <2>4. QED
      BY <2>1, <2>2, <2>3 DEF ContentInv
  <1>2. ASSUME ProcessEnds
        PROVE  ContentInv'
    <2>1. \A t \in Threads : pc'[t] = "idle"
      BY <1>2 DEF ProcessEnds
    <2>2. \A t \in Threads : Stocked(pc'[t], req'[t], loc'[t], blobs')
      BY <2>1, NotRecording
      DEF Stocking, FetchPart, PutPart, UnpackPart, LayerPart, DiffPart, CommitPart
    <2>3. FetchedOnly => ContentComplete'
      BY <1>2 DEF ProcessEnds, ContentInv, ContentComplete
    <2>4. QED
      BY <2>2, <2>3 DEF ContentInv
  <1>3. CASE UNCHANGED <<images, blobs, pc, req, loc>>
    BY <1>3 DEF ContentInv, ContentComplete, Stocked
  <1>4. QED
    BY <1>1, <1>2, <1>3 DEF Next, MountPanic, Kill, Reboot, UserWrite, thread, vars

LEMMA ContentInvariant == Spec => [](TInv /\ ContentInv)
  <1>1. Init => ContentInv
    <2> SUFFICES ASSUME Init
                 PROVE  ContentInv
      OBVIOUS
    <2>1. \A t \in Threads : pc[t] = "idle"
      BY DEF Init
    <2>2. \A t \in Threads : Stocked(pc[t], req[t], loc[t], blobs)
      BY <2>1, NotRecording
      DEF Stocking, FetchPart, PutPart, UnpackPart, LayerPart, DiffPart, CommitPart
    <2>3. QED
      BY <2>2 DEF Init, ContentInv, ContentComplete
  <1>2. TInv /\ ContentInv /\ [Next]_vars => ContentInv'
    BY ContentStep DEF TInv
  <1>3. QED
    BY <1>1, <1>2, TypesInvariant, PTL DEF Spec

\* However calls interleave, fail and crash: an image record is only ever in
\* the store with all of its content.  A call that stores a record has put
\* there, or found there, everything the record needs, and nothing goes.  Not
\* so Create and Update, which look nothing up.
THEOREM StoreContentComplete ==
    ASSUME FetchedOnly
    PROVE  Spec => []ContentComplete
  <1>1. ContentInv => ContentComplete
    BY DEF ContentInv
  <1>2. QED
    BY <1>1, ContentInvariant, PTL

-----------------------------------------------------------------------------
(* WalksInv.                                                               *)

LEMMA NotWalking ==
    ASSUME NEW p, NEW r, NEW l, p \notin WalkPart
    PROVE  Walking(p, r, l)
  BY DEF Walking, WalkPart

LEMMA BeginLeads ==
    ASSUME ThreadsFit, NEW t \in Threads, Begin(t)
    PROVE  pc'[t] \in {"mount_lease", "return", "umount_lease", "commit", "fetch", "put_create",
                       "put_update", "unpack", "delete", "label_stat", "label_write", "look"}
  BY PartsLead
  DEF Begin, MountStart, UmountStart, CommitStart, FetchStart, RecordStart, UnpackStart,
      DeleteStart, LabelStart, LookStart, Start

LEMMA CommitLeads ==
    ASSUME ThreadsFit, NEW t \in Threads, CommitStep(t)
    PROVE  pc'[t] \in DiffPart \cup CommitPart \cup {"return", "put_update"}
  <1>1. CASE DiffLower(t)
    <2>1. pc[t] = "diff_lower"
      BY <1>1 DEF DiffLower, At
    <2>2. loc[t].next \in {"diff_mounts", "diff_view"}
      BY <2>1, Busy DEF Follows
    <2>3. QED
      BY <1>1, <2>2, PartsLead DEF DiffLower, DiffPart
  <1>2. CASE CommitStat(t) \/ CommitBase(t) \/ DiffStat(t) \/ DiffMounts(t) \/ DiffView(t)
    BY <1>2, PartsLead DEF CommitStat, CommitBase, DiffStat, DiffMounts, DiffView, DiffFail,
                           DiffPart
  <1>3. CASE Compare(t) \/ CleanUpper(t) \/ CleanLower(t)
    BY <1>3, PartsLead DEF Compare, CleanUpper, CleanLower, DiffFail, DiffPart, CommitPart
  <1>4. CASE CommitMounts(t) \/ CommitApply(t)
    BY <1>4, PartsLead DEF CommitMounts, CommitApply, CommitPart
  <1>5. CASE CommitActive(t)
    BY <1>5, PartsLead DEF CommitActive, CommitPart
  <1>6. CASE CommitManifest(t) \/ CommitConfig(t)
    BY <1>6, PartsLead DEF CommitManifest, CommitConfig, WriteBlob, CommitPart
  <1>7. QED
    BY <1>1, <1>2, <1>3, <1>4, <1>5, <1>6 DEF CommitStep

LEMMA AfterPutLeads ==
    ASSUME ThreadsFit, NEW t \in Threads, pc[t] \in PutPart, AfterPut(t)
    PROVE  pc'[t] \in {"unpack", "return", "put_update", "delete"}
  <1>1. req[t].op \in Fetchers \cup {"commit", "create", "update"}
    BY Busy DEF Reaches, PutPart
  <1>2. AfterImported(t) => pc'[t] \in {"unpack", "return", "put_update", "delete"}
    BY PartsLead, FetchedLeads DEF AfterImported, UnpackFirst
  <1>3. CASE req[t].op \in Importers
    BY <1>2, <1>3 DEF AfterPut, Importers
  <1>4. CASE req[t].op \notin Importers
    <2>1. Finish(t, FALSE) \/ Goto(t, "unpack")
      BY <1>1, <1>4 DEF AfterPut, Fetchers, Importers
    <2>2. QED
      BY <2>1, PartsLead
  <1>5. QED
    BY <1>3, <1>4

LEMMA ImageLeads ==
    ASSUME ThreadsFit, NEW t \in Threads, ImageStep(t)
    PROVE  \/ pc'[t] \in PutPart \cup {"return", "fetch_children", "unpack", "unpacked",
                            "deleted", "undone", "delete", "delete_check", "delete_image"}
           \/ DeleteCheck(t)
  <1>1. CASE FetchManifest(t) \/ FetchChildren(t)
    BY <1>1, PartsLead DEF FetchManifest, FetchChildren, PutPart
  <1>2. CASE PutUpdate(t) \/ PutCreate(t)
    BY <1>2, PartsLead, AfterPutLeads DEF PutUpdate, PutCreate, PutPart, At
  <1>3. CASE DeleteGet(t) \/ DeleteImage(t)
    BY <1>3, PartsLead DEF DeleteGet, DeleteImage, At
  <1>4. QED
    BY <1>1, <1>2, <1>3 DEF ImageStep

LEMMA ParentsAreChains ==
    ASSUME IInv, NEW n \in DOMAIN snaps
    PROVE  snaps[n].parent[1] = "chain"
  <1>1. CASE snaps[n].parent = NoParent
    BY <1>1, NoParentAssumption DEF Chain
  <1>2. CASE snaps[n].parent # NoParent
    BY <1>2 DEF IInv, IInvIn, ParentsCommittedIn, IsCommitted, OnlyChainsCommittedIn
  <1>3. QED
    BY <1>1, <1>2

LEMMA RemovalWalks ==
    ASSUME ThreadsFit, IInv, WalksInv, NEW t \in Threads, RemovalStep(t)
    PROVE  Walking(pc'[t], req'[t], loc'[t])
  <1>1. ASSUME pc'[t] \notin WalkPart
        PROVE  Walking(pc'[t], req'[t], loc'[t])
    BY <1>1, NotWalking
  <1>2. /\ pc[t] \in WalkPart /\ pc[t] # "idle" /\ UNCHANGED req
    BY DEF RemovalStep, StatLink, RemoveLink, At, WalkPart
  <1>3. /\ loc[t] \in Locals
        /\ Walking(pc[t], req[t], loc[t])
        /\ loc[t].next \notin WalkPart
    BY <1>2, Busy DEF WalksInv, Locals, Nexts, WalkPart
  <1>4. Continue(t) => Walking(pc'[t], req'[t], loc'[t])
    BY <1>1, <1>3, PartsLead
  <1>5. CASE StatLink(t)
    <2>1. CASE /\ loc[t].cur \in DOMAIN snaps
               /\ Goto(t, "walk_remove")
               /\ loc' = [loc EXCEPT ![t].par = snaps[loc[t].cur].parent]
      <3>1. pc'[t] = "walk_remove"
        BY <2>1, PartsLead
      <3>2. loc'[t].cur = loc[t].cur /\ loc'[t].par = snaps[loc[t].cur].parent
        BY <1>3, <2>1 DEF ThreadsFit, Locals
      <3>3. snaps[loc[t].cur].parent[1] = "chain"
        BY <2>1, ParentsAreChains
      <3>4. QED
        BY <1>2, <1>3, <3>1, <3>2, <3>3 DEF Walking
    <2>2. QED
      BY <1>4, <1>5, <2>1 DEF StatLink
  <1>6. CASE RemoveLink(t)
    <2>1. loc[t].par[1] = "chain"
      BY <1>3, <1>6 DEF Walking, RemoveLink, At
    <2>2. EndPart(t, TRUE) => Walking(pc'[t], req'[t], loc'[t])
      BY <1>1, <1>2, PartsLead DEF WalkPart
    <2>3. Climb(t) => Walking(pc'[t], req'[t], loc'[t])
      <3> DEFINE d == IF loc[t].depth > 0 THEN loc[t].depth - 1 ELSE loc[t].depth
                 l == [loc[t] EXCEPT !.cur = loc[t].par, !.depth = d]
      <3> HIDE DEF d
      <3>1. CASE Goto(t, "walk") /\ loc' = [loc EXCEPT ![t] = l]
        <4>1. pc'[t] = "walk" /\ loc'[t].cur = loc[t].par
          BY <1>3, <3>1, PartsLead DEF ThreadsFit, Locals
        <4>2. QED
          BY <2>1, <4>1 DEF Walking
      <3>2. QED
        BY <1>4, <3>1 DEF Climb, d
    <2>4. QED
      BY <1>4, <1>6, <2>2, <2>3 DEF RemoveLink
  <1>7. QED
    BY <1>5, <1>6 DEF RemovalStep

LEMMA StepWalks ==
    ASSUME ThreadsFit, IInv, WalksInv, NEW t \in Threads, Begin(t) \/ Step(t)
    PROVE  Walking(pc'[t], req'[t], loc'[t])
  <1>1. ASSUME pc'[t] \notin WalkPart
        PROVE  Walking(pc'[t], req'[t], loc'[t])
    BY <1>1, NotWalking
  <1>2. CASE Begin(t)
    BY <1>1, <1>2, BeginLeads DEF WalkPart
  <1>3. CASE UnpackStep(t)
    BY <1>1, <1>3, UnpackLeads DEF WalkPart, UnpackPart, LayerPart
  <1>4. CASE CommitStep(t)
    BY <1>1, <1>4, CommitLeads DEF WalkPart, DiffPart, CommitPart
  <1>5. CASE ImportStep(t) \/ LabelStep(t)
    BY <1>1, <1>5, ImportLeads, LabelLeads DEF WalkPart
  <1>6. CASE Return(t)
    BY <1>1, <1>6, PartsLead DEF Return, WalkPart
  <1>7. CASE DeleteCheck(t)
    <2> DEFINE d == -1
               l == [loc[t] EXCEPT !.cur = Chain(loc[t].chain), !.depth = d,
                                   !.next = "delete_image"]
    <2>1. loc[t] \in Locals
      BY DEF ThreadsFit, Fits
    <2> HIDE DEF d
    <2>2. CASE Goto(t, "walk") /\ loc' = [loc EXCEPT ![t] = l]
      <3>1. pc'[t] = "walk" /\ loc'[t].cur = Chain(loc[t].chain)
        BY <2>1, <2>2, PartsLead DEF ThreadsFit, Locals
      <3>2. QED
        BY <3>1 DEF Walking, Chain
    <2>3. CASE Goto(t, "delete_image")
      BY <1>1, <2>3, PartsLead DEF WalkPart
    <2>4. CASE EndPart(t, TRUE)
      BY <1>1, <1>7, <2>4, PartsLead DEF DeleteCheck, At, WalkPart
    <2>5. QED
      BY <1>7, <2>2, <2>3, <2>4 DEF DeleteCheck, d
  <1>8. CASE ImageStep(t)
    BY <1>1, <1>7, <1>8, ImageLeads DEF WalkPart, PutPart
  <1>9. CASE UmountUnlease(t)
    <2> DEFINE d == IF req[t].rm > 0 THEN req[t].rm - 1 ELSE -1
               l == [loc[t] EXCEPT !.cur = req[t].name, !.depth = d]
    <2>1. loc[t] \in Locals /\ req[t].op = "umount"
      BY <1>9, Busy DEF UmountUnlease, At, Reaches
    <2>2. CASE Finish(t, TRUE)
      BY <1>1, <2>2, PartsLead DEF WalkPart
    <2>3. CASE ~ Finish(t, TRUE)
      <3>1. Goto(t, "walk") /\ loc' = [loc EXCEPT ![t] = l] /\ UNCHANGED req
        BY <1>9, <2>3 DEF UmountUnlease
      <3> HIDE DEF d
      <3>2. pc'[t] = "walk" /\ loc'[t].cur = req[t].name
        BY <2>1, <3>1, PartsLead DEF ThreadsFit, Locals
      <3>3. QED
        BY <2>1, <3>1, <3>2 DEF Walking
    <2>4. QED
      BY <2>2, <2>3
  <1>10. CASE MountStep(t) /\ ~ UmountUnlease(t)
    <2>1. pc'[t] \notin WalkPart
      BY <1>10, PartsLead
      DEF MountStep, MountLease, MountCreate, MountExisting, MountAll, MountUndo,
          MountFailed, UmountLease, WalkPart
    <2>2. QED
      BY <1>1, <2>1
  <1>11. QED
    BY <1>2, <1>3, <1>4, <1>5, <1>6, <1>8, <1>9, <1>10, RemovalWalks DEF Step

LEMMA WalksStep ==
    ASSUME ThreadsFit, IInv, WalksInv, [Next]_vars
    PROVE  WalksInv'
  <1>1. ASSUME NEW t \in Threads, Begin(t) \/ Step(t)
        PROVE  WalksInv'
    <2>1. Walking(pc'[t], req'[t], loc'[t])
      BY <1>1, StepWalks
    <2>2. \A u \in Threads \ {t} : Walking(pc'[u], req'[u], loc'[u])
      BY <1>1, StepApart DEF Apart, WalksInv
    <2>3. QED
      BY <2>1, <2>2 DEF WalksInv, Walking
  <1>2. ASSUME ProcessEnds
        PROVE  WalksInv'
    BY <1>2, NotWalking DEF ProcessEnds, WalksInv, Walking, WalkPart
  <1>3. CASE UNCHANGED <<pc, req, loc>>
    BY <1>3 DEF WalksInv, Walking
  <1>4. QED
    BY <1>1, <1>2, <1>3 DEF Next, MountPanic, Kill, Reboot, UserWrite, thread, vars

LEMMA WalksInvariant == Spec => [](TInv /\ IInv /\ WalksInv)
  <1>1. Init => IInv /\ WalksInv
    BY NotWalking DEF Init, IInv, IInvIn, ParentsCommittedIn, OnlyChainsCommittedIn,
                      WalksInv, WalkPart
  <1>2. IInv /\ [Next]_vars => IInv'
    BY NextEffect, EffectKeeps DEF IInv
  <1>3. TInv /\ IInv /\ WalksInv /\ [Next]_vars => WalksInv'
    BY WalksStep DEF TInv
  <1>4. QED
    BY <1>1, <1>2, <1>3, TypesInvariant, PTL DEF Spec

-----------------------------------------------------------------------------
(* The work in an active snapshot.                                         *)

Kept(n) == n \in DOMAIN snaps' /\ snaps[n].diff \subseteq snaps'[n].diff

\* t has been asked to take n away.
Asked(t, n) ==
    /\ req[t] # NoReq
    /\ req[t].op \in {"mount", "umount", "commit"}
    /\ req[t].name = n
    /\ req[t].op = "mount" => pc[t] = "mount_undo"
    /\ req[t].op = "commit" =>
          \E c \in DOMAIN snaps' \ DOMAIN snaps :
              snaps'[c] = [snaps[n] EXCEPT !.kind = "committed", !.label = NoRef]

LEMMA TransactionsKeep ==
    ASSUME StoreTyped, NEW n \in DOMAIN snaps
    PROVE  /\ UNCHANGED snaps => Kept(n)
           /\ \A kind, m, p, label : /\ CreateResult(snaps, m, p) = "ok"
                                     /\ snaps' = Created(snaps, kind, m, p, label)
                                     => Kept(n)
           /\ \A m, d : snaps' = Written(snaps, m, d) => Kept(n)
           /\ \A m, label : snaps' = Relabelled(snaps, m, label) => Kept(n)
           /\ \A m : RemoveSnapshot(m) /\ m # n => Kept(n)
           /\ \A m, c : CommitResult(snaps, m, c) = "ok" /\ CommitSnapshot(m, c) /\ m # n
                        => Kept(n)
  <1>1. snaps[n] \in Snapshots
    BY DEF StoreTyped, SnapsTyped
  <1>2. UNCHANGED snaps => Kept(n)
    BY DEF Kept
  <1>3. ASSUME NEW kind, NEW m, NEW p, NEW label, CreateResult(snaps, m, p) = "ok",
               snaps' = Created(snaps, kind, m, p, label)
        PROVE  Kept(n)
    <2>1. m \notin DOMAIN snaps
      BY <1>3 DEF CreateResult
    <2>2. n \in DOMAIN snaps' /\ snaps'[n] = snaps[n]
      BY <1>3, <2>1 DEF Created, Put
    <2>3. QED
      BY <2>2 DEF Kept
  <1>4. ASSUME NEW m, NEW d, snaps' = Written(snaps, m, d)
        PROVE  Kept(n)
    <2>1. CASE m = n
      <3>1. n \in DOMAIN snaps' /\ snaps'[n] = [snaps[n] EXCEPT !.diff = @ \cup d]
        BY <1>4, <2>1 DEF Written
      <3>2. snaps'[n].diff = snaps[n].diff \cup d
        BY <1>1, <3>1 DEF Snapshots
      <3>3. QED
        BY <3>1, <3>2 DEF Kept
    <2>2. CASE m # n
      BY <1>4, <2>2 DEF Written, Kept
    <2>3. QED
      BY <2>1, <2>2
  <1>5. ASSUME NEW m, NEW label, snaps' = Relabelled(snaps, m, label)
        PROVE  Kept(n)
    BY <1>1, <1>5 DEF Relabelled, Kept, Snapshots
  <1>6. ASSUME NEW m, RemoveSnapshot(m), m # n
        PROVE  Kept(n)
    BY <1>6, RemovedFacts DEF RemoveSnapshot, Kept
  <1>7. ASSUME NEW m, NEW c, CommitResult(snaps, m, c) = "ok", CommitSnapshot(m, c), m # n
        PROVE  Kept(n)
    <2>1. c \notin DOMAIN snaps
      BY <1>7 DEF CommitResult
    <2>2. n \in DOMAIN snaps' /\ snaps'[n] = snaps[n]
      BY <1>7, <2>1 DEF CommitSnapshot, Committed, Put, Removed, Restrict
    <2>3. QED
      BY <2>2 DEF Kept
  <1>8. QED
    BY <1>2, <1>3, <1>4, <1>5, <1>6, <1>7

LEMMA StepKeeps ==
    ASSUME TInv, WalksInv, NEW t \in Threads, Begin(t) \/ Step(t),
           NEW n \in DOMAIN snaps, n[1] = "key"
    PROVE  Kept(n) \/ Asked(t, n)
  <1>1. ThreadsFit /\ StoreTyped
    BY DEF TInv
  <1>2. \A kind \in TempKinds : Temp(kind, t) # n
    BY DEF Temp, TempKinds
  <1>3. ASSUME UNCHANGED snaps
        PROVE  Kept(n)
    BY <1>1, <1>3, TransactionsKeep
  <1>4. CASE Begin(t)
    BY <1>3, <1>4 DEF Begin, MountStart, UmountStart, CommitStart, FetchStart, RecordStart,
                      UnpackStart, DeleteStart, LabelStart, LookStart, store
  <1>5. CASE UnpackStep(t)
    <2>1. Extract(t) # n
      BY <1>2 DEF Extract, TempKinds
    <2>2. CASE CheckUnpacked(t)
      BY <1>3, <2>2 DEF CheckUnpacked, store
    <2>3. CASE PrepareLayer(t)
      BY <1>1, <2>3, TransactionsKeep DEF PrepareLayer
    <2>4. CASE ApplyLayer(t)
      BY <1>1, <2>4, TransactionsKeep DEF ApplyLayer
    <2>5. CASE CommitLayer(t)
      BY <1>1, <1>3, <2>1, <2>5, TransactionsKeep DEF CommitLayer
    <2>6. CASE AbortLayer(t)
      BY <1>1, <2>1, <2>6, TransactionsKeep DEF AbortLayer
    <2>7. QED
      BY <1>5, <2>2, <2>3, <2>4, <2>5, <2>6 DEF UnpackStep
  <1>6. CASE RemovalStep(t)
    <2>1. CASE StatLink(t)
      BY <1>3, <2>1 DEF StatLink, store
    <2>2. CASE RemoveLink(t)
      <3>1. pc[t] = "walk_remove"
        BY <2>2 DEF RemoveLink, At
      <3>2. req[t] # NoReq
        BY <1>1, <3>1, Busy, RequestsAssumption
      <3>3. CASE loc[t].cur = n
        <4>1. req[t].op = "umount" /\ req[t].name = n
          BY <3>1, <3>3 DEF WalksInv, Walking, WalkPart
        <4>2. QED
          BY <3>2, <4>1 DEF Asked
      <3>4. CASE loc[t].cur # n
        BY <1>1, <1>3, <2>2, <3>4, TransactionsKeep DEF RemoveLink
      <3>5. QED
        BY <3>3, <3>4
    <2>3. QED
      BY <1>6, <2>1, <2>2 DEF RemovalStep
  <1>7. CASE MountStep(t)
    <2>1. CASE MountCreate(t)
      BY <1>1, <2>1, TransactionsKeep DEF MountCreate
    <2>2. CASE MountUndo(t)
      <3>1. pc[t] = "mount_undo"
        BY <2>2 DEF MountUndo, At
      <3>2. req[t] # NoReq /\ req[t].op = "mount"
        BY <1>1, <3>1, Busy, RequestsAssumption DEF Reaches, MountPart
      <3>3. CASE req[t].name = n
        BY <3>1, <3>2, <3>3 DEF Asked
      <3>4. CASE req[t].name # n
        BY <1>1, <1>3, <2>2, <3>4, TransactionsKeep DEF MountUndo
      <3>5. QED
        BY <3>3, <3>4
    <2>3. CASE \/ MountLease(t) \/ MountExisting(t) \/ MountAll(t)
               \/ MountFailed(t) \/ UmountLease(t) \/ UmountUnlease(t)
      BY <1>3, <2>3 DEF MountLease, MountExisting, MountAll, MountFailed, UmountLease,
                        UmountUnlease, store
    <2>4. QED
      BY <1>7, <2>1, <2>2, <2>3 DEF MountStep
  <1>8. CASE CommitStep(t)
    <2>1. Upper(t) # n /\ Lower(t) # n
      BY <1>2 DEF Upper, Lower, TempKinds
    <2>2. CASE DiffLower(t) \/ DiffView(t)
      BY <1>1, <2>2, TransactionsKeep DEF DiffLower, DiffView
    <2>3. CASE CleanUpper(t) \/ CleanLower(t)
      BY <1>1, <2>1, <2>3, TransactionsKeep DEF CleanUpper, CleanLower
    <2>4. CASE CommitApply(t)
      BY <1>1, <2>4, TransactionsKeep DEF CommitApply
    <2>5. CASE CommitActive(t)
      <3> DEFINE m == req[t].name
                 c == Chain(loc[t].chain)
      <3>1. /\ pc[t] = "commit_snapshot"
            /\ \/ CommitResult(snaps, m, c) = "ok" /\ CommitSnapshot(m, c)
               \/ UNCHANGED snaps
        BY <2>5 DEF CommitActive, At
      <3>2. req[t] # NoReq /\ req[t].op = "commit"
        BY <1>1, <3>1, Busy, RequestsAssumption DEF Reaches, CommitPart
      <3> HIDE DEF m, c
      <3>3. CASE CommitResult(snaps, m, c) = "ok" /\ CommitSnapshot(m, c) /\ m = n
        <4>1. c \notin DOMAIN snaps
          BY <3>3 DEF CommitResult
        <4>2. /\ c \in DOMAIN snaps'
              /\ snaps'[c] = [snaps[n] EXCEPT !.kind = "committed", !.label = NoRef]
          BY <3>3, <4>1 DEF CommitSnapshot, Committed, Put
        <4>3. c \in DOMAIN snaps' \ DOMAIN snaps
          BY <4>1, <4>2
        <4>4. QED
          BY <3>2, <3>3, <4>2, <4>3 DEF Asked, m
      <3>4. QED
        BY <1>1, <1>3, <3>1, <3>3, TransactionsKeep
    <2>6. CASE \/ CommitStat(t) \/ CommitBase(t) \/ DiffStat(t) \/ DiffMounts(t)
               \/ Compare(t) \/ CommitMounts(t) \/ CommitManifest(t) \/ CommitConfig(t)
      BY <1>3, <2>6 DEF CommitStat, CommitBase, DiffStat, DiffMounts, Compare,
                        CommitMounts, CommitManifest, CommitConfig, WriteBlob, store
    <2>7. QED
      BY <1>8, <2>2, <2>3, <2>4, <2>5, <2>6 DEF CommitStep
  <1>9. CASE ImageStep(t) \/ ImportStep(t) \/ Return(t)
    BY <1>3, <1>9 DEF ImageStep, FetchManifest, FetchChildren, PutUpdate, PutCreate, DeleteGet,
                      DeleteCheck, DeleteImage, ImportStep, Unpacked, Deleted, Undone, Return,
                      store
  <1>10. CASE LabelStep(t)
    <2>1. CASE LabelWrite(t)
      BY <1>1, <1>3, <2>1, TransactionsKeep DEF LabelWrite
    <2>2. CASE LabelStat(t) \/ Look(t)
      BY <1>3, <2>2 DEF LabelStat, Look, store
    <2>3. QED
      BY <1>10, <2>1, <2>2 DEF LabelStep
  <1>11. QED
    BY <1>4, <1>5, <1>6, <1>7, <1>8, <1>9, <1>10 DEF Step

\* However calls interleave, fail and crash, nobody loses the work in an
\* active snapshot under a key: it goes on growing unless a call that names
\* the key commits it, removes it on Umount, or takes back a failed Mount.
\* No removal of a chain, no clean-up of an extraction or a diff, and no
\* deletion of an image takes it away.
THEOREM StoreActiveKept == Spec => ActiveKept
  <1>1. ASSUME TInv, WalksInv, [Next]_vars, NEW n \in DOMAIN snaps, n[1] = "key"
        PROVE  Kept(n) \/ \E t \in Threads : Asked(t, n)
    <2>1. ASSUME NEW t \in Threads, Begin(t) \/ Step(t)
          PROVE  Kept(n) \/ \E u \in Threads : Asked(u, n)
      BY <1>1, <2>1, StepKeeps
    <2>2. CASE UserWrite
      BY <1>1, <2>2, TransactionsKeep DEF UserWrite, TInv
    <2>3. CASE UNCHANGED snaps
      BY <1>1, <2>3, TransactionsKeep DEF TInv
    <2>4. QED
      BY <1>1, <2>1, <2>2, <2>3 DEF Next, MountPanic, Kill, Reboot, ProcessEnds, vars
  <1>2. TInv /\ WalksInv /\ [Next]_vars =>
            \A n \in DOMAIN snaps :
                n[1] = "key" /\ snaps[n].kind = "active" =>
                    \/ n \in DOMAIN snaps' /\ snaps[n].diff \subseteq snaps'[n].diff
                    \/ \E t \in Threads :
                          /\ req[t] # NoReq
                          /\ req[t].op \in {"mount", "umount", "commit"}
                          /\ req[t].name = n
                          /\ req[t].op = "mount" => pc[t] = "mount_undo"
                          /\ req[t].op = "commit" =>
                                \E c \in DOMAIN snaps' \ DOMAIN snaps :
                                    snaps'[c] = [snaps[n] EXCEPT !.kind = "committed",
                                                                 !.label = NoRef]
    BY <1>1 DEF Kept, Asked
  <1>3. QED
    BY <1>2, WalksInvariant, PTL DEF Spec, ActiveKept

-----------------------------------------------------------------------------
(* TempsInv.                                                               *)

TempPlaces == {"apply", "commit_layer", "abort_layer", "diff_mounts", "diff_view", "compare",
               "clean_upper", "clean_lower"}

\* The temporary of that kind stays behind.
Lost(kind, t) == serial'[<<kind, t>>] = serial[<<kind, t>>] + 1

\* What a step of t may do to temporary snapshots and leases: make those of
\* t, and go on to where t holds what is left of them, unless it is lost.
SnapTemps(t) ==
    /\ \A m \in DOMAIN snaps' : \/ m \in DOMAIN snaps \/ m[1] \notin TempKinds
                                \/ m \in {Extract(t), Lower(t), Upper(t)}
    /\ \A kind \in TempKinds \ {"lease"} :
          Temp(kind, t) \in DOMAIN snaps' => Holds(kind, pc'[t], req'[t]) \/ Lost(kind, t)

LeaseTemps(t) ==
    /\ \A m \in leases' : m \in leases \/ m[1] \notin TempKinds \/ m = Temp("lease", t)
    /\ Temp("lease", t) \in leases' =>
          (pc'[t] # "idle" /\ req'[t].op # "mount") \/ Lost("lease", t)

LEMMA HeldTemps ==
    ASSUME StoreTyped, TempsInv, NEW t \in Threads
    PROVE  /\ \A kind \in TempKinds : Temp(kind, t) \in DOMAIN snaps =>
                                          kind # "lease" /\ Holds(kind, pc[t], req[t])
           /\ Temp("lease", t) \in leases => pc[t] # "idle" /\ req[t].op # "mount"
  <1>1. \A kind \in TempKinds : serial[<<kind, t>>] \in Nat
    BY DEF StoreTyped, Serials
  <1>2. \A kind \in TempKinds : Temp(kind, t) \in DOMAIN snaps =>
                                    kind # "lease" /\ Holds(kind, pc[t], req[t])
    BY <1>1 DEF TempsInv, TempsHeld, Temporary, Temp
  <1>3. Temp("lease", t) \in leases => Holds("lease", pc[t], req[t])
    BY <1>1 DEF TempsInv, TempsHeld, Temporary, Temp, TempKinds
  <1>4. QED
    BY <1>2, <1>3 DEF Holds

\* TempsInv after the step.
LEMMA TempsAfter ==
    ASSUME \A kind \in TempKinds, t \in Threads, n \in Nat :
              Temporary(kind, t, n, snaps', leases', serial'[<<kind, t>>], pc'[t], req'[t])
    PROVE  TempsInv'
  BY Zenon DEF TempsInv, TempsHeld

\* The names of the others stay the same.
SerialsGo(t) ==
    \A kind \in TempKinds, u \in Threads :
        \/ serial'[<<kind, u>>] = serial[<<kind, u>>]
        \/ u = t /\ Lost(kind, t)

LEMMA TempsTogether ==
    ASSUME StoreTyped, TempsInv, NEW t \in Threads, Apart(t), SnapTemps(t), LeaseTemps(t),
           SerialsGo(t)
    PROVE  TempsInv'
  <1>1. ASSUME NEW kind \in TempKinds, NEW u \in Threads
        PROVE  /\ serial[<<kind, u>>] \in Nat /\ serial'[<<kind, u>>] \in Nat
               /\ serial[<<kind, u>>] <= serial'[<<kind, u>>]
               /\ serial'[<<kind, u>>] = serial[<<kind, u>>] =>
                     ~ (serial'[<<kind, u>>] = serial[<<kind, u>>] + 1)
               /\ u # t => serial'[<<kind, u>>] = serial[<<kind, u>>]
    <2>1. serial[<<kind, u>>] \in Nat
      BY DEF StoreTyped, Serials
    <2>2. \/ serial'[<<kind, u>>] = serial[<<kind, u>>]
          \/ u = t /\ serial'[<<kind, u>>] = serial[<<kind, u>>] + 1
      BY DEF SerialsGo, Lost
    <2>3. QED
      BY <2>1, <2>2
  <1>2. ASSUME NEW kind \in TempKinds, NEW u \in Threads, NEW n \in Nat,
               <<kind, u, n>> \in DOMAIN snaps'
        PROVE  /\ kind # "lease" /\ n <= serial'[<<kind, u>>]
               /\ n = serial'[<<kind, u>>] => Holds(kind, pc'[u], req'[u])
    <2>1. CASE <<kind, u, n>> \in DOMAIN snaps
      <3>1. /\ kind # "lease" /\ n <= serial[<<kind, u>>]
            /\ n = serial[<<kind, u>>] => Holds(kind, pc[u], req[u])
        BY <2>1 DEF TempsInv, TempsHeld, Temporary
      <3>2. n <= serial'[<<kind, u>>]
        BY <1>1, <3>1
      <3>3. n = serial'[<<kind, u>>] => /\ n = serial[<<kind, u>>]
                                       /\ ~ (serial'[<<kind, u>>] = serial[<<kind, u>>] + 1)
        BY <1>1, <3>1
      <3>4. CASE u # t
        BY <3>1, <3>2, <3>3, <3>4 DEF Apart
      <3>5. CASE u = t
        BY <1>2, <3>1, <3>2, <3>3, <3>5 DEF SnapTemps, Temp, Lost
      <3>6. QED
        BY <3>4, <3>5
    <2>2. CASE <<kind, u, n>> \notin DOMAIN snaps
      <3>1. <<kind, u, n>> \in {Extract(t), Lower(t), Upper(t)}
        BY <1>2, <2>2 DEF SnapTemps
      <3>2. kind \in {"extract", "lower", "upper"} /\ u = t /\ n = serial[<<kind, t>>]
        BY <3>1 DEF Extract, Lower, Upper, Temp
      <3>3. n <= serial'[<<kind, u>>]
        BY <1>1, <3>2
      <3>4. n = serial'[<<kind, u>>] => ~ Lost(kind, t)
        BY <1>1, <3>2 DEF Lost
      <3>5. <<kind, u, n>> = Temp(kind, t)
        BY <3>2 DEF Temp
      <3>6. QED
        BY <1>2, <3>2, <3>3, <3>4, <3>5 DEF SnapTemps
    <2>3. QED
      BY <2>1, <2>2
  <1>3. ASSUME NEW kind \in TempKinds, NEW u \in Threads, NEW n \in Nat,
               <<kind, u, n>> \in leases'
        PROVE  /\ kind = "lease" /\ n <= serial'[<<kind, u>>]
               /\ n = serial'[<<kind, u>>] => Holds(kind, pc'[u], req'[u])
    <2>1. CASE <<kind, u, n>> \in leases
      <3>1. /\ kind = "lease" /\ n <= serial[<<kind, u>>]
            /\ n = serial[<<kind, u>>] => Holds(kind, pc[u], req[u])
        BY <2>1 DEF TempsInv, TempsHeld, Temporary
      <3>2. n <= serial'[<<kind, u>>]
        BY <1>1, <3>1
      <3>3. n = serial'[<<kind, u>>] => /\ n = serial[<<kind, u>>]
                                       /\ ~ (serial'[<<kind, u>>] = serial[<<kind, u>>] + 1)
        BY <1>1, <3>1
      <3>4. CASE u # t
        BY <3>1, <3>2, <3>3, <3>4 DEF Apart
      <3>5. CASE u = t
        BY <1>3, <3>1, <3>2, <3>3, <3>5 DEF LeaseTemps, Temp, Holds, Lost
      <3>6. QED
        BY <3>4, <3>5
    <2>2. CASE <<kind, u, n>> \notin leases
      <3>1. <<kind, u, n>> = Temp("lease", t)
        BY <1>3, <2>2 DEF LeaseTemps
      <3>2. kind = "lease" /\ u = t /\ n = serial[<<kind, t>>]
        BY <3>1 DEF Temp
      <3>3. n <= serial'[<<kind, u>>]
        BY <1>1, <3>2
      <3>4. n = serial'[<<kind, u>>] => ~ Lost("lease", t)
        BY <1>1, <3>2 DEF Lost
      <3>5. n = serial'[<<kind, u>>] => Holds(kind, pc'[u], req'[u])
        BY <1>3, <3>1, <3>2, <3>4 DEF LeaseTemps, Holds
      <3>6. QED
        BY <3>2, <3>3, <3>5
    <2>3. QED
      BY <2>1, <2>2
  <1>4. QED
    <2>1. ASSUME NEW kind \in TempKinds, NEW u \in Threads, NEW n \in Nat
          PROVE  Temporary(kind, u, n, snaps', leases', serial'[<<kind, u>>], pc'[u], req'[u])
      BY <1>2, <1>3 DEF Temporary
    <2>2. QED
      BY <2>1, TempsAfter, Zenon

\* A call that holds none, and makes none.
LEMMA NoSnapTemps ==
    ASSUME StoreTyped, TempsInv, NEW t \in Threads, pc[t] \notin TempPlaces,
           \A m \in DOMAIN snaps' : m \in DOMAIN snaps \/ m[1] \notin TempKinds
    PROVE  SnapTemps(t)
  <1>1. \A kind \in TempKinds : Temp(kind, t)[1] = kind
    BY DEF Temp
  <1>2. \A kind \in TempKinds \ {"lease"} : ~ Holds(kind, pc[t], req[t])
    BY DEF TempKinds, Holds, TempPlaces
  <1>3. \A kind \in TempKinds \ {"lease"} : Temp(kind, t) \notin DOMAIN snaps'
    BY <1>1, <1>2, HeldTemps
  <1>4. QED
    BY <1>3 DEF SnapTemps

\* A step between the start and the end of a call.
LEMMA SameLeaseTemps ==
    ASSUME StoreTyped, TempsInv, NEW t \in Threads, pc'[t] # "idle", UNCHANGED req,
           leases' \subseteq leases
    PROVE  LeaseTemps(t)
  BY HeldTemps DEF LeaseTemps

LEMMA LoseLost ==
    ASSUME StoreTyped, NEW t \in Threads, NEW kind \in TempKinds, Lose(kind, t)
    PROVE  Lost(kind, t)
  BY DEF StoreTyped, Serials, Lose, Lost

LEMMA UnpackTemps ==
    ASSUME TInv, TempsInv, NEW t \in Threads, UnpackStep(t)
    PROVE  SnapTemps(t) /\ LeaseTemps(t)
  <1>1. ThreadsFit /\ StoreTyped
    BY DEF TInv
  <1>2. LeaseTemps(t)
    <2>1. pc'[t] # "idle"
      BY <1>1, UnpackLeads DEF UnpackPart, LayerPart
    <2>2. UNCHANGED <<req, leases>>
      BY DEF UnpackStep, CheckUnpacked, PrepareLayer, ApplyLayer, CommitLayer, AbortLayer, store
    <2>3. QED
      BY <1>1, <2>1, <2>2, SameLeaseTemps
  <1>3. CASE CheckUnpacked(t)
    <2>1. pc[t] \notin TempPlaces /\ UNCHANGED snaps
      BY <1>3 DEF CheckUnpacked, At, TempPlaces, store
    <2>2. QED
      BY <1>1, <1>2, <2>1, NoSnapTemps
  <1>4. CASE PrepareLayer(t)
    <2>1. pc[t] \notin TempPlaces
      BY <1>4 DEF PrepareLayer, At, TempPlaces
    <2>2. CASE UNCHANGED snaps
      BY <1>1, <1>2, <2>1, <2>2, NoSnapTemps
    <2>3. CASE /\ snaps' = Created(snaps, "active", Extract(t), Below(t), NoRef)
               /\ Goto(t, "apply")
      <3>1. DOMAIN snaps' = DOMAIN snaps \cup {Extract(t)} /\ pc'[t] = "apply"
        BY <1>1, <2>3, PartsLead DEF Created, Put
      <3>2. \A kind \in TempKinds : Temp(kind, t) \in DOMAIN snaps' => kind = "extract"
        <4>1. \A kind \in TempKinds \ {"lease"} : ~ Holds(kind, pc[t], req[t])
          BY <2>1 DEF TempKinds, Holds, TempPlaces
        <4>2. \A kind \in TempKinds : Temp(kind, t) = Extract(t) => kind = "extract"
          BY DEF Temp, Extract
        <4>3. QED
          BY <1>1, <3>1, <4>1, <4>2, HeldTemps
      <3>3. QED
        BY <1>2, <3>1, <3>2 DEF SnapTemps, Holds
    <2>4. QED
      BY <1>4, <2>2, <2>3 DEF PrepareLayer
  <1>5. ASSUME pc[t] \in {"apply", "commit_layer", "abort_layer"}, NEW kind \in TempKinds,
               Temp(kind, t) \in DOMAIN snaps
        PROVE  kind = "extract"
    <2>1. kind # "lease" /\ Holds(kind, pc[t], req[t])
      BY <1>1, <1>5, HeldTemps
    <2>2. QED
      BY <1>5, <2>1 DEF Holds, TempKinds
  <1>6. CASE ApplyLayer(t)
    <2>1. DOMAIN snaps' = DOMAIN snaps
      BY <1>6 DEF ApplyLayer, Written
    <2>2. pc[t] = "apply" /\ pc'[t] \in {"commit_layer", "abort_layer"}
      BY <1>1, <1>6, PartsLead DEF ApplyLayer, At
    <2>3. QED
      BY <1>2, <1>5, <2>1, <2>2 DEF SnapTemps, Holds
  <1>7. CASE CommitLayer(t)
    <2>1. pc[t] = "commit_layer"
      BY <1>7 DEF CommitLayer, At
    <2>2. CASE CommitSnapshot(Extract(t), UpTo(t))
      <3>1. DOMAIN snaps' = (DOMAIN snaps \ {Extract(t)}) \cup {UpTo(t)}
        BY <2>2 DEF CommitSnapshot, Committed, Put, Removed, Restrict
      <3>2. UpTo(t)[1] = "chain"
        BY DEF UpTo, Chain
      <3>3. \A kind \in TempKinds : Temp(kind, t)[1] = kind
        BY DEF Temp
      <3>4. \A kind \in TempKinds : Temp(kind, t) \notin DOMAIN snaps'
        BY <1>5, <2>1, <3>1, <3>2, <3>3 DEF Extract, TempKinds
      <3>5. QED
        BY <1>2, <3>1, <3>2, <3>4 DEF SnapTemps, TempKinds
    <2>3. CASE Goto(t, "abort_layer") /\ UNCHANGED snaps
      <3>1. pc'[t] = "abort_layer"
        BY <1>1, <2>3, PartsLead
      <3>2. QED
        BY <1>2, <1>5, <2>1, <2>3, <3>1 DEF SnapTemps, Holds
    <2>4. QED
      BY <1>7, <2>2, <2>3 DEF CommitLayer
  <1>8. CASE AbortLayer(t)
    <2>1. pc[t] = "abort_layer"
      BY <1>8 DEF AbortLayer, At
    <2>2. CASE RemoveSnapshot(Extract(t))
      <3>1. DOMAIN snaps' = DOMAIN snaps \ {Extract(t)}
        BY <2>2, RemovedFacts DEF RemoveSnapshot
      <3>2. \A kind \in TempKinds : Temp(kind, t) \notin DOMAIN snaps'
        BY <1>5, <2>1, <3>1 DEF Extract
      <3>3. QED
        BY <1>2, <3>1, <3>2 DEF SnapTemps
    <2>3. CASE Lose("extract", t) /\ UNCHANGED snaps
      <3>1. Lost("extract", t)
        BY <1>1, <2>3, LoseLost DEF TempKinds
      <3>2. QED
        BY <1>2, <1>5, <2>1, <2>3, <3>1 DEF SnapTemps
    <2>4. QED
      BY <1>8, <2>2, <2>3 DEF AbortLayer
  <1>9. QED
    BY <1>3, <1>4, <1>6, <1>7, <1>8 DEF UnpackStep

LEMMA CommitTemps ==
    ASSUME TInv, TempsInv, NEW t \in Threads, CommitStep(t)
    PROVE  SnapTemps(t) /\ LeaseTemps(t)
  <1>1. ThreadsFit /\ StoreTyped
    BY DEF TInv
  <1>2. LeaseTemps(t)
    <2>1. pc'[t] # "idle"
      BY <1>1, CommitLeads DEF DiffPart, CommitPart
    <2>2. UNCHANGED <<req, leases>>
      BY DEF CommitStep, CommitStat, CommitBase, DiffStat, DiffLower, DiffMounts, DiffView,
             Compare, CleanUpper, CleanLower, CommitMounts, CommitApply, CommitActive,
             CommitManifest, CommitConfig, WriteBlob, store
    <2>3. QED
      BY <1>1, <2>1, <2>2, SameLeaseTemps
  <1>3. \A kind \in TempKinds : /\ Temp(kind, t)[1] = kind
                                /\ Temp(kind, t) = Lower(t) => kind = "lower"
                                /\ Temp(kind, t) = Upper(t) => kind = "upper"
    BY DEF Temp, Lower, Upper
  <1>4. ASSUME pc[t] \in {"diff_mounts", "diff_view", "compare", "clean_upper", "clean_lower"},
               NEW kind \in TempKinds, Temp(kind, t) \in DOMAIN snaps
        PROVE  \/ kind = "lower"
               \/ kind = "upper" /\ pc[t] \in {"compare", "clean_upper"}
    <2>1. kind # "lease" /\ Holds(kind, pc[t], req[t])
      BY <1>1, <1>4, HeldTemps
    <2>2. QED
      BY <1>4, <2>1 DEF Holds, TempKinds
  <1>5. ASSUME pc[t] \notin TempPlaces, UNCHANGED snaps
        PROVE  SnapTemps(t)
    BY <1>1, <1>5, NoSnapTemps
  <1>6. CASE CommitStat(t) \/ CommitBase(t) \/ DiffStat(t) \/ CommitMounts(t)
    BY <1>2, <1>5, <1>6 DEF CommitStat, CommitBase, DiffStat, CommitMounts, At, TempPlaces,
                            store
  <1>7. CASE CommitManifest(t) \/ CommitConfig(t)
    BY <1>2, <1>5, <1>7 DEF CommitManifest, CommitConfig, WriteBlob, At, TempPlaces
  <1>8. CASE DiffLower(t)
    <2>1. pc[t] = "diff_lower" /\ pc[t] \notin TempPlaces
      BY <1>8 DEF DiffLower, At, TempPlaces
    <2>2. CASE UNCHANGED snaps
      BY <1>2, <1>5, <2>1, <2>2
    <2>3. CASE /\ snaps' = Created(snaps, "view", Lower(t), loc[t].par, NoRef)
               /\ Continue(t)
      <3>1. DOMAIN snaps' = DOMAIN snaps \cup {Lower(t)}
        BY <2>3 DEF Created, Put
      <3>2. pc'[t] \in {"diff_mounts", "diff_view"}
        BY <1>1, <2>1, <2>3, PartsLead, Busy DEF Follows
      <3>3. \A kind \in TempKinds \ {"lease"} : ~ Holds(kind, pc[t], req[t])
        BY <2>1 DEF TempKinds, Holds, TempPlaces
      <3>4. \A kind \in TempKinds : Temp(kind, t) \in DOMAIN snaps' => kind = "lower"
        BY <1>1, <1>3, <3>1, <3>3, HeldTemps
      <3>5. QED
        BY <1>2, <3>1, <3>2, <3>4 DEF SnapTemps, Holds
    <2>4. QED
      BY <1>8, <2>2, <2>3 DEF DiffLower
  <1>9. ASSUME pc[t] \in {"diff_mounts", "diff_view", "compare"}, UNCHANGED snaps,
               \/ pc'[t] = "compare"
               \/ pc'[t] = IF Upper(t) \in DOMAIN snaps THEN "clean_upper" ELSE "clean_lower"
        PROVE  SnapTemps(t)
    <2>1. \A kind \in TempKinds : Temp(kind, t) \in DOMAIN snaps =>
                kind = "lower" \/ (kind = "upper" /\ pc'[t] \in {"compare", "clean_upper"})
      BY <1>4, <1>9 DEF Upper
    <2>2. pc'[t] \in {"compare", "clean_upper", "clean_lower"}
      BY <1>9
    <2>3. QED
      BY <1>9, <2>1, <2>2 DEF SnapTemps, Holds
  <1>10. CASE DiffMounts(t) \/ Compare(t)
    <2>1. pc[t] \in {"diff_mounts", "diff_view", "compare"} /\ UNCHANGED snaps
      BY <1>10 DEF DiffMounts, Compare, At, store
    <2>2. \/ pc'[t] = "compare"
          \/ pc'[t] = IF Upper(t) \in DOMAIN snaps THEN "clean_upper" ELSE "clean_lower"
      BY <1>1, <1>10, PartsLead DEF DiffMounts, Compare, DiffFail
    <2>3. QED
      BY <1>2, <1>9, <2>1, <2>2
  <1>11. CASE DiffView(t)
    <2>1. pc[t] = "diff_view"
      BY <1>11 DEF DiffView, At
    <2>2. CASE /\ snaps' = Created(snaps, "view", Upper(t), req[t].name, NoRef)
               /\ Goto(t, "compare")
      <3>1. DOMAIN snaps' = DOMAIN snaps \cup {Upper(t)} /\ pc'[t] = "compare"
        BY <1>1, <2>2, PartsLead DEF Created, Put
      <3>2. \A kind \in TempKinds : Temp(kind, t) \in DOMAIN snaps' =>
                                        kind \in {"lower", "upper"}
        BY <1>3, <1>4, <2>1, <3>1
      <3>3. QED
        BY <1>2, <3>1, <3>2 DEF SnapTemps, Holds
    <2>3. CASE DiffFail(t) /\ UNCHANGED snaps
      BY <1>1, <1>2, <1>9, <2>1, <2>3, PartsLead DEF DiffFail
    <2>4. QED
      BY <1>11, <2>2, <2>3 DEF DiffView
  <1>12. CASE CleanUpper(t)
    <2>1. pc[t] = "clean_upper" /\ pc'[t] = "clean_lower"
      BY <1>1, <1>12, PartsLead DEF CleanUpper, At
    <2>2. CASE RemoveSnapshot(Upper(t))
      <3>1. DOMAIN snaps' = DOMAIN snaps \ {Upper(t)}
        BY <2>2, RemovedFacts DEF RemoveSnapshot
      <3>2. \A kind \in TempKinds : Temp(kind, t) \in DOMAIN snaps' => kind = "lower"
        BY <1>4, <2>1, <3>1 DEF Upper
      <3>3. QED
        BY <1>2, <2>1, <3>1, <3>2 DEF SnapTemps, Holds
    <2>3. CASE Lose("upper", t) /\ UNCHANGED snaps
      <3>1. Lost("upper", t)
        BY <1>1, <2>3, LoseLost DEF TempKinds
      <3>2. QED
        BY <1>2, <1>4, <2>1, <2>3, <3>1 DEF SnapTemps, Holds
    <2>4. QED
      BY <1>12, <2>2, <2>3 DEF CleanUpper
  <1>13. CASE CleanLower(t)
    <2>1. pc[t] = "clean_lower"
      BY <1>13 DEF CleanLower, At
    <2>2. CASE RemoveSnapshot(Lower(t))
      <3>1. DOMAIN snaps' = DOMAIN snaps \ {Lower(t)}
        BY <2>2, RemovedFacts DEF RemoveSnapshot
      <3>2. \A kind \in TempKinds : Temp(kind, t) \notin DOMAIN snaps'
        BY <1>4, <2>1, <3>1 DEF Lower
      <3>3. QED
        BY <1>2, <3>1, <3>2 DEF SnapTemps
    <2>3. CASE Lose("lower", t) /\ UNCHANGED snaps
      <3>1. Lost("lower", t)
        BY <1>1, <2>3, LoseLost DEF TempKinds
      <3>2. QED
        BY <1>2, <1>4, <2>1, <2>3, <3>1 DEF SnapTemps
    <2>4. QED
      BY <1>13, <2>2, <2>3 DEF CleanLower
  <1>14. CASE CommitApply(t)
    <2>1. pc[t] \notin TempPlaces /\ DOMAIN snaps' = DOMAIN snaps
      BY <1>14 DEF CommitApply, At, TempPlaces, Written
    <2>2. QED
      BY <1>1, <1>2, <2>1, NoSnapTemps
  <1>15. CASE CommitActive(t)
    <2> DEFINE c == Chain(loc[t].chain)
    <2>1. pc[t] \notin TempPlaces
      BY <1>15 DEF CommitActive, At, TempPlaces
    <2>2. c[1] \notin TempKinds
      BY DEF Chain, TempKinds
    <2>3. UNCHANGED snaps \/ CommitSnapshot(req[t].name, c)
      BY <1>15 DEF CommitActive
    <2> HIDE DEF c
    <2>4. \A m \in DOMAIN snaps' : m \in DOMAIN snaps \/ m = c
      BY <2>3 DEF CommitSnapshot, Committed, Put, Removed, Restrict
    <2>5. QED
      BY <1>1, <1>2, <2>1, <2>2, <2>4, NoSnapTemps
  <1>16. QED
    BY <1>6, <1>7, <1>8, <1>10, <1>11, <1>12, <1>13, <1>14, <1>15 DEF CommitStep

LEMMA MountTemps ==
    ASSUME TInv, TempsInv, NEW t \in Threads, MountStep(t)
    PROVE  SnapTemps(t) /\ LeaseTemps(t)
  <1>1. ThreadsFit /\ StoreTyped
    BY DEF TInv
  <1>2. ASSUME pc[t] \in MountPart
        PROVE  req[t].op = "mount" /\ req[t].name[1] \notin TempKinds
    <2>1. pc[t] # "idle"
      BY <1>2 DEF MountPart
    <2>2. req[t].op = "mount" /\ req[t].name \in ChosenNames
      BY <1>1, <1>2, <2>1, Busy, CallFacts DEF Reaches
    <2>3. QED
      BY <2>2 DEF ChosenNames, TempKinds
  <1>3. /\ pc[t] \notin TempPlaces
        /\ pc[t] \in MountPart \cup {"umount_lease", "umount_unlease"}
    BY DEF MountStep, MountLease, MountCreate, MountExisting, MountAll, MountUndo, MountFailed,
           UmountLease, UmountUnlease, At, TempPlaces, MountPart
  <1>4. SnapTemps(t)
    <2>1. CASE MountCreate(t)
      <3>1. req[t].name[1] \notin TempKinds
        BY <1>2, <2>1 DEF MountCreate, At, MountPart
      <3>2. \A m \in DOMAIN snaps' : m \in DOMAIN snaps \/ m = req[t].name
        BY <2>1 DEF MountCreate, Created, Put
      <3>3. QED
        BY <1>1, <1>3, <3>1, <3>2, NoSnapTemps
    <2>2. CASE MountUndo(t)
      <3>1. DOMAIN snaps' \subseteq DOMAIN snaps
        <4>1. UNCHANGED snaps \/ RemoveSnapshot(req[t].name)
          BY <2>2 DEF MountUndo
        <4>2. RemoveSnapshot(req[t].name) => DOMAIN snaps' \subseteq DOMAIN snaps
          BY DEF RemoveSnapshot, Removed, Restrict
        <4>3. QED
          BY <4>1, <4>2
      <3>2. QED
        BY <1>1, <1>3, <3>1, NoSnapTemps
    <2>3. CASE \/ MountLease(t) \/ MountExisting(t) \/ MountAll(t)
               \/ MountFailed(t) \/ UmountLease(t) \/ UmountUnlease(t)
      <3>1. UNCHANGED snaps
        BY <2>3 DEF MountLease, MountExisting, MountAll, MountFailed, UmountLease,
                    UmountUnlease, store
      <3>2. QED
        BY <1>1, <1>3, <3>1, NoSnapTemps
    <2>4. QED
      BY <2>1, <2>2, <2>3 DEF MountStep
  <1>5. LeaseTemps(t)
    <2>1. pc'[t] # "idle"
      BY <1>1, MountLeads DEF MountPart
    <2>2. UNCHANGED req
      BY DEF MountStep, MountLease, MountCreate, MountExisting, MountAll, MountUndo,
             MountFailed, UmountLease, UmountUnlease
    <2>3. CASE MountLease(t)
      <3>1. req[t].name[1] \notin TempKinds
        BY <1>2, <2>3 DEF MountLease, At, MountPart
      <3>2. leases' = leases \cup {req[t].name}
        BY <2>3 DEF MountLease
      <3>3. Temp("lease", t)[1] \in TempKinds
        BY DEF Temp, TempKinds
      <3>4. QED
        BY <1>1, <2>1, <2>2, <3>1, <3>2, <3>3, HeldTemps DEF LeaseTemps
    <2>4. CASE UmountLease(t)
      <3>1. req[t].op = "umount"
        BY <1>1, <2>4, Busy DEF UmountLease, At, Reaches
      <3>2. QED
        BY <2>1, <2>2, <2>4, <3>1 DEF UmountLease, TakeLease, LeaseTemps
    <2>5. CASE \/ MountCreate(t) \/ MountExisting(t) \/ MountAll(t) \/ MountUndo(t)
               \/ MountFailed(t) \/ UmountUnlease(t)
      <3>1. leases' \subseteq leases
        BY <2>5 DEF MountCreate, MountExisting, MountAll, MountUndo, MountFailed,
                    UmountUnlease, store
      <3>2. QED
        BY <1>1, <2>1, <2>2, <3>1, SameLeaseTemps
    <2>6. QED
      BY <2>3, <2>4, <2>5 DEF MountStep
  <1>6. QED
    BY <1>4, <1>5

LEMMA BeginTemps ==
    ASSUME TInv, TempsInv, NEW t \in Threads, Begin(t)
    PROVE  SnapTemps(t) /\ LeaseTemps(t)
  <1>1. ThreadsFit /\ StoreTyped
    BY DEF TInv
  <1>2. pc[t] = "idle" /\ pc[t] \notin TempPlaces
    BY DEF Begin, MountStart, UmountStart, CommitStart, FetchStart, RecordStart, UnpackStart,
           DeleteStart, LabelStart, LookStart, Start, At, TempPlaces
  <1>3. UNCHANGED snaps
    BY DEF Begin, MountStart, UmountStart, CommitStart, FetchStart, RecordStart, UnpackStart,
           DeleteStart, LabelStart, LookStart, store
  <1>4. Temp("lease", t) \notin leases
    BY <1>1, <1>2, HeldTemps
  <1>5. pc'[t] # "idle"
    BY <1>1, BeginLeads
  <1>6. CASE MountStart(t) \/ UmountStart(t)
    <2>1. UNCHANGED leases
      BY <1>6 DEF MountStart, UmountStart, store
    <2>2. QED
      BY <1>1, <1>2, <1>3, <1>4, <2>1, NoSnapTemps DEF LeaseTemps
  <1>7. CASE \/ CommitStart(t) \/ FetchStart(t) \/ RecordStart(t) \/ UnpackStart(t)
             \/ DeleteStart(t) \/ LabelStart(t) \/ LookStart(t)
    <2>1. PICK r \in Requests[t] : r.op # "mount" /\ req' = [req EXCEPT ![t] = r]
      BY <1>7 DEF CommitStart, FetchStart, RecordStart, UnpackStart, DeleteStart, LabelStart,
                  LookStart, Start
    <2>2. req'[t].op # "mount"
      BY <1>1, <2>1 DEF ThreadsFit
    <2>3. TakeLease(t)
      BY <1>7 DEF CommitStart, FetchStart, RecordStart, UnpackStart, DeleteStart, LabelStart,
                  LookStart
    <2>4. QED
      BY <1>1, <1>2, <1>3, <1>5, <2>2, <2>3, NoSnapTemps DEF LeaseTemps, TakeLease
  <1>8. QED
    BY <1>6, <1>7 DEF Begin

LEMMA PlainTemps ==
    ASSUME TInv, TempsInv, NEW t \in Threads,
           RemovalStep(t) \/ ImageStep(t) \/ ImportStep(t) \/ LabelStep(t) \/ Return(t)
    PROVE  SnapTemps(t) /\ LeaseTemps(t)
  <1>1. ThreadsFit /\ StoreTyped
    BY DEF TInv
  <1>2. CASE RemovalStep(t)
    <2>1. pc[t] \notin TempPlaces /\ UNCHANGED <<req, leases>>
      BY <1>2 DEF RemovalStep, StatLink, RemoveLink, At, TempPlaces, store
    <2>2. DOMAIN snaps' \subseteq DOMAIN snaps
      <3>1. UNCHANGED snaps \/ \E n : RemoveSnapshot(n)
        BY <1>2 DEF RemovalStep, StatLink, RemoveLink, store
      <3>2. QED
        BY <3>1 DEF RemoveSnapshot, Removed, Restrict
    <2>3. pc'[t] # "idle"
      BY <1>1, <1>2, RemovalLeads DEF WalkPart
    <2>4. QED
      BY <1>1, <2>1, <2>2, <2>3, NoSnapTemps, SameLeaseTemps
  <1>3. CASE ImageStep(t)
    <2>1. pc[t] \notin TempPlaces /\ UNCHANGED <<req, leases, snaps>>
      BY <1>3 DEF ImageStep, FetchManifest, FetchChildren, PutUpdate, PutCreate, DeleteGet,
                  DeleteCheck, DeleteImage, At, TempPlaces, store
    <2>2. pc'[t] # "idle"
      <3>1. CASE DeleteCheck(t)
        <4>1. pc[t] # "idle"
          BY <3>1 DEF DeleteCheck, At
        <4>2. QED
          BY <1>1, <3>1, <4>1, PartsLead DEF DeleteCheck
      <3>2. QED
        BY <1>1, <1>3, <3>1, ImageLeads DEF PutPart
    <2>3. QED
      BY <1>1, <2>1, <2>2, NoSnapTemps, SameLeaseTemps
  <1>4. CASE ImportStep(t)
    <2>1. pc[t] \notin TempPlaces /\ UNCHANGED <<req, leases, snaps>>
      BY <1>4 DEF ImportStep, Unpacked, Deleted, Undone, At, TempPlaces, store
    <2>2. pc'[t] # "idle"
      BY <1>1, <1>4, ImportLeads
    <2>3. QED
      BY <1>1, <2>1, <2>2, NoSnapTemps, SameLeaseTemps
  <1>5. CASE LabelStep(t)
    <2>1. pc[t] \notin TempPlaces /\ UNCHANGED <<req, leases>>
      BY <1>5 DEF LabelStep, LabelStat, LabelWrite, Look, At, TempPlaces, store
    <2>2. DOMAIN snaps' = DOMAIN snaps
      BY <1>5 DEF LabelStep, LabelStat, LabelWrite, Look, Relabelled, store
    <2>3. pc'[t] # "idle"
      BY <1>1, <1>5, LabelLeads
    <2>4. QED
      BY <1>1, <2>1, <2>2, <2>3, NoSnapTemps, SameLeaseTemps
  <1>6. CASE Return(t)
    <2>1. pc[t] \notin TempPlaces /\ UNCHANGED snaps
      BY <1>6 DEF Return, At, TempPlaces
    <2>2. leases' \subseteq leases
      BY <1>6 DEF Return
    <2>3. Temp("lease", t) \notin leases' \/ Lost("lease", t)
      <3>1. CASE req[t].op = "mount"
        BY <1>1, <2>2, <3>1, HeldTemps
      <3>2. CASE req[t].op # "mount" /\ leases' = leases \ Deferred(t)
        BY <3>2 DEF Deferred
      <3>3. CASE Lose("lease", t)
        BY <1>1, <3>3, LoseLost DEF TempKinds
      <3>4. QED
        BY <1>6, <3>1, <3>2, <3>3 DEF Return
    <2>4. QED
      BY <1>1, <2>1, <2>2, <2>3, NoSnapTemps DEF LeaseTemps
  <1>7. QED
    BY <1>2, <1>3, <1>4, <1>5, <1>6

LEMMA SerialsStep ==
    ASSUME StoreTyped, NEW t \in Threads, Begin(t) \/ Step(t)
    PROVE  SerialsGo(t)
  <1>1. ASSUME UNCHANGED serial
        PROVE  SerialsGo(t)
    BY <1>1 DEF SerialsGo
  <1>2. ASSUME NEW kind \in TempKinds, Lose(kind, t)
        PROVE  SerialsGo(t)
    <2>1. ASSUME NEW k \in TempKinds, NEW u \in Threads
          PROVE  serial'[<<k, u>>] = serial[<<k, u>>] \/ (k = kind /\ u = t)
      BY <1>2 DEF Lose, StoreTyped, Serials
    <2>2. QED
      BY <1>2, <2>1, LoseLost, Zenon DEF SerialsGo
  <1>3. CASE Begin(t)
    BY <1>1, <1>3 DEF Begin, MountStart, UmountStart, CommitStart, FetchStart, RecordStart,
                      UnpackStart, DeleteStart, LabelStart, LookStart
  <1>4. CASE UnpackStep(t)
    <2>1. UNCHANGED serial \/ Lose("extract", t)
      BY <1>4 DEF UnpackStep, CheckUnpacked, PrepareLayer, ApplyLayer, CommitLayer, AbortLayer
    <2>2. QED
      BY <1>1, <1>2, <2>1 DEF TempKinds
  <1>5. CASE RemovalStep(t) \/ MountStep(t)
    BY <1>1, <1>5
    DEF RemovalStep, StatLink, RemoveLink, MountStep, MountLease, MountCreate, MountExisting,
        MountAll, MountUndo, MountFailed, UmountLease, UmountUnlease
  <1>6. CASE CommitStep(t)
    <2>1. UNCHANGED serial \/ Lose("lower", t) \/ Lose("upper", t)
      BY <1>6 DEF CommitStep, CommitStat, CommitBase, DiffStat, DiffLower, DiffMounts,
                  DiffView, Compare, CleanUpper, CleanLower, CommitMounts, CommitApply,
                  CommitActive, CommitManifest, CommitConfig, WriteBlob
    <2>2. QED
      BY <1>1, <1>2, <2>1 DEF TempKinds
  <1>7. CASE ImageStep(t) \/ ImportStep(t) \/ LabelStep(t)
    BY <1>1, <1>7
    DEF ImageStep, FetchManifest, FetchChildren, PutUpdate, PutCreate, DeleteGet,
        DeleteCheck, DeleteImage, ImportStep, Unpacked, Deleted, Undone,
        LabelStep, LabelStat, LabelWrite, Look
  <1>8. CASE Return(t)
    <2>1. UNCHANGED serial \/ Lose("lease", t)
      BY <1>8 DEF Return
    <2>2. QED
      BY <1>1, <1>2, <2>1 DEF TempKinds
  <1>9. QED
    BY <1>3, <1>4, <1>5, <1>6, <1>7, <1>8 DEF Step

\* What the others call their temporaries.
LEMMA NamesStay ==
    ASSUME StoreTyped, NEW t \in Threads, Begin(t) \/ Step(t)
    PROVE  \A kind \in TempKinds, u \in Threads \ {t} : Temp(kind, u)' = Temp(kind, u)
  <1>1. SUFFICES ASSUME NEW kind \in TempKinds, NEW u \in Threads \ {t}
                 PROVE  Temp(kind, u)' = Temp(kind, u)
    OBVIOUS
  <1>2. serial'[<<kind, u>>] = serial[<<kind, u>>]
    BY SerialsStep DEF SerialsGo
  <1>3. QED
    BY <1>2 DEF Temp

LEMMA TempsStep ==
    ASSUME TInv, TempsInv, [Next]_vars
    PROVE  TempsInv'
  <1>1. ThreadsFit /\ StoreTyped
    BY DEF TInv
  <1>2. ASSUME NEW t \in Threads, Begin(t) \/ Step(t)
        PROVE  TempsInv'
    <2>1. SnapTemps(t) /\ LeaseTemps(t)
      BY <1>2, BeginTemps, UnpackTemps, MountTemps, CommitTemps, PlainTemps DEF Step
    <2>2. QED
      BY <1>1, <1>2, <2>1, StepApart, SerialsStep, TempsTogether
  \* What is left is of an earlier process.
  <1>3. ASSUME ProcessEnds
        PROVE  TempsInv'
    <2>1. UNCHANGED <<snaps, leases>>
      BY <1>3 DEF ProcessEnds
    <2>2. ASSUME NEW kind \in TempKinds, NEW t \in Threads, NEW n \in Nat
          PROVE  Temporary(kind, t, n, snaps', leases', serial'[<<kind, t>>], pc'[t], req'[t])
      <3>1. /\ serial'[<<kind, t>>] = serial[<<kind, t>>] + 1
            /\ serial[<<kind, t>>] \in Nat
        BY <1>1, <1>3 DEF ProcessEnds, StoreTyped, Serials
      <3>2. n <= serial[<<kind, t>>] =>
                n <= serial'[<<kind, t>>] /\ ~ (n = serial'[<<kind, t>>])
        BY <3>1
      <3>3. <<kind, t, n>> \in DOMAIN snaps => kind # "lease" /\ n <= serial[<<kind, t>>]
        BY DEF TempsInv, TempsHeld, Temporary
      <3>4. <<kind, t, n>> \in leases => kind = "lease" /\ n <= serial[<<kind, t>>]
        BY DEF TempsInv, TempsHeld, Temporary
      <3>5. QED
        BY <2>1, <3>2, <3>3, <3>4 DEF Temporary
    <2>3. QED
      BY <2>2, TempsAfter, Zenon
  <1>4. CASE DOMAIN snaps' = DOMAIN snaps /\ UNCHANGED <<leases, serial, pc, req>>
    <2>1. DOMAIN snaps' = DOMAIN snaps /\ leases' = leases /\ serial' = serial
          /\ pc' = pc /\ req' = req
      BY <1>4
    <2>2. ASSUME NEW kind \in TempKinds, NEW t \in Threads, NEW n \in Nat
          PROVE  Temporary(kind, t, n, snaps', leases', serial'[<<kind, t>>], pc'[t], req'[t])
      BY <2>1 DEF TempsInv, TempsHeld, Temporary
    <2>3. QED
      BY <2>2, TempsAfter, Zenon
  <1>5. CASE UserWrite
    BY <1>4, <1>5 DEF UserWrite, Written, thread
  <1>6. QED
    BY <1>2, <1>3, <1>4, <1>5 DEF Next, MountPanic, Kill, Reboot, vars

\* However calls interleave, fail and crash: an extraction snapshot, a view of
\* a diff or a lease of a call that is there is in use, or else the removal of
\* it was tried and failed, or its process crashed.  No path through a call
\* forgets one.
THEOREM StoreNoLeftovers == Spec => []NoLeftovers
  <1>1. Init => TempsInv
    BY DEF Init, TempsInv, TempsHeld, Temporary
  <1>2. TInv /\ TempsInv /\ [Next]_vars => TempsInv'
    BY TempsStep
  <1>3. TInv /\ TempsInv => NoLeftovers
    <2> SUFFICES ASSUME TInv, TempsInv, NEW n \in DOMAIN snaps \cup leases,
                        n[1] \in TempKinds, ~ (n[3] < serial[<<n[1], n[2]>>])
                 PROVE  InUse(n)
      BY DEF NoLeftovers
    <2>1. n \in Names
      BY DEF TInv, StoreTyped, SnapsTyped
    <2>2. n \in TempKinds \X Threads \X Nat
      BY <2>1 DEF Names, ChosenNames, TempKinds
    <2>3. PICK kind \in TempKinds, t \in Threads, k \in Nat : n = <<kind, t, k>>
      BY <2>2
    <2>4. kind = n[1] /\ t = n[2] /\ k = n[3]
      BY <2>3
    <2>5. serial[<<kind, t>>] \in Nat /\ k <= serial[<<kind, t>>]
      BY <2>3 DEF TInv, StoreTyped, Serials, TempsInv, TempsHeld, Temporary
    <2>6. k = serial[<<kind, t>>]
      BY <2>4, <2>5
    <2>7. Holds(kind, pc[t], req[t])
      BY <2>3, <2>6 DEF TempsInv, TempsHeld, Temporary
    <2>8. QED
      BY <2>4, <2>7 DEF InUse, Holds, TempKinds
  <1>4. QED
    BY <1>1, <1>2, <1>3, TypesInvariant, PTL DEF Spec

-----------------------------------------------------------------------------
(* ChainsInv.                                                              *)

\* If n is there after the step it was there before, with its contents.
Same(n) ==
    n \in DOMAIN snaps' =>
        /\ n \in DOMAIN snaps
        /\ snaps'[n].kind = snaps[n].kind
        /\ snaps'[n].parent = snaps[n].parent
        /\ snaps'[n].diff = snaps[n].diff

LEMMA TransactionsSame ==
    ASSUME StoreTyped, NEW n
    PROVE  /\ UNCHANGED snaps => Same(n)
           /\ \A kind, m, p, label : snaps' = Created(snaps, kind, m, p, label) /\ m # n
                                     => Same(n)
           /\ \A m, d : snaps' = Written(snaps, m, d) /\ m # n => Same(n)
           /\ \A m, label : snaps' = Relabelled(snaps, m, label) => Same(n)
           /\ \A m : RemoveSnapshot(m) => Same(n)
           /\ \A m, c : CommitSnapshot(m, c) /\ c # n => Same(n)
  <1>1. n \in DOMAIN snaps => snaps[n] \in Snapshots
    BY DEF StoreTyped, SnapsTyped
  <1>2. UNCHANGED snaps => Same(n)
    BY DEF Same
  <1>3. ASSUME NEW kind, NEW m, NEW p, NEW label,
               snaps' = Created(snaps, kind, m, p, label), m # n
        PROVE  Same(n)
    BY <1>3 DEF Created, Put, Same
  <1>4. ASSUME NEW m, NEW d, snaps' = Written(snaps, m, d), m # n
        PROVE  Same(n)
    BY <1>4 DEF Written, Same
  <1>5. ASSUME NEW m, NEW label, snaps' = Relabelled(snaps, m, label)
        PROVE  Same(n)
    BY <1>1, <1>5 DEF Relabelled, Same, Snapshots
  <1>6. ASSUME NEW m, RemoveSnapshot(m)
        PROVE  Same(n)
    BY <1>6, RemovedFacts DEF RemoveSnapshot, Same
  <1>7. ASSUME NEW m, NEW c, CommitSnapshot(m, c), c # n
        PROVE  Same(n)
    BY <1>7 DEF CommitSnapshot, Committed, Put, Removed, Restrict, Same
  <1>8. QED
    BY <1>2, <1>3, <1>4, <1>5, <1>6, <1>7

\* What the commit of a layer makes.
Frozen(t, n) ==
    /\ CommitLayer(t)
    /\ CommitResult(snaps, Extract(t), UpTo(t)) = "ok"
    /\ CommitSnapshot(Extract(t), UpTo(t))
    /\ n = UpTo(t)

LEMMA NoCommits ==
    ASSUME UnpackOnly, ThreadsFit, NEW t \in Threads
    PROVE  /\ ~ CommitStep(t)
           /\ pc[t] # "idle" /\ req[t].op = "mount" => req[t].name[1] = "key"
  <1>1. ASSUME pc[t] # "idle"
        PROVE  req[t].op # "commit"
    <2>1. req[t] \in Requests[t]
      BY <1>1, Busy
    <2>2. QED
      BY <2>1 DEF UnpackOnly
  <1>2. CommitStep(t) => pc[t] \in DiffPart \cup CommitPart
    <2>1. CASE CommitStat(t) \/ CommitBase(t) \/ DiffStat(t) \/ DiffLower(t) \/ DiffMounts(t)
      BY <2>1 DEF CommitStat, CommitBase, DiffStat, DiffLower, DiffMounts, At, DiffPart
    <2>2. CASE DiffView(t) \/ Compare(t) \/ CleanUpper(t) \/ CleanLower(t)
      BY <2>2 DEF DiffView, Compare, CleanUpper, CleanLower, At, DiffPart
    <2>3. CASE \/ CommitMounts(t) \/ CommitApply(t) \/ CommitActive(t) \/ CommitManifest(t)
               \/ CommitConfig(t)
      BY <2>3 DEF CommitMounts, CommitApply, CommitActive, CommitManifest, CommitConfig, At,
                  WriteBlob, CommitPart
    <2>4. QED
      BY <2>1, <2>2, <2>3 DEF CommitStep
  <1>3. pc[t] \in DiffPart \cup CommitPart => pc[t] # "idle" /\ req[t].op = "commit"
    <2>1. pc[t] \in DiffPart \cup CommitPart => pc[t] # "idle"
      BY DEF DiffPart, CommitPart
    <2>2. QED
      BY <2>1, Busy DEF Reaches
  <1>4. pc[t] # "idle" /\ req[t].op = "mount" => req[t].name[1] = "key"
    <2> SUFFICES ASSUME pc[t] # "idle", req[t].op = "mount"
                 PROVE  req[t].name[1] = "key"
      OBVIOUS
    <2>1. req[t].name \in {"key"} \X Keys
      BY Busy DEF UnpackOnly
    <2>2. QED
      BY <2>1
  <1>5. QED
    BY <1>1, <1>2, <1>3, <1>4

\* A step of t makes no chain but by the commit of its layer, and leaves the
\* extractions of the others alone.
LEMMA StepSame ==
    ASSUME UnpackOnly, TInv, NEW t \in Threads, Begin(t) \/ Step(t),
           NEW n, n[1] \in {"chain", "extract"}, n # Extract(t)
    PROVE  Same(n) \/ Frozen(t, n)
  <1>1. ThreadsFit /\ StoreTyped
    BY DEF TInv
  <1>2. ASSUME UNCHANGED snaps
        PROVE  Same(n)
    BY <1>1, <1>2, TransactionsSame
  <1>3. CASE Begin(t)
    BY <1>2, <1>3 DEF Begin, MountStart, UmountStart, CommitStart, FetchStart, RecordStart,
                      UnpackStart, DeleteStart, LabelStart, LookStart, store
  <1>4. CASE UnpackStep(t)
    <2>1. CASE CheckUnpacked(t)
      BY <1>2, <2>1 DEF CheckUnpacked, store
    <2>2. CASE PrepareLayer(t)
      BY <1>1, <1>2, <2>2, TransactionsSame DEF PrepareLayer
    <2>3. CASE ApplyLayer(t)
      BY <1>1, <1>2, <2>3, TransactionsSame DEF ApplyLayer
    <2>4. CASE CommitLayer(t)
      <3> DEFINE r == CommitResult(snaps, Extract(t), UpTo(t))
      <3>1. CASE r = "ok" /\ CommitSnapshot(Extract(t), UpTo(t))
        BY <1>1, <2>4, <3>1, TransactionsSame DEF Frozen
      <3>2. QED
        BY <1>2, <2>4, <3>1 DEF CommitLayer
    <2>5. CASE AbortLayer(t)
      BY <1>1, <2>5, TransactionsSame DEF AbortLayer
    <2>6. QED
      BY <1>4, <2>1, <2>2, <2>3, <2>4, <2>5 DEF UnpackStep
  <1>5. CASE RemovalStep(t)
    <2>1. CASE StatLink(t)
      BY <1>2, <2>1 DEF StatLink, store
    <2>2. CASE RemoveLink(t)
      BY <1>1, <1>2, <2>2, TransactionsSame DEF RemoveLink
    <2>3. QED
      BY <1>5, <2>1, <2>2 DEF RemovalStep
  <1>6. CASE MountStep(t)
    <2>1. CASE MountCreate(t)
      <3>1. pc[t] = "mount_create"
        BY <2>1 DEF MountCreate, At
      <3>2. req[t].op = "mount"
        BY <1>1, <3>1, Busy DEF Reaches, MountPart
      <3>3. req[t].name # n
        BY <1>1, <3>1, <3>2, NoCommits
      <3>4. QED
        BY <1>1, <1>2, <2>1, <3>3, TransactionsSame DEF MountCreate
    <2>2. CASE MountUndo(t)
      BY <1>1, <1>2, <2>2, TransactionsSame DEF MountUndo
    <2>3. CASE \/ MountLease(t) \/ MountExisting(t) \/ MountAll(t)
               \/ MountFailed(t) \/ UmountLease(t) \/ UmountUnlease(t)
      BY <1>2, <2>3 DEF MountLease, MountExisting, MountAll, MountFailed, UmountLease,
                        UmountUnlease, store
    <2>4. QED
      BY <1>6, <2>1, <2>2, <2>3 DEF MountStep
  <1>7. CASE ImageStep(t) \/ ImportStep(t) \/ Return(t)
    BY <1>2, <1>7 DEF ImageStep, FetchManifest, FetchChildren, PutUpdate, PutCreate, DeleteGet,
                      DeleteCheck, DeleteImage, ImportStep, Unpacked, Deleted, Undone, Return,
                      store
  <1>8. CASE LabelStep(t)
    <2>1. CASE LabelWrite(t)
      BY <1>1, <1>2, <2>1, TransactionsSame DEF LabelWrite
    <2>2. CASE LabelStat(t) \/ Look(t)
      BY <1>2, <2>2 DEF LabelStat, Look, store
    <2>3. QED
      BY <1>8, <2>1, <2>2 DEF LabelStep
  <1>9. QED
    BY <1>1, <1>3, <1>4, <1>5, <1>6, <1>7, <1>8, NoCommits DEF Step

\* The chain up to the i-th layer is that layer on the chain below it.
LEMMA UpToFacts ==
    ASSUME NEW c \in Seq(Layers), NEW i \in 1..Len(c),
           NEW d, d = SubSeq(c, 1, i)
    PROVE  /\ Len(d) = i
           /\ d[Len(d)] = c[i]
           /\ SubSeq(d, 1, Len(d) - 1) = SubSeq(c, 1, i - 1)
  <1>1. Len(c) \in Nat /\ i \in Nat /\ \A k \in 1..Len(c) : c[k] \in Layers
    BY LenProperties, ElementOfSeq
  <1>2. /\ d \in Seq(Layers) /\ Len(d) = i
        /\ \A k \in 1..i : d[k] = c[k]
    BY <1>1, SubSeqProperties
  <1>3. \A k \in 1..i : d[k] \in Layers
    BY <1>1, <1>2
  <1> DEFINE x == SubSeq(d, 1, i - 1)
             y == SubSeq(c, 1, i - 1)
  <1>4. /\ x \in Seq(Layers) /\ Len(x) = i - 1
        /\ \A k \in 1 .. i - 1 : x[k] = d[k]
    BY <1>1, <1>3, SubSeqProperties
  <1>5. /\ y \in Seq(Layers) /\ Len(y) = i - 1
        /\ \A k \in 1 .. i - 1 : y[k] = c[k]
    BY <1>1, SubSeqProperties
  <1> HIDE DEF x, y
  <1>6. \A k \in 1 .. Len(x) : x[k] = y[k]
    BY <1>1, <1>2, <1>4, <1>5
  <1>7. x = y
    BY <1>4, <1>5, <1>6, SeqEqual
  <1>8. QED
    BY <1>1, <1>2, <1>7 DEF x, y

\* A layer is committed as what it holds.
LEMMA FrozenFaithful ==
    ASSUME TInv, NEW t \in Threads, Extracted(t), NEW n, Frozen(t, n)
    PROVE  /\ n \in DOMAIN snaps'
           /\ snaps'[n].kind = "committed"
           /\ snaps'[n].parent = Chain(SubSeq(n[2], 1, Len(n[2]) - 1))
           /\ snaps'[n].diff = n[2][Len(n[2])]
  <1> DEFINE c == loc[t].chain
             i == loc[t].i
             e == Extract(t)
             d == SubSeq(c, 1, i)
  <1>1. ThreadsFit /\ StoreTyped /\ pc[t] = "commit_layer"
    BY DEF TInv, Frozen, CommitLayer, At
  <1>2. c \in Seq(Layers) /\ i \in 1..Len(c) /\ i \in Nat
    BY <1>1, Busy DEF Locals, Works, LayerPart
  <1>3. n = Chain(d) /\ n[2] = d
    BY DEF Frozen, UpTo, Chain
  <1>4. /\ Len(d) = i
        /\ d[Len(d)] = c[i]
        /\ SubSeq(d, 1, Len(d) - 1) = SubSeq(c, 1, i - 1)
    <2> HIDE DEF c, i, d
    <2>1. d = SubSeq(c, 1, i)
      BY DEF d
    <2>2. QED
      BY <1>2, <2>1, UpToFacts
  <1>6. /\ e \in DOMAIN snaps /\ n \notin DOMAIN snaps
        /\ snaps[e].parent = Below(t)
        /\ snaps[e].diff = c[i]
    BY <1>1 DEF Frozen, CommitResult, Extracted
  <1>7. /\ n \in DOMAIN snaps'
        /\ snaps'[n] = [snaps[e] EXCEPT !.kind = "committed", !.label = NoRef]
    BY DEF Frozen, CommitSnapshot, Committed, Put
  <1>8. snaps[e] \in Snapshots
    BY <1>1, <1>6 DEF StoreTyped, SnapsTyped
  <1>9. /\ snaps'[n].kind = "committed"
        /\ snaps'[n].parent = snaps[e].parent
        /\ snaps'[n].diff = snaps[e].diff
    BY <1>7, <1>8 DEF Snapshots
  <1>10. QED
    BY <1>3, <1>4, <1>6, <1>7, <1>9 DEF Below

\* The extraction of t itself.
LEMMA OwnExtracted ==
    ASSUME TInv, NEW t \in Threads, Extracted(t), Begin(t) \/ Step(t)
    PROVE  Extracted(t)'
  <1>1. ThreadsFit /\ StoreTyped
    BY DEF TInv
  <1>2. ASSUME pc'[t] \notin {"apply", "commit_layer"}
        PROVE  Extracted(t)'
    BY <1>2 DEF Extracted
  <1>3. CASE PrepareLayer(t)
    <2>1. CASE UNCHANGED snaps /\ EndPart(t, TRUE)
      <3>1. pc'[t] \in {"return", "unpacked", "deleted", "undone"}
        BY <1>1, <1>3, <2>1, PartsLead DEF PrepareLayer, At
      <3>2. QED
        BY <1>2, <3>1
    <2>2. CASE /\ snaps' = Created(snaps, "active", Extract(t), Below(t), NoRef)
               /\ Goto(t, "apply") /\ UNCHANGED loc
      <3>1. snaps'[Extract(t)] = [kind |-> "active", parent |-> Below(t), label |-> NoRef,
                                  diff |-> {}]
        BY <2>2 DEF Created, Put
      <3>2. pc'[t] = "apply" /\ Extract(t)' = Extract(t) /\ Below(t)' = Below(t)
        BY <1>1, <1>3, <2>2, PartsLead DEF PrepareLayer, Extract, Temp, Below
      <3>3. QED
        BY <3>1, <3>2 DEF Extracted
    <2>3. QED
      BY <1>3, <2>1, <2>2 DEF PrepareLayer
  <1>4. CASE ApplyLayer(t)
    <2>1. CASE Goto(t, "abort_layer")
      BY <1>1, <1>2, <2>1, PartsLead
    <2>2. CASE /\ snaps' = Written(snaps, Extract(t), loc[t].chain[loc[t].i])
               /\ Goto(t, "commit_layer") /\ UNCHANGED loc
      <3> DEFINE d == loc[t].chain[loc[t].i]
      <3>1. /\ pc[t] = "apply" /\ pc'[t] = "commit_layer"
            /\ Extract(t)' = Extract(t) /\ Below(t)' = Below(t)
        BY <1>1, <1>4, <2>2, PartsLead DEF ApplyLayer, At, Extract, Temp, Below
      <3>2. DOMAIN snaps' = DOMAIN snaps
        BY <2>2 DEF Written
      <3>3. ASSUME Extract(t) \in DOMAIN snaps
            PROVE  /\ snaps'[Extract(t)].kind = "active"
                   /\ snaps'[Extract(t)].parent = Below(t)
                   /\ snaps'[Extract(t)].diff = d
        <4>1. snaps[Extract(t)] \in Snapshots
          BY <1>1, <3>3 DEF StoreTyped, SnapsTyped
        <4>2. /\ snaps[Extract(t)].kind = "active"
              /\ snaps[Extract(t)].parent = Below(t)
              /\ snaps[Extract(t)].diff = {}
          BY <3>1, <3>3 DEF Extracted
        <4> HIDE DEF d
        <4>3. snaps'[Extract(t)] = [snaps[Extract(t)] EXCEPT !.diff = @ \cup d]
          BY <2>2, <3>3 DEF Written, d
        <4>4. QED
          BY <4>1, <4>2, <4>3 DEF Snapshots
      <3>4. QED
        BY <2>2, <3>1, <3>2, <3>3 DEF Extracted
    <2>3. QED
      BY <1>4, <2>1, <2>2 DEF ApplyLayer
  <1>5. CASE CheckUnpacked(t) \/ CommitLayer(t) \/ AbortLayer(t)
    <2>1. pc[t] \in {"unpack", "commit_layer", "abort_layer"}
      BY <1>5 DEF CheckUnpacked, CommitLayer, AbortLayer, At
    <2>2. loc[t].next \in {"return", "unpacked", "mount_create"}
      <3>1. req[t].op \in Importers \cup {"pull", "mount", "commit", "unpack"}
        BY <1>1, <2>1, Busy DEF Reaches, Fetchers, UnpackPart, LayerPart
      <3>2. QED
        BY <1>1, <2>1, <3>1, Busy DEF Follows, UnpackPart, LayerPart
    <2>3. pc'[t] \in {"extract", "abort_layer", "return", "unpacked", "deleted", "undone",
                      "mount_create"}
      BY <1>1, <1>5, <2>1, <2>2, PartsLead DEF CheckUnpacked, CommitLayer, AbortLayer, NextLayer
    <2>4. QED
      BY <1>2, <2>3
  <1>6. CASE UnpackStep(t)
    BY <1>3, <1>4, <1>5, <1>6 DEF UnpackStep
  <1>7. CASE Begin(t)
    BY <1>1, <1>2, <1>7, BeginLeads
  <1>8. CASE RemovalStep(t) \/ MountStep(t)
    BY <1>1, <1>2, <1>8, RemovalLeads, MountLeads DEF WalkPart, MountPart
  <1>9. CASE ImportStep(t) \/ LabelStep(t) \/ Return(t)
    BY <1>1, <1>2, <1>9, ImportLeads, LabelLeads, PartsLead DEF Return
  <1>10. CASE ImageStep(t)
    <2>1. DeleteCheck(t) => pc'[t] \in {"walk", "delete_image", "return", "unpacked", "deleted",
                                       "undone"}
      BY <1>1, PartsLead DEF DeleteCheck, At
    <2>2. QED
      BY <1>1, <1>2, <1>10, <2>1, ImageLeads DEF PutPart
  <1>11. CASE CommitStep(t)
    BY <1>1, <1>2, <1>11, CommitLeads DEF DiffPart, CommitPart
  <1>12. QED
    BY <1>1, <1>6, <1>7, <1>8, <1>9, <1>10, <1>11 DEF Step

\* What is mounted, or about to be, is a snapshot under a key.
KeysMounted ==
    /\ \A m \in mounts : m.snap[1] = "key"
    /\ \A t \in Threads : dir[t] = Gone \/ dir[t][1] = "key"

LEMMA RemovedMounts ==
    ASSUME StoreTyped, KeysMounted, NEW n, RemoveSnapshot(n)
    PROVE  KeysMounted'
  BY DEF StoreTyped, MountsFollow, KeysMounted, RemoveSnapshot

\* Nobody mounts what a layer is extracted into.
LEMMA CommittedMounts ==
    ASSUME StoreTyped, KeysMounted, NEW n \in DOMAIN snaps, n[1] = "extract", NEW c,
           CommitSnapshot(n, c)
    PROVE  KeysMounted'
  <1>1. n # Gone
    BY GoneAssumption DEF StoreTyped, SnapsTyped
  <1>2. \A m \in mounts : m.snap # n
    BY DEF KeysMounted
  <1>3. \A t \in Threads : dir[t] # n
    BY <1>1 DEF KeysMounted
  <1>4. mounts' = mounts
    BY <1>2 DEF CommitSnapshot
  <1>5. \A t \in Threads : dir'[t] = dir[t]
    BY <1>3 DEF CommitSnapshot
  <1>6. QED
    BY <1>4, <1>5 DEF KeysMounted

LEMMA StepMounts ==
    ASSUME UnpackOnly, TInv, KeysMounted, NEW t \in Threads, Begin(t) \/ Step(t)
    PROVE  KeysMounted'
  <1>1. ThreadsFit /\ StoreTyped
    BY DEF TInv
  <1>2. ASSUME UNCHANGED <<mounts, dir>>
        PROVE  KeysMounted'
    BY <1>2 DEF KeysMounted
  <1>3. CASE Begin(t)
    <2>1. CASE UmountStart(t)
      <3>1. mounts' \subseteq mounts /\ UNCHANGED dir
        BY <2>1 DEF UmountStart
      <3>2. QED
        BY <3>1 DEF KeysMounted
    <2>2. CASE Begin(t) /\ ~ UmountStart(t)
      BY <1>2, <2>2 DEF Begin, MountStart, CommitStart, FetchStart, RecordStart,
                        UnpackStart, DeleteStart, LabelStart, LookStart, store
    <2>3. QED
      BY <1>3, <2>1, <2>2
  <1>4. CASE UnpackStep(t)
    <2>1. CASE CheckUnpacked(t) \/ PrepareLayer(t) \/ ApplyLayer(t)
      BY <1>2, <2>1 DEF CheckUnpacked, PrepareLayer, ApplyLayer, store
    <2>2. CASE CommitLayer(t)
      <3> DEFINE r == CommitResult(snaps, Extract(t), UpTo(t))
      <3>1. CASE r = "ok" /\ CommitSnapshot(Extract(t), UpTo(t))
        <4>1. Extract(t) \in DOMAIN snaps
          BY <3>1 DEF CommitResult
        <4>2. Extract(t)[1] = "extract"
          BY DEF Extract, Temp
        <4>3. QED
          BY <1>1, <3>1, <4>1, <4>2, CommittedMounts
      <3>2. QED
        BY <1>2, <2>2, <3>1 DEF CommitLayer
    <2>3. CASE AbortLayer(t)
      <3>1. CASE RemoveSnapshot(Extract(t))
        BY <1>1, <3>1, RemovedMounts
      <3>2. QED
        BY <1>2, <2>3, <3>1 DEF AbortLayer
    <2>4. QED
      BY <1>4, <2>1, <2>2, <2>3 DEF UnpackStep
  <1>5. CASE RemovalStep(t)
    BY <1>1, <1>2, <1>5, RemovedMounts DEF RemovalStep, StatLink, RemoveLink, store
  <1>6. CASE MountStep(t)
    <2>1. pc[t] \in MountPart => req[t].name[1] = "key"
      <3>1. pc[t] \in MountPart => pc[t] # "idle"
        BY DEF MountPart
      <3>2. QED
        BY <1>1, <3>1, Busy, NoCommits DEF Reaches
    <2>2. CASE MountCreate(t) \/ MountExisting(t)
      <3>1. pc[t] \in MountPart
        BY <2>2 DEF MountCreate, MountExisting, At, MountPart
      <3>2. UNCHANGED mounts /\ \/ UNCHANGED dir
                                \/ dir' = [dir EXCEPT ![t] = req[t].name]
        BY <2>2 DEF MountCreate, MountExisting, store
      <3>3. dir = [u \in Threads |-> dir[u]]
        BY <1>1 DEF StoreTyped, MountsFollow
      <3>4. QED
        BY <2>1, <3>1, <3>2, <3>3 DEF KeysMounted
    <2>3. CASE MountAll(t)
      <3>1. CASE UNCHANGED mounts
        BY <1>2, <2>3, <3>1 DEF MountAll
      <3>2. CASE /\ dir[t] # Gone
                 /\ mounts' = mounts \cup {[target |-> req[t].target, snap |-> dir[t],
                                            rw |-> snaps[dir[t]].kind # "view"]}
        <4>1. dir[t][1] = "key" /\ UNCHANGED dir
          BY <2>3, <3>2 DEF MountAll, KeysMounted
        <4>2. QED
          BY <3>2, <4>1 DEF KeysMounted
      <3>3. QED
        BY <2>3, <3>1, <3>2 DEF MountAll
    <2>4. CASE MountUndo(t)
      BY <1>1, <1>2, <2>4, RemovedMounts DEF MountUndo
    <2>5. CASE MountLease(t) \/ MountFailed(t) \/ UmountLease(t) \/ UmountUnlease(t)
      BY <1>2, <2>5 DEF MountLease, MountFailed, UmountLease, UmountUnlease, store
    <2>6. QED
      BY <1>6, <2>2, <2>3, <2>4, <2>5 DEF MountStep
  <1>7. CASE ImageStep(t) \/ ImportStep(t) \/ LabelStep(t)
    BY <1>2, <1>7 DEF ImageStep, FetchManifest, FetchChildren, PutUpdate, PutCreate, DeleteGet,
                      DeleteCheck, DeleteImage, ImportStep, Unpacked, Deleted, Undone,
                      LabelStep, LabelStat, LabelWrite, Look, store
  <1>8. CASE Return(t)
    <2>1. UNCHANGED mounts /\ dir' = [dir EXCEPT ![t] = Gone]
          /\ dir = [u \in Threads |-> dir[u]]
      BY <1>1, <1>8 DEF Return, StoreTyped, MountsFollow
    <2>2. QED
      BY <2>1 DEF KeysMounted
  <1>9. QED
    BY <1>1, <1>3, <1>4, <1>5, <1>6, <1>7, <1>8, NoCommits DEF Step

LEMMA ChainsStep ==
    ASSUME UnpackOnly, TInv, ChainsInv, [Next]_vars
    PROVE  ChainsInv'
  <1>1. KeysMounted /\ ThreadsFit /\ StoreTyped
    BY DEF ChainsInv, KeysMounted, TInv
  <1>2. ASSUME NEW n, n[1] = "chain", Same(n), n \in DOMAIN snaps'
        PROVE  /\ snaps'[n].kind = "committed"
               /\ snaps'[n].parent = Chain(SubSeq(n[2], 1, Len(n[2]) - 1))
               /\ snaps'[n].diff = n[2][Len(n[2])]
    BY <1>2 DEF ChainsInv, ChainsFaithful, Same
  <1>3. ASSUME NEW t \in Threads, Begin(t) \/ Step(t)
        PROVE  ChainsInv'
    <2>1. KeysMounted'
      BY <1>1, <1>3, StepMounts
    <2>2. ASSUME NEW n \in DOMAIN snaps', n[1] = "chain"
          PROVE  /\ snaps'[n].kind = "committed"
                 /\ snaps'[n].parent = Chain(SubSeq(n[2], 1, Len(n[2]) - 1))
                 /\ snaps'[n].diff = n[2][Len(n[2])]
      <3>1. n # Extract(t)
        BY <2>2 DEF Extract, Temp
      <3>2. Same(n) \/ Frozen(t, n)
        BY <1>3, <2>2, <3>1, StepSame
      <3>3. QED
        BY <1>2, <2>2, <3>2, FrozenFaithful DEF ChainsInv
    <2>3. ChainsFaithful'
      BY <2>2 DEF ChainsFaithful
    <2>4. ASSUME NEW u \in Threads \ {t}
          PROVE  Extracted(u)'
      <3>1. Extract(u) # Extract(t) /\ Extract(u)[1] = "extract"
        BY DEF Extract, Temp
      <3>2. ~ Frozen(t, Extract(u))
        BY <3>1 DEF Frozen, UpTo, Chain
      <3>3. Same(Extract(u))
        BY <1>3, <3>1, <3>2, StepSame
      <3>4. /\ pc'[u] = pc[u] /\ loc'[u] = loc[u]
            /\ Extract(u)' = Extract(u) /\ Below(u)' = Below(u)
        BY <1>1, <1>3, StepApart, NamesStay DEF Apart, Extract, Below, TempKinds
      <3>5. Extracted(u)
        BY DEF ChainsInv
      <3>6. QED
        BY <3>3, <3>4, <3>5 DEF Same, Extracted
    <2>5. Extracted(t)'
      BY <1>3, OwnExtracted DEF ChainsInv
    <2>6. QED
      BY <2>1, <2>3, <2>4, <2>5 DEF ChainsInv, KeysMounted
  <1>4. ASSUME ProcessEnds, mounts' \subseteq mounts
        PROVE  ChainsInv'
    BY <1>4 DEF ProcessEnds, ChainsInv, ChainsFaithful, Extracted
  <1>5. CASE UserWrite
    <2>1. PICK m \in mounts, x \in UserChanges : snaps' = Written(snaps, m.snap, {x})
      BY <1>5 DEF UserWrite
    <2>2. m.snap[1] = "key"
      BY <1>1 DEF KeysMounted
    <2>3. \A n : n # m.snap => Same(n)
      BY <1>1, <2>1, TransactionsSame
    <2>4. UNCHANGED <<mounts, serial, pc, req, loc, dir>>
      BY <1>5 DEF UserWrite, thread
    <2>5. ASSUME NEW n \in DOMAIN snaps', n[1] = "chain"
          PROVE  /\ snaps'[n].kind = "committed"
                 /\ snaps'[n].parent = Chain(SubSeq(n[2], 1, Len(n[2]) - 1))
                 /\ snaps'[n].diff = n[2][Len(n[2])]
      BY <1>2, <2>2, <2>3, <2>5
    <2>6. ASSUME NEW u \in Threads
          PROVE  Extracted(u)'
      <3>1. Extract(u)[1] = "extract"
        BY DEF Extract, Temp
      <3>2. Same(Extract(u))
        BY <2>2, <2>3, <3>1
      <3>3. Extracted(u) /\ Extract(u)' = Extract(u) /\ Below(u)' = Below(u)
        BY <2>4 DEF ChainsInv, Extract, Temp, Below
      <3>4. QED
        BY <2>4, <3>2, <3>3 DEF Same, Extracted
    <2>7. QED
      BY <2>4, <2>5, <2>6 DEF ChainsInv, ChainsFaithful
  <1>6. CASE UNCHANGED vars
    BY <1>6 DEF vars, ChainsInv, ChainsFaithful, Extracted, Extract, Temp, Below
  <1>7. QED
    BY <1>3, <1>4, <1>5, <1>6 DEF Next, MountPanic, Kill, Reboot

\* Whoever unpacks, imports, mounts and deletes, at the same time and with
\* failures and crashes, and whatever is written in the mounts: a snapshot
\* named by a chain ID holds the layers the chain ID is the digest of.  Of
\* calls that commit this is not so: see the run retag.
THEOREM UnpackFaithful ==
    ASSUME UnpackOnly
    PROVE  Spec => []ChainsFaithful
  <1>1. Init => ChainsInv
    BY DEF Init, ChainsInv, ChainsFaithful, Extracted
  <1>2. TInv /\ ChainsInv /\ [Next]_vars => ChainsInv'
    BY ChainsStep
  <1>3. ChainsInv => ChainsFaithful
    BY DEF ChainsInv
  <1>4. QED
    BY <1>1, <1>2, <1>3, TypesInvariant, PTL DEF Spec

-----------------------------------------------------------------------------
(* No cycles.                                                              *)

LEMMA EffectAcyclic ==
    ASSUME NEW s, NEW t, IInvIn(s), AcyclicIn(s), Effect(s, t),
           NoParent \notin DOMAIN s, NoParent \notin DOMAIN t
    PROVE  AcyclicIn(t)
  <1>0. ParentsCommittedIn(s)
    BY DEF IInvIn
  <1>1. CASE Creates(s, t)
    <2>1. PICK kind, n, p, label : /\ CreateResult(s, n, p) = "ok"
                                   /\ t = Created(s, kind, n, p, label)
      BY <1>1 DEF Creates
    <2>2. n # NoParent
      BY <2>1 DEF Created, Put
    <2>3. QED
      BY <1>0, <2>1, <2>2, CreateKeepsAcyclic
  <1>2. CASE Removes(s, t)
    BY <1>2, RemoveKeepsAcyclic DEF Removes
  <1>3. CASE Commits(s, t)
    <2>1. PICK n, c, label : /\ CommitResult(s, n, Chain(c)) = "ok"
                             /\ t = Committed(s, n, Chain(c), label)
      BY <1>3 DEF Commits
    <2>2. Chain(c) # NoParent
      BY <2>1 DEF Committed, Put
    <2>3. QED
      BY <1>0, <2>1, <2>2, CommitKeepsAcyclic
  <1>4. CASE SameShape(s, t)
    BY <1>4, ShapeKeepsAcyclic
  <1>5. QED
    BY <1>1, <1>2, <1>3, <1>4 DEF Effect

\* No interleaving of calls makes a cycle of parents, which a mount or the
\* removal of a chain would follow for ever: nobody builds on what is not
\* committed, and a commit does not rename below what is built on it.
THEOREM StoreAcyclic == Spec => []Acyclic
  <1>1. Init => Acyclic
    BY DEF Init, Acyclic, AcyclicIn
  <1>2. TInv => NoParent \notin DOMAIN snaps
    BY NameFacts DEF TInv, StoreTyped, SnapsTyped
  <1>3. (TInv => NoParent \notin DOMAIN snaps)'
    BY NameFacts DEF TInv, StoreTyped, SnapsTyped
  <1>4. TInv /\ TInv' /\ IInv /\ Acyclic /\ [Next]_vars => Acyclic'
    BY <1>2, <1>3, NextEffect, EffectAcyclic DEF IInv, Acyclic
  <1>5. QED
    BY <1>1, <1>4, WalksInvariant, PTL DEF Spec

-----------------------------------------------------------------------------
(* Mounts.                                                                 *)

\* A key is mounted by one thread, nobody else unmounts or commits it, and
\* nobody else unmounts its target.
PrivateMounts ==
    \A t \in Threads : \A r \in Requests[t] :
        r.op = "mount" =>
            /\ r.name \in {"key"} \X Keys
            /\ \A u \in Threads \ {t} : \A s \in Requests[u] :
                  /\ s.op \in {"mount", "umount", "commit"} => s.name # r.name
                  /\ s.op = "umount" => s.target # r.target

\* The calls of u have nothing to do with the key n or the target a.
Avoids(u, n, a) ==
    \A s \in Requests[u] :
        /\ s.op \in {"mount", "umount", "commit"} => s.name # n
        /\ s.op = "umount" => s.target # a

\* A call of Mount at p that holds the mounts d, in a store with the leases ls
\* and the mounts ms.
MountHeld(p, r, l, d, ls, ms) ==
    p # "idle" /\ r.op = "mount" =>
        /\ p # "mount_lease" => r.name \in ls
        /\ p = "mount_all" => d \in {Gone, r.name}
        /\ p = "return" /\ ~ l.err => \E m \in ms : m.target = r.target /\ m.snap = r.name

MountsInv == \A t \in Threads : MountHeld(pc[t], req[t], loc[t], dir[t], leases, mounts)

\* The mounts of n on a stay, and those that calls other than u's hold.
Spares(u, n, a) ==
    /\ \A m \in mounts : m.snap = n /\ m.target = a => m \in mounts'
    /\ \A t \in Threads \ {u} : dir[t] \in {Gone, n} => dir'[t] \in {Gone, n}

LEMMA TransactionsSpare ==
    ASSUME StoreTyped, NEW u \in Threads, NEW n, NEW a
    PROVE  /\ UNCHANGED <<mounts, dir>> => Spares(u, n, a)
           /\ mounts \subseteq mounts' /\ UNCHANGED dir => Spares(u, n, a)
           /\ \A d : UNCHANGED mounts /\ dir' = [dir EXCEPT ![u] = d] => Spares(u, n, a)
           /\ \A m : RemoveSnapshot(m) /\ m # n => Spares(u, n, a)
           /\ \A m, c : CommitSnapshot(m, c) /\ m # n /\ m \in Names => Spares(u, n, a)
  <1>1. dir = [t \in Threads |-> dir[t]]
    BY DEF StoreTyped, MountsFollow
  <1>2. ASSUME NEW m, RemoveSnapshot(m), m # n
        PROVE  Spares(u, n, a)
    BY <1>2 DEF RemoveSnapshot, Spares
  <1>3. ASSUME NEW m, NEW c, CommitSnapshot(m, c), m # n, m \in Names
        PROVE  Spares(u, n, a)
    <2>1. m # Gone
      BY <1>3, GoneAssumption
    <2>2. /\ mounts' = {IF k.snap = m THEN [k EXCEPT !.snap = c] ELSE k : k \in mounts}
          /\ dir' = [t \in Threads |-> IF dir[t] = m THEN c ELSE dir[t]]
      BY <1>3 DEF CommitSnapshot
    <2>3. \A k \in mounts : k.snap = n => k \in mounts'
      BY <1>3, <2>2
    <2>4. \A t \in Threads : dir[t] \in {Gone, n} => dir'[t] = dir[t]
      BY <1>3, <2>1, <2>2
    <2>5. QED
      BY <2>3, <2>4 DEF Spares
  <1>4. QED
    BY <1>1, <1>2, <1>3 DEF Spares

\* A step of a call that avoids the key n and the target a.
LEMMA StepSpares ==
    ASSUME TInv, WalksInv, NEW u \in Threads, Begin(u) \/ Step(u),
           NEW n, n[1] = "key", NEW a, Avoids(u, n, a)
    PROVE  Spares(u, n, a)
  <1>1. ThreadsFit /\ StoreTyped
    BY DEF TInv
  <1>2. \A kind \in TempKinds : Temp(kind, u) # n
    BY DEF Temp, TempKinds
  <1>3. ASSUME UNCHANGED <<mounts, dir>>
        PROVE  Spares(u, n, a)
    BY <1>1, <1>3, TransactionsSpare
  <1>4. pc[u] # "idle" => /\ req[u].op \in {"mount", "umount", "commit"} =>
                                /\ req[u].name # n
                                /\ req[u].name \in Names
    BY <1>1, Busy, CalledName DEF Avoids
  <1>5. CASE Begin(u)
    <2>1. CASE UmountStart(u)
      <3>1. PICK r \in Requests[u] :
               /\ r.op = "umount"
               /\ UNCHANGED dir
               /\ mounts' = {m \in mounts : m.target # r.target} \/ UNCHANGED mounts
        BY <2>1 DEF UmountStart
      <3>2. r.target # a
        BY <3>1 DEF Avoids
      <3>3. QED
        BY <3>1, <3>2 DEF Spares
    <2>2. QED
      BY <1>3, <1>5, <2>1 DEF Begin, MountStart, CommitStart, FetchStart, RecordStart,
                              UnpackStart, DeleteStart, LabelStart, LookStart, store
  <1>6. CASE UnpackStep(u)
    <2>1. Extract(u) # n /\ Extract(u) \in Names
      BY <1>1, <1>2, TempNames DEF Extract, TempKinds
    <2>2. CASE CheckUnpacked(u) \/ PrepareLayer(u) \/ ApplyLayer(u)
      BY <1>3, <2>2 DEF CheckUnpacked, PrepareLayer, ApplyLayer, store
    <2>3. CASE CommitLayer(u)
      BY <1>1, <1>3, <2>1, <2>3, TransactionsSpare DEF CommitLayer
    <2>4. CASE AbortLayer(u)
      BY <1>1, <2>1, <2>4, TransactionsSpare DEF AbortLayer
    <2>5. QED
      BY <1>6, <2>2, <2>3, <2>4 DEF UnpackStep
  <1>7. CASE RemovalStep(u)
    <2>1. CASE StatLink(u)
      BY <1>3, <2>1 DEF StatLink, store
    <2>2. CASE RemoveLink(u)
      <3>1. pc[u] = "walk_remove"
        BY <2>2 DEF RemoveLink, At
      <3>2. loc[u].cur # n
        BY <1>4, <3>1 DEF WalksInv, Walking, WalkPart
      <3>3. QED
        BY <1>1, <1>3, <2>2, <3>2, TransactionsSpare DEF RemoveLink
    <2>3. QED
      BY <1>7, <2>1, <2>2 DEF RemovalStep
  <1>8. CASE MountStep(u)
    <2>1. CASE MountCreate(u) \/ MountExisting(u)
      BY <1>1, <1>3, <2>1, TransactionsSpare DEF MountCreate, MountExisting, store
    <2>2. CASE MountAll(u)
      BY <1>1, <2>2, TransactionsSpare DEF MountAll
    <2>3. CASE MountUndo(u)
      <3>1. pc[u] = "mount_undo"
        BY <2>3 DEF MountUndo, At
      <3>2. req[u].op = "mount"
        BY <1>1, <3>1, Busy DEF Reaches, MountPart
      <3>3. req[u].name # n
        BY <1>4, <3>1, <3>2
      <3>4. QED
        BY <1>1, <1>3, <2>3, <3>3, TransactionsSpare DEF MountUndo
    <2>4. CASE MountLease(u) \/ MountFailed(u) \/ UmountLease(u) \/ UmountUnlease(u)
      BY <1>3, <2>4 DEF MountLease, MountFailed, UmountLease, UmountUnlease, store
    <2>5. QED
      BY <1>8, <2>1, <2>2, <2>3, <2>4 DEF MountStep
  <1>9. CASE CommitStep(u)
    <2>1. Upper(u) # n /\ Lower(u) # n
      BY <1>2 DEF Upper, Lower, TempKinds
    <2>2. CASE CleanUpper(u) \/ CleanLower(u)
      BY <1>1, <2>1, <2>2, TransactionsSpare DEF CleanUpper, CleanLower
    <2>3. CASE DiffMounts(u) \/ DiffView(u) \/ CommitMounts(u)
      BY <1>1, <1>3, <2>3, TransactionsSpare DEF DiffMounts, DiffView, CommitMounts, store
    <2>4. CASE CommitActive(u)
      <3>1. pc[u] = "commit_snapshot"
        BY <2>4 DEF CommitActive, At
      <3>2. req[u].op = "commit"
        BY <1>1, <3>1, Busy DEF Reaches, CommitPart
      <3>3. req[u].name # n /\ req[u].name \in Names
        BY <1>4, <3>1, <3>2
      <3>4. QED
        BY <1>1, <1>3, <2>4, <3>3, TransactionsSpare DEF CommitActive
    <2>5. CASE \/ CommitStat(u) \/ CommitBase(u) \/ DiffStat(u) \/ DiffLower(u) \/ Compare(u)
               \/ CommitApply(u) \/ CommitManifest(u) \/ CommitConfig(u)
      BY <1>3, <2>5 DEF CommitStat, CommitBase, DiffStat, DiffLower, Compare, CommitApply,
                        CommitManifest, CommitConfig, WriteBlob, store
    <2>6. QED
      BY <1>9, <2>2, <2>3, <2>4, <2>5 DEF CommitStep
  <1>10. CASE ImageStep(u) \/ ImportStep(u) \/ LabelStep(u)
    BY <1>3, <1>10 DEF ImageStep, FetchManifest, FetchChildren, PutUpdate, PutCreate,
                       DeleteGet, DeleteCheck, DeleteImage, ImportStep, Unpacked, Deleted,
                       Undone, LabelStep, LabelStat, LabelWrite, Look, store
  <1>11. CASE Return(u)
    BY <1>1, <1>11, TransactionsSpare DEF Return
  <1>12. QED
    BY <1>5, <1>6, <1>7, <1>8, <1>9, <1>10, <1>11 DEF Step

\* Leases go on Umount of their key, and with the call that took them.
LEMMA StepLeases ==
    ASSUME ThreadsFit, NEW u \in Threads, Begin(u) \/ Step(u),
           NEW n \in leases, n[1] = "key", \A s \in Requests[u] :
               s.op \in {"mount", "umount"} => s.name # n
    PROVE  n \in leases'
  <1>1. Temp("lease", u) # n
    BY DEF Temp
  <1>2. pc[u] # "idle" /\ req[u].op \in {"mount", "umount"} => req[u].name # n
    BY Busy
  <1>3. CASE Begin(u)
    BY <1>3 DEF Begin, MountStart, UmountStart, CommitStart, FetchStart, RecordStart,
                UnpackStart, DeleteStart, LabelStart, LookStart, TakeLease, store
  <1>4. CASE UnpackStep(u) \/ RemovalStep(u)
    BY <1>4 DEF UnpackStep, CheckUnpacked, PrepareLayer, ApplyLayer, CommitLayer, AbortLayer,
                RemovalStep, StatLink, RemoveLink, store
  <1>5. CASE MountStep(u)
    <2>1. CASE UmountUnlease(u)
      <3>1. pc[u] = "umount_unlease" /\ leases' \in {leases \ {req[u].name}, leases}
        BY <2>1 DEF UmountUnlease, At
      <3>2. req[u].op = "umount"
        BY <3>1, Busy DEF Reaches
      <3>3. QED
        BY <1>2, <3>1, <3>2
    <2>2. QED
      BY <1>5, <2>1 DEF MountStep, MountLease, MountCreate, MountExisting, MountAll, MountUndo,
                        MountFailed, UmountLease, TakeLease, store
  <1>6. CASE CommitStep(u)
    BY <1>6 DEF CommitStep, CommitStat, CommitBase, DiffStat, DiffLower, DiffMounts, DiffView,
                Compare, CleanUpper, CleanLower, CommitMounts, CommitApply, CommitActive,
                CommitManifest, CommitConfig, WriteBlob, store
  <1>7. CASE ImageStep(u) \/ ImportStep(u) \/ LabelStep(u)
    BY <1>7 DEF ImageStep, FetchManifest, FetchChildren, PutUpdate, PutCreate, DeleteGet,
                DeleteCheck, DeleteImage, ImportStep, Unpacked, Deleted, Undone, LabelStep,
                LabelStat, LabelWrite, Look, store
  <1>8. CASE Return(u)
    <2>1. pc[u] = "return"
      BY <1>8 DEF Return, At
    <2>2. n \notin Deferred(u)
      BY <1>1, <1>2, <2>1 DEF Deferred
    <2>3. leases' \in {leases \ Deferred(u), leases}
      BY <1>8 DEF Return
    <2>4. QED
      BY <2>2, <2>3
  <1>9. QED
    BY <1>3, <1>4, <1>5, <1>6, <1>7, <1>8 DEF Step

\* The parts of Mount: it takes its lease, unpacks the image if asked to, and
\* mounts.
LEMMA MountParts ==
    ASSUME ThreadsFit, NEW t \in Threads, Step(t), req[t].op = "mount"
    PROVE  \/ UnpackStep(t) \/ Return(t)
           \/ MountLease(t) \/ MountCreate(t) \/ MountExisting(t) \/ MountAll(t)
           \/ MountUndo(t) \/ MountFailed(t)
  <1>1. pc[t] # "idle" => Reaches(pc[t], "mount")
    BY Busy
  <1>2. /\ pc[t] \notin WalkPart \cup DiffPart \cup CommitPart \cup FetchPart \cup PutPart
        /\ pc[t] \notin DeletePart
        /\ pc[t] \notin {"unpacked", "deleted", "undone", "label_stat", "label_write", "look",
                         "umount_lease", "umount_unlease"}
    BY <1>1 DEF Reaches, WalkPart, DiffPart, CommitPart, FetchPart, PutPart, DeletePart,
                Fetchers, Importers
  <1>3. ~ RemovalStep(t)
    BY <1>2 DEF RemovalStep, StatLink, RemoveLink, At, WalkPart
  <1>4. ~ CommitStep(t)
    <2>1. /\ ~ CommitStat(t) /\ ~ CommitBase(t) /\ ~ DiffStat(t) /\ ~ DiffLower(t)
          /\ ~ DiffMounts(t) /\ ~ DiffView(t) /\ ~ Compare(t) /\ ~ CleanUpper(t)
          /\ ~ CleanLower(t)
      BY <1>2 DEF CommitStat, CommitBase, DiffStat, DiffLower, DiffMounts, DiffView, Compare,
                  CleanUpper, CleanLower, At, DiffPart
    <2>2. /\ ~ CommitMounts(t) /\ ~ CommitApply(t) /\ ~ CommitActive(t) /\ ~ CommitManifest(t)
          /\ ~ CommitConfig(t)
      BY <1>2 DEF CommitMounts, CommitApply, CommitActive, CommitManifest, CommitConfig,
                  WriteBlob, At, CommitPart
    <2>3. QED
      BY <2>1, <2>2 DEF CommitStep
  <1>5. ~ ImageStep(t)
    BY <1>2 DEF ImageStep, FetchManifest, FetchChildren, PutUpdate, PutCreate, DeleteGet,
                DeleteCheck, DeleteImage, At, FetchPart, PutPart, DeletePart
  <1>6. ~ ImportStep(t) /\ ~ LabelStep(t) /\ ~ UmountLease(t) /\ ~ UmountUnlease(t)
    BY <1>2 DEF ImportStep, Unpacked, Deleted, Undone, LabelStep, LabelStat, LabelWrite, Look,
                UmountLease, UmountUnlease, At
  <1>7. QED
    BY <1>3, <1>4, <1>5, <1>6 DEF Step, MountStep

\* A call that fails has failed.
LEMMA FinishFails ==
    ASSUME ThreadsFit, NEW t \in Threads, Finish(t, TRUE)
    PROVE  pc'[t] = "return" /\ loc'[t].err
  <1> DEFINE l == [Blank EXCEPT !.owns = loc[t].owns,
                                !.err  = TRUE]
  <1>1. l.err
    BY DEF Blank
  <1>2. loc' = [loc EXCEPT ![t] = l] /\ Goto(t, "return")
    BY DEF Finish
  <1> HIDE DEF l
  <1>3. loc'[t] = l
    BY <1>2 DEF ThreadsFit
  <1>4. QED
    BY <1>1, <1>2, <1>3, PartsLead

\* The unpacking of Mount goes on to the mounting, or Mount fails.
LEMMA MountUnpacks ==
    ASSUME ThreadsFit, NEW t \in Threads, UnpackStep(t), req[t].op = "mount"
    PROVE  \/ pc'[t] \in UnpackPart \cup {"mount_create"}
           \/ pc'[t] = "return" /\ loc'[t].err
  <1>1. pc[t] \in UnpackPart /\ pc[t] # "idle"
    BY DEF UnpackStep, CheckUnpacked, PrepareLayer, ApplyLayer, CommitLayer, AbortLayer, At,
           UnpackPart, LayerPart
  <1>2. loc[t].next = "mount_create" /\ loc[t].loop = "none"
    <2>1. Follows(pc[t], req[t].op, loc[t])
      BY <1>1, Busy
    <2>2. QED
      BY <1>1, <2>1 DEF Follows, Importers
  <1>3. Continue(t) => pc'[t] = "mount_create"
    BY <1>2, PartsLead
  <1>4. EndPart(t, TRUE) => pc'[t] = "return" /\ loc'[t].err
    BY <1>2, FinishFails DEF EndPart
  <1>5. NextLayer(t) => pc'[t] \in UnpackPart \cup {"mount_create"}
    BY <1>3, PartsLead DEF NextLayer, UnpackPart, LayerPart
  <1>6. QED
    BY <1>3, <1>4, <1>5, PartsLead
    DEF UnpackStep, CheckUnpacked, PrepareLayer, ApplyLayer, CommitLayer, AbortLayer,
        UnpackPart, LayerPart

LEMMA OwnMount ==
    ASSUME TInv, MountsInv, NEW t \in Threads, Begin(t) \/ Step(t)
    PROVE  MountHeld(pc'[t], req'[t], loc'[t], dir'[t], leases', mounts')
  <1>1. /\ ThreadsFit
        /\ dir = [u \in Threads |-> dir[u]]
        /\ MountHeld(pc[t], req[t], loc[t], dir[t], leases, mounts)
    BY DEF TInv, StoreTyped, MountsFollow, MountsInv
  <1>2. CASE Begin(t)
    <2>1. CASE MountStart(t)
      <3>1. pc'[t] = "mount_lease"
        BY <1>1, <2>1, PartsLead DEF MountStart, Start
      <3>2. QED
        BY <3>1 DEF MountHeld
    <2>2. ASSUME ~ MountStart(t)
          PROVE  req'[t].op # "mount"
      <3>1. req = [u \in Threads |-> req[u]]
        BY <1>1 DEF ThreadsFit
      <3>2. CASE UmountStart(t) \/ CommitStart(t) \/ UnpackStart(t) \/ DeleteStart(t)
        BY <3>1, <3>2 DEF UmountStart, CommitStart, UnpackStart, DeleteStart, Start
      <3>3. CASE FetchStart(t) \/ RecordStart(t) \/ LabelStart(t) \/ LookStart(t)
        BY <3>1, <3>3 DEF FetchStart, RecordStart, LabelStart, LookStart, Start
      <3>4. QED
        BY <1>2, <2>2, <3>2, <3>3 DEF Begin
    <2>3. QED
      BY <2>1, <2>2 DEF MountHeld
  <1>3. CASE Return(t)
    <2>1. pc'[t] = "idle"
      BY <1>1, <1>3, PartsLead DEF Return
    <2>2. QED
      BY <2>1 DEF MountHeld
  <1>4. Step(t) /\ ~ Return(t) => UNCHANGED req /\ pc[t] # "idle"
    BY StepCalls
  <1>5. CASE Step(t) /\ ~ Return(t) /\ req[t].op # "mount"
    BY <1>4, <1>5 DEF MountHeld
  <1>6. CASE Step(t) /\ ~ Return(t) /\ req[t].op = "mount"
    <2> DEFINE n == req[t].name
    <2>1. req'[t] = req[t] /\ pc[t] # "idle" /\ (pc[t] # "mount_lease" => n \in leases)
      BY <1>1, <1>4, <1>6 DEF MountHeld
    <2>2. CASE UnpackStep(t)
      <3>1. n \in leases'
        BY <2>1, <2>2 DEF UnpackStep, CheckUnpacked, PrepareLayer, ApplyLayer, CommitLayer,
                          AbortLayer, At, store
      <3>2. pc'[t] # "mount_all" /\ (pc'[t] = "return" => loc'[t].err)
        BY <1>1, <1>6, <2>2, MountUnpacks DEF UnpackPart, LayerPart
      <3>3. QED
        BY <2>1, <3>1, <3>2 DEF MountHeld
    <2>3. CASE MountLease(t)
      <3>1. n \in leases' /\ pc'[t] \in {"unpack", "mount_create"}
        BY <1>1, <2>3, PartsLead DEF MountLease
      <3>2. QED
        BY <2>1, <3>1 DEF MountHeld
    <2>4. CASE MountCreate(t) \/ MountExisting(t)
      <3>1. n \in leases'
        BY <2>1, <2>4 DEF MountCreate, MountExisting, At, store
      <3>2. /\ pc'[t] \in {"mount_all", "mount_existing", "mount_failed"}
            /\ pc'[t] = "mount_all" => dir'[t] = n
        BY <1>1, <2>4, PartsLead DEF MountCreate, MountExisting
      <3>3. QED
        BY <2>1, <3>1, <3>2 DEF MountHeld
    <2>5. CASE MountAll(t)
      <3>1. n \in leases' /\ dir[t] \in {Gone, n}
        BY <1>1, <1>6, <2>1, <2>5 DEF MountAll, At, MountHeld
      <3>2. pc'[t] \in {"return", "mount_undo"}
        BY <1>1, <2>5, PartsLead DEF MountAll
      <3>3. pc'[t] = "return" => \E m \in mounts' : m.target = req[t].target /\ m.snap = n
        <4> SUFFICES ASSUME pc'[t] = "return"
                     PROVE  \E m \in mounts' : m.target = req[t].target /\ m.snap = n
          OBVIOUS
        <4> DEFINE m == [target |-> req[t].target, snap |-> dir[t],
                         rw |-> snaps[dir[t]].kind # "view"]
        <4>1. dir[t] # Gone /\ mounts' = mounts \cup {m}
          <5>1. ~ Goto(t, "mount_undo")
            BY <1>1, PartsLead
          <5>2. QED
            BY <2>5, <5>1 DEF MountAll
        <4>2. m.target = req[t].target /\ m.snap = n
          BY <3>1, <4>1
        <4>3. QED
          BY <4>1, <4>2
      <3>4. QED
        BY <2>1, <3>1, <3>2, <3>3 DEF MountHeld
    <2>6. CASE MountUndo(t)
      <3>1. n \in leases' /\ pc'[t] = "mount_failed"
        BY <1>1, <2>1, <2>6, PartsLead DEF MountUndo, At
      <3>2. QED
        BY <2>1, <3>1 DEF MountHeld
    <2>7. CASE MountFailed(t)
      <3>1. n \in leases' /\ pc'[t] = "return"
        BY <1>1, <2>1, <2>7, PartsLead DEF MountFailed, At, store
      <3>2. loc'[t].err
        BY <1>1, <1>6, <2>7, FinishFails DEF MountFailed
      <3>3. QED
        BY <2>1, <3>1, <3>2 DEF MountHeld
    <2>8. QED
      BY <1>1, <1>6, <2>2, <2>3, <2>4, <2>5, <2>6, <2>7, MountParts
  <1>7. QED
    BY <1>2, <1>3, <1>5, <1>6

LEMMA MountsStep ==
    ASSUME PrivateMounts, TInv, WalksInv, MountsInv, [Next]_vars
    PROVE  MountsInv'
  <1>1. ThreadsFit /\ StoreTyped
    BY DEF TInv
  <1>2. CASE \E u \in Threads : Begin(u) \/ Step(u)
    <2>1. PICK u \in Threads : Begin(u) \/ Step(u)
      BY <1>2
    <2>2. ASSUME NEW t \in Threads \ {u}
          PROVE  MountHeld(pc'[t], req'[t], loc'[t], dir'[t], leases', mounts')
      <3>1. pc'[t] = pc[t] /\ req'[t] = req[t] /\ loc'[t] = loc[t]
        BY <1>1, <2>1, StepApart DEF Apart
      <3>2. MountHeld(pc[t], req[t], loc[t], dir[t], leases, mounts)
        BY DEF MountsInv
      <3>3. CASE pc[t] # "idle" /\ req[t].op = "mount"
        <4> DEFINE n == req[t].name
                   a == req[t].target
        <4>1. req[t] \in Requests[t]
          BY <1>1, <3>3, Busy
        <4>2. n \in {"key"} \X Keys /\ Avoids(u, n, a)
          BY <3>3, <4>1 DEF PrivateMounts, Avoids
        <4>3. n[1] = "key"
          BY <4>2
        <4>4. \A s \in Requests[u] : s.op \in {"mount", "umount"} => s.name # n
          BY <4>2 DEF Avoids
        <4> HIDE DEF n, a
        <4>5. Spares(u, n, a)
          BY <2>1, <4>2, <4>3, StepSpares
        <4>6. n \in leases => n \in leases'
          BY <1>1, <2>1, <4>3, <4>4, StepLeases
        <4>7. QED
          BY <2>2, <3>1, <3>2, <4>5, <4>6 DEF MountHeld, Spares, n, a
      <3>4. QED
        BY <3>1, <3>3 DEF MountHeld
    <2>3. MountHeld(pc'[u], req'[u], loc'[u], dir'[u], leases', mounts')
      BY <2>1, OwnMount
    <2>4. QED
      BY <2>2, <2>3 DEF MountsInv, MountHeld
  <1>3. CASE UserWrite \/ UNCHANGED vars
    <2>1. UNCHANGED <<pc, req, loc, dir, leases, mounts>>
      BY <1>3 DEF UserWrite, thread, vars
    <2>2. QED
      BY <2>1 DEF MountsInv, MountHeld
  <1>4. CASE Kill \/ Reboot \/ \E t \in Threads : MountPanic(t)
    <2>1. \A t \in Threads : pc'[t] = "idle"
      BY <1>4 DEF Kill, Reboot, MountPanic, ProcessEnds
    <2>2. QED
      BY <2>1 DEF MountsInv, MountHeld
  <1>5. QED
    BY <1>2, <1>3, <1>4 DEF Next

\* A Mount that succeeds has its mount, of the snapshot of its key, and its
\* lease, whatever others unpack, commit, delete and remove meanwhile, as long
\* as they leave the key and the target alone.  A snapshot that others race to
\* create below it, and a failure and its clean-up elsewhere, take neither away.
THEOREM StoreMountBacked ==
    ASSUME PrivateMounts
    PROVE  Spec => []MountBacked
  <1>1. Init => MountsInv
    BY DEF Init, MountsInv, MountHeld
  <1>2. TInv /\ WalksInv /\ MountsInv /\ [Next]_vars => MountsInv'
    BY MountsStep
  <1>3. TInv /\ MountsInv => MountBacked
    <2> SUFFICES ASSUME TInv, MountsInv, NEW t \in Threads, Succeeded(t, "mount")
                 PROVE  /\ req[t].name \in leases
                        /\ req[t].name \in DOMAIN snaps
                        /\ \E m \in mounts : m.target = req[t].target /\ m.snap = req[t].name
      BY DEF MountBacked
    <2>1. /\ req[t].name \in leases
          /\ \E m \in mounts : m.target = req[t].target /\ m.snap = req[t].name
      BY DEF MountsInv, MountHeld, Succeeded, At
    <2>2. \A m \in mounts : m.snap \in DOMAIN snaps
      BY DEF TInv, StoreTyped, MountsFollow
    <2>3. QED
      BY <2>1, <2>2
  <1>4. QED
    BY <1>1, <1>2, <1>3, WalksInvariant, PTL DEF Spec

-----------------------------------------------------------------------------
(* Unmounts.                                                               *)

\* The key and the target of an Umount are mounted by no other thread.
PrivateUmounts ==
    \A t \in Threads : \A r \in Requests[t] :
        r.op = "umount" =>
            /\ r.name \in {"key"} \X Keys
            /\ \A u \in Threads \ {t} : \A s \in Requests[u] :
                  s.op = "mount" => s.name # r.name /\ s.target # r.target

\* A step makes no snapshot and no lease with the name n and no mount on a.
MakesNone(n, a) ==
    /\ n \in DOMAIN snaps' => n \in DOMAIN snaps
    /\ n \in leases' => n \in leases
    /\ \A m \in mounts' : m.target = a => \E k \in mounts : k.target = a

LEMMA TransactionsMake ==
    ASSUME StoreTyped, NEW n, NEW a
    PROVE  /\ UNCHANGED <<snaps, mounts, leases>> => MakesNone(n, a)
           /\ \A m : RemoveSnapshot(m) /\ UNCHANGED leases => MakesNone(n, a)
           /\ \A m, c : CommitSnapshot(m, c) /\ UNCHANGED leases /\ c # n => MakesNone(n, a)
           /\ \A kind, m, p, label :
                 snaps' = Created(snaps, kind, m, p, label) /\ UNCHANGED <<mounts, leases>>
                 /\ m # n => MakesNone(n, a)
           /\ \A m, d : snaps' = Written(snaps, m, d) /\ UNCHANGED <<mounts, leases>>
                        => MakesNone(n, a)
           /\ \A m, label : snaps' = Relabelled(snaps, m, label) /\ UNCHANGED <<mounts, leases>>
                            => MakesNone(n, a)
  <1>1. ASSUME NEW m, RemoveSnapshot(m), UNCHANGED leases
        PROVE  MakesNone(n, a)
    BY <1>1, RemovedFacts DEF RemoveSnapshot, MakesNone
  <1>2. ASSUME NEW m, NEW c, CommitSnapshot(m, c), UNCHANGED leases, c # n
        PROVE  MakesNone(n, a)
    <2>1. n \in DOMAIN snaps' => n \in DOMAIN snaps
      BY <1>2 DEF CommitSnapshot, Committed, Put, Removed, Restrict
    <2>2. ASSUME NEW k \in mounts', k.target = a
          PROVE  \E j \in mounts : j.target = a
      <3>1. PICK j \in mounts : k = IF j.snap = m THEN [j EXCEPT !.snap = c] ELSE j
        BY <1>2 DEF CommitSnapshot
      <3>2. j \in Mounted
        BY DEF StoreTyped, MountsFollow
      <3>3. j.target = k.target
        BY <3>1, <3>2 DEF Mounted
      <3>4. QED
        BY <2>2, <3>3
    <2>3. QED
      BY <1>2, <2>1, <2>2 DEF MakesNone
  <1>3. ASSUME NEW kind, NEW m, NEW p, NEW label, m # n,
               snaps' = Created(snaps, kind, m, p, label)
        PROVE  n \in DOMAIN snaps' => n \in DOMAIN snaps
    BY <1>3 DEF Created, Put
  <1>4. /\ \A m, d : snaps' = Written(snaps, m, d) => DOMAIN snaps' = DOMAIN snaps
        /\ \A m, label : snaps' = Relabelled(snaps, m, label) => DOMAIN snaps' = DOMAIN snaps
    BY DEF Written, Relabelled
  <1>5. QED
    BY <1>1, <1>2, <1>3, <1>4 DEF MakesNone

\* A step of a call that does not mount the key n and not on the target a.
LEMMA StepMakesNone ==
    ASSUME TInv, NEW u \in Threads, Begin(u) \/ Step(u), NEW n, n[1] = "key", NEW a,
           \A s \in Requests[u] : s.op = "mount" => s.name # n /\ s.target # a
    PROVE  MakesNone(n, a)
  <1>1. ThreadsFit /\ StoreTyped
    BY DEF TInv
  <1>2. \A kind \in TempKinds : Temp(kind, u) # n
    BY DEF Temp, TempKinds
  <1>3. \A c : Chain(c) # n
    BY DEF Chain
  <1>4. ASSUME UNCHANGED <<snaps, mounts, leases>>
        PROVE  MakesNone(n, a)
    BY <1>4 DEF MakesNone
  <1>5. ASSUME UNCHANGED <<snaps, mounts>>, TakeLease(u)
        PROVE  MakesNone(n, a)
    BY <1>2, <1>5 DEF MakesNone, TakeLease, TempKinds
  <1>6. CASE Begin(u)
    <2>1. CASE UmountStart(u)
      BY <2>1 DEF UmountStart, MakesNone
    <2>2. CASE MountStart(u)
      BY <1>4, <2>2 DEF MountStart, store
    <2>3. QED
      BY <1>5, <1>6, <2>1, <2>2 DEF Begin, CommitStart, FetchStart, RecordStart, UnpackStart,
                                    DeleteStart, LabelStart, LookStart
  <1>7. CASE UnpackStep(u)
    <2>1. Extract(u) # n /\ UpTo(u) # n
      BY <1>2, <1>3 DEF Extract, TempKinds, UpTo
    <2>2. CASE CheckUnpacked(u)
      BY <1>4, <2>2 DEF CheckUnpacked, store
    <2>3. CASE PrepareLayer(u)
      BY <1>1, <1>4, <2>1, <2>3, TransactionsMake DEF PrepareLayer
    <2>4. CASE ApplyLayer(u)
      BY <1>1, <1>4, <2>4, TransactionsMake DEF ApplyLayer
    <2>5. CASE CommitLayer(u)
      BY <1>1, <1>4, <2>1, <2>5, TransactionsMake DEF CommitLayer
    <2>6. CASE AbortLayer(u)
      BY <1>1, <2>6, TransactionsMake DEF AbortLayer
    <2>7. QED
      BY <1>7, <2>2, <2>3, <2>4, <2>5, <2>6 DEF UnpackStep
  <1>8. CASE RemovalStep(u)
    <2>1. CASE StatLink(u)
      BY <1>4, <2>1 DEF StatLink, store
    <2>2. CASE RemoveLink(u)
      BY <1>1, <1>4, <2>2, TransactionsMake DEF RemoveLink
    <2>3. QED
      BY <1>8, <2>1, <2>2 DEF RemovalStep
  <1>9. CASE MountStep(u)
    <2>1. pc[u] \in MountPart => req[u].name # n /\ req[u].target # a
      <3>1. pc[u] \in MountPart => pc[u] # "idle"
        BY DEF MountPart
      <3>2. QED
        BY <1>1, <3>1, Busy DEF Reaches
    <2>2. CASE MountLease(u)
      BY <2>1, <2>2 DEF MountLease, At, MountPart, MakesNone
    <2>3. CASE MountCreate(u)
      <3>1. req[u].name # n
        BY <2>1, <2>3 DEF MountCreate, At, MountPart
      <3>2. QED
        BY <1>1, <1>4, <2>3, <3>1, TransactionsMake DEF MountCreate
    <2>4. CASE MountAll(u)
      <3>1. req[u].target # a
        BY <2>1, <2>4 DEF MountAll, At, MountPart
      <3>2. snaps' = snaps /\ leases' = leases
        BY <2>4 DEF MountAll
      <3>3. \/ mounts' = mounts
            \/ \E m : m.target = req[u].target /\ mounts' = mounts \cup {m}
        <4> DEFINE m == [target |-> req[u].target, snap |-> dir[u],
                         rw |-> snaps[dir[u]].kind # "view"]
        <4>1. m.target = req[u].target
          OBVIOUS
        <4>2. mounts' = mounts \/ mounts' = mounts \cup {m}
          BY <2>4 DEF MountAll
        <4> HIDE DEF m
        <4>3. QED
          BY <4>1, <4>2
      <3>4. QED
        BY <3>1, <3>2, <3>3 DEF MakesNone
    <2>5. CASE MountUndo(u)
      BY <1>1, <1>4, <2>5, TransactionsMake DEF MountUndo
    <2>6. CASE UmountUnlease(u)
      BY <2>6 DEF UmountUnlease, MakesNone
    <2>7. CASE MountExisting(u) \/ MountFailed(u) \/ UmountLease(u)
      BY <1>4, <1>5, <2>7 DEF MountExisting, MountFailed, UmountLease, store
    <2>8. QED
      BY <1>9, <2>2, <2>3, <2>4, <2>5, <2>6, <2>7 DEF MountStep
  <1>10. CASE CommitStep(u)
    <2>1. Upper(u) # n /\ Lower(u) # n
      BY <1>2 DEF Upper, Lower, TempKinds
    <2>2. CASE CleanUpper(u) \/ CleanLower(u)
      BY <1>1, <2>2, TransactionsMake DEF CleanUpper, CleanLower
    <2>3. CASE DiffLower(u) \/ DiffView(u)
      BY <1>1, <1>4, <2>1, <2>3, TransactionsMake DEF DiffLower, DiffView, store
    <2>4. CASE CommitApply(u)
      BY <1>1, <1>4, <2>4, TransactionsMake DEF CommitApply
    <2>5. CASE CommitActive(u)
      BY <1>1, <1>3, <1>4, <2>5, TransactionsMake DEF CommitActive
    <2>6. CASE \/ CommitStat(u) \/ CommitBase(u) \/ DiffStat(u) \/ DiffMounts(u) \/ Compare(u)
               \/ CommitMounts(u) \/ CommitManifest(u) \/ CommitConfig(u)
      BY <1>4, <2>6 DEF CommitStat, CommitBase, DiffStat, DiffMounts, Compare, CommitMounts,
                        CommitManifest, CommitConfig, WriteBlob, store
    <2>7. QED
      BY <1>10, <2>2, <2>3, <2>4, <2>5, <2>6 DEF CommitStep
  <1>11. CASE ImageStep(u) \/ ImportStep(u)
    BY <1>4, <1>11 DEF ImageStep, FetchManifest, FetchChildren, PutUpdate, PutCreate,
                       DeleteGet, DeleteCheck, DeleteImage, ImportStep, Unpacked, Deleted,
                       Undone, store
  <1>12. CASE LabelStep(u)
    <2>1. CASE LabelWrite(u)
      BY <1>1, <1>4, <2>1, TransactionsMake DEF LabelWrite
    <2>2. CASE LabelStat(u) \/ Look(u)
      BY <1>4, <2>2 DEF LabelStat, Look, store
    <2>3. QED
      BY <1>12, <2>1, <2>2 DEF LabelStep
  <1>13. CASE Return(u)
    BY <1>13 DEF Return, MakesNone
  <1>14. QED
    BY <1>6, <1>7, <1>8, <1>9, <1>10, <1>11, <1>12, <1>13 DEF Step

\* A call of Umount at p, in a store with the snapshots s, the leases ls and
\* the mounts ms.
Unmounted(p, r, l, s, ls, ms) ==
    p # "idle" /\ r.op = "umount" =>
        /\ p # "return" \/ ~ l.err => \A m \in ms : m.target # r.target
        /\ p \in WalkPart => /\ r.name \notin ls
                             /\ l.cur = r.name \/ r.name \notin s
        /\ p = "return" /\ ~ l.err /\ r.rm # 0 => r.name \notin ls \cup s

UmountsInv ==
    \A t \in Threads : Unmounted(pc[t], req[t], loc[t], DOMAIN snaps, leases, mounts)

\* Nothing is built on a key.
LEMMA KeysHaveNoChild ==
    ASSUME IInv, NEW n, n[1] = "key"
    PROVE  ~ HasChild(snaps, n)
  BY ParentsAreChains DEF HasChild

\* The removal that Umount ends with.
LEMMA UmountWalks ==
    ASSUME TInv, IInv, WalksInv, UmountsInv, PrivateUmounts,
           NEW t \in Threads, RemovalStep(t), req[t].op = "umount"
    PROVE  Unmounted(pc'[t], req'[t], loc'[t], DOMAIN snaps', leases', mounts')
  <1> DEFINE n == req[t].name
             a == req[t].target
  <1>1. ThreadsFit /\ StoreTyped
    BY DEF TInv
  <1>2. /\ pc[t] \in WalkPart /\ pc[t] # "idle" /\ UNCHANGED req
        /\ leases' = leases
    BY DEF RemovalStep, StatLink, RemoveLink, At, WalkPart, store
  <1>3. /\ req[t] \in Requests[t] /\ loc[t] \in Locals
        /\ loc[t].next = "return" /\ loc[t].loop = "none"
    BY <1>1, <1>2, Busy DEF Follows, Importers, WalkPart
  <1>4. n[1] = "key" /\ n # NoParent
    <2>1. n \in {"key"} \X Keys
      BY <1>3 DEF PrivateUmounts
    <2>2. QED
      BY <2>1, NoParentAssumption DEF Chain
  <1>5. /\ n \notin leases /\ \A m \in mounts : m.target # a
        /\ loc[t].cur = n \/ n \notin DOMAIN snaps
    BY <1>2 DEF UmountsInv, Unmounted, WalkPart
  <1>6. MakesNone(n, a)
    <2>1. \A m : RemoveSnapshot(m) /\ UNCHANGED leases => MakesNone(n, a)
      BY <1>1, TransactionsMake
    <2>2. UNCHANGED <<snaps, mounts, leases>> => MakesNone(n, a)
      BY <1>1, TransactionsMake
    <2>3. QED
      BY <1>2, <2>1, <2>2 DEF RemovalStep, StatLink, RemoveLink, store
  <1>7. n \notin leases' /\ \A m \in mounts' : m.target # a
    BY <1>5, <1>6 DEF MakesNone
  <1>8. req'[t] = req[t]
    BY <1>2
  <1>9. ASSUME n \notin DOMAIN snaps', pc'[t] \in WalkPart \cup {"return"}
        PROVE  Unmounted(pc'[t], req'[t], loc'[t], DOMAIN snaps', leases', mounts')
    BY <1>7, <1>8, <1>9 DEF Unmounted, WalkPart
  <1>10. n \notin DOMAIN snaps => n \notin DOMAIN snaps'
    BY <1>6 DEF MakesNone
  <1>11. Continue(t) => pc'[t] = "return"
    BY <1>1, <1>3, PartsLead
  <1>12. CASE StatLink(t)
    <2>1. snaps' = snaps
      BY <1>12 DEF StatLink, store
    <2>2. CASE loc[t].cur \notin DOMAIN snaps /\ Continue(t)
      BY <1>5, <1>9, <1>11, <2>1, <2>2
    <2>3. CASE /\ Goto(t, "walk_remove")
               /\ loc' = [loc EXCEPT ![t].par = snaps[loc[t].cur].parent]
      <3>1. pc'[t] = "walk_remove" /\ loc'[t].cur = loc[t].cur
        BY <1>1, <1>3, <2>3, PartsLead DEF ThreadsFit, Locals
      <3>2. QED
        BY <1>5, <1>7, <1>8, <2>1, <3>1 DEF Unmounted
    <2>4. QED
      BY <1>12, <2>2, <2>3 DEF StatLink
  <1>13. CASE RemoveLink(t)
    <2>1. Climb(t) => pc'[t] \in WalkPart \cup {"return"}
      BY <1>1, <1>11, PartsLead DEF Climb, WalkPart
    <2>2. CASE RemoveSnapshot(loc[t].cur) /\ Climb(t)
      <3>1. n \notin DOMAIN snaps'
        <4>1. CASE loc[t].cur = n
          <5>1. snaps' = Removed(snaps, n)
            BY <2>2, <4>1 DEF RemoveSnapshot
          <5>2. DOMAIN Removed(snaps, n) = DOMAIN snaps \ {n}
            BY RemovedFacts
          <5>3. QED
            BY <5>1, <5>2
        <4>2. QED
          BY <1>5, <1>10, <4>1
      <3>2. QED
        BY <1>9, <2>1, <2>2, <3>1
    <2>3. CASE RemoveResult(snaps, loc[t].cur) = "failed_precondition" /\ Continue(t)
      <3>1. loc[t].cur # n
        BY <1>4, <2>3, KeysHaveNoChild DEF RemoveResult
      <3>2. QED
        BY <1>5, <1>9, <1>10, <1>11, <2>3, <3>1
    <2>4. CASE EndPart(t, TRUE)
      <3>1. Finish(t, TRUE)
        BY <1>3, <2>4 DEF EndPart
      <3>2. pc'[t] = "return" /\ loc'[t].err
        BY <1>1, <3>1, FinishFails
      <3>3. QED
        BY <3>2 DEF Unmounted, WalkPart
    <2>5. QED
      BY <1>13, <2>2, <2>3, <2>4 DEF RemoveLink
  <1>14. QED
    BY <1>12, <1>13 DEF RemovalStep

\* The parts of Umount.
LEMMA UmountParts ==
    ASSUME ThreadsFit, NEW t \in Threads, Step(t), req[t].op = "umount"
    PROVE  RemovalStep(t) \/ UmountLease(t) \/ UmountUnlease(t) \/ Return(t)
  <1>1. pc[t] # "idle" => Reaches(pc[t], "umount")
    BY Busy
  <1>2. /\ pc[t] \notin UnpackPart \cup MountPart \cup DiffPart \cup CommitPart
        /\ pc[t] \notin FetchPart \cup PutPart \cup DeletePart
        /\ pc[t] \notin {"unpacked", "deleted", "undone", "label_stat", "label_write", "look"}
    BY <1>1 DEF Reaches, UnpackPart, LayerPart, MountPart, DiffPart, CommitPart, FetchPart,
                PutPart, DeletePart, Fetchers, Importers
  <1>3. ~ UnpackStep(t)
    BY <1>2 DEF UnpackStep, CheckUnpacked, PrepareLayer, ApplyLayer, CommitLayer, AbortLayer,
                At, UnpackPart, LayerPart
  <1>4. ~ CommitStep(t)
    <2>1. /\ ~ CommitStat(t) /\ ~ CommitBase(t) /\ ~ DiffStat(t) /\ ~ DiffLower(t)
          /\ ~ DiffMounts(t) /\ ~ DiffView(t) /\ ~ Compare(t) /\ ~ CleanUpper(t)
          /\ ~ CleanLower(t)
      BY <1>2 DEF CommitStat, CommitBase, DiffStat, DiffLower, DiffMounts, DiffView, Compare,
                  CleanUpper, CleanLower, At, DiffPart
    <2>2. /\ ~ CommitMounts(t) /\ ~ CommitApply(t) /\ ~ CommitActive(t) /\ ~ CommitManifest(t)
          /\ ~ CommitConfig(t)
      BY <1>2 DEF CommitMounts, CommitApply, CommitActive, CommitManifest, CommitConfig,
                  WriteBlob, At, CommitPart
    <2>3. QED
      BY <2>1, <2>2 DEF CommitStep
  <1>5. ~ ImageStep(t)
    BY <1>2 DEF ImageStep, FetchManifest, FetchChildren, PutUpdate, PutCreate, DeleteGet,
                DeleteCheck, DeleteImage, At, FetchPart, PutPart, DeletePart
  <1>6. ~ ImportStep(t) /\ ~ LabelStep(t)
    BY <1>2 DEF ImportStep, Unpacked, Deleted, Undone, LabelStep, LabelStat, LabelWrite, Look, At
  <1>7. /\ ~ MountLease(t) /\ ~ MountCreate(t) /\ ~ MountExisting(t) /\ ~ MountAll(t)
        /\ ~ MountUndo(t) /\ ~ MountFailed(t)
    BY <1>2 DEF MountLease, MountCreate, MountExisting, MountAll, MountUndo, MountFailed, At,
                MountPart
  <1>8. QED
    BY <1>3, <1>4, <1>5, <1>6, <1>7 DEF Step, MountStep

LEMMA OwnUmount ==
    ASSUME TInv, IInv, WalksInv, UmountsInv, PrivateUmounts,
           NEW t \in Threads, Begin(t) \/ Step(t)
    PROVE  Unmounted(pc'[t], req'[t], loc'[t], DOMAIN snaps', leases', mounts')
  <1>1. ThreadsFit /\ StoreTyped
    BY DEF TInv
  <1>2. /\ req = [u \in Threads |-> req[u]] /\ loc = [u \in Threads |-> loc[u]]
        /\ loc[t] \in Locals
    BY <1>1 DEF ThreadsFit, Fits
  <1>3. CASE UmountStart(t)
    <2>1. PICK r \in Requests[t] :
             /\ r.op = "umount"
             /\ \/ /\ Start(t, r, IF r.rm = 0 THEN "return" ELSE "umount_lease")
                   /\ mounts' = {m \in mounts : m.target # r.target}
                \/ /\ Start(t, r, "return")
                   /\ loc' = [loc EXCEPT ![t].err = TRUE]
      BY <1>3 DEF UmountStart
    <2>2. req'[t] = r
      BY <1>2, <2>1 DEF Start
    <2>3. CASE /\ Start(t, r, "return")
               /\ loc' = [loc EXCEPT ![t].err = TRUE]
      <3>1. pc'[t] = "return"
        BY <1>1, <2>3, PartsLead DEF Start
      <3>2. loc'[t].err
        BY <1>2, <2>3 DEF Locals
      <3>3. QED
        BY <3>1, <3>2 DEF Unmounted, WalkPart
    <2>4. CASE /\ Start(t, r, IF r.rm = 0 THEN "return" ELSE "umount_lease")
               /\ mounts' = {m \in mounts : m.target # r.target}
      <3>1. /\ pc'[t] \in {"return", "umount_lease"}
            /\ pc'[t] = "return" => r.rm = 0
        BY <1>1, <2>4, PartsLead DEF Start
      <3>2. \A m \in mounts' : m.target # r.target
        BY <2>4
      <3>3. QED
        BY <2>2, <3>1, <3>2 DEF Unmounted, WalkPart
    <2>5. QED
      BY <2>1, <2>3, <2>4
  <1>4. CASE Begin(t) /\ ~ UmountStart(t)
    <2>1. req'[t].op # "umount"
      <3>1. CASE MountStart(t) \/ CommitStart(t) \/ UnpackStart(t) \/ DeleteStart(t)
        BY <1>2, <3>1 DEF MountStart, CommitStart, UnpackStart, DeleteStart, Start
      <3>2. CASE FetchStart(t) \/ RecordStart(t) \/ LabelStart(t) \/ LookStart(t)
        BY <1>2, <3>2 DEF FetchStart, RecordStart, LabelStart, LookStart, Start
      <3>3. QED
        BY <1>4, <3>1, <3>2 DEF Begin
    <2>2. QED
      BY <2>1 DEF Unmounted
  <1>5. CASE Return(t)
    <2>1. pc'[t] = "idle"
      BY <1>1, <1>5, PartsLead DEF Return
    <2>2. QED
      BY <2>1 DEF Unmounted
  <1>6. Step(t) /\ ~ Return(t) => UNCHANGED req /\ pc[t] # "idle"
    BY StepCalls
  <1>7. CASE Step(t) /\ ~ Return(t) /\ req[t].op # "umount"
    BY <1>6, <1>7 DEF Unmounted
  <1>8. CASE Step(t) /\ ~ Return(t) /\ req[t].op = "umount"
    <2>1. req'[t] = req[t] /\ pc[t] # "idle"
      BY <1>6, <1>8
    <2>2. pc[t] # "return" => \A m \in mounts : m.target # req[t].target
      BY <1>8, <2>1 DEF UmountsInv, Unmounted
    <2>3. CASE RemovalStep(t)
      BY <1>8, <2>3, UmountWalks
    <2>4. CASE UmountLease(t)
      <3>1. /\ pc[t] = "umount_lease" /\ mounts' = mounts
            /\ pc'[t] = "umount_unlease"
        BY <1>1, <2>4, PartsLead DEF UmountLease, At
      <3>2. QED
        BY <2>1, <2>2, <3>1 DEF Unmounted, WalkPart
    <2>5. CASE UmountUnlease(t) /\ Finish(t, TRUE)
      <3>1. pc'[t] = "return" /\ loc'[t].err
        BY <1>1, <2>5, FinishFails
      <3>2. QED
        BY <3>1 DEF Unmounted, WalkPart
    <2>6. CASE UmountUnlease(t) /\ ~ Finish(t, TRUE)
      <3> DEFINE d == IF req[t].rm > 0 THEN req[t].rm - 1 ELSE -1
                 l == [loc[t] EXCEPT !.cur = req[t].name, !.depth = d]
      <3>1. /\ pc[t] = "umount_unlease" /\ mounts' = mounts /\ leases' = leases \ {req[t].name}
            /\ Goto(t, "walk") /\ loc' = [loc EXCEPT ![t] = l]
        BY <2>6 DEF UmountUnlease, At
      <3> HIDE DEF d
      <3>2. pc'[t] = "walk" /\ loc'[t].cur = req[t].name
        BY <1>1, <1>2, <3>1, PartsLead DEF Locals
      <3>3. req[t].name \notin leases'
        BY <3>1
      <3>4. QED
        BY <2>1, <2>2, <3>1, <3>2, <3>3 DEF Unmounted
    <2>7. QED
      BY <1>1, <1>8, <2>3, <2>4, <2>5, <2>6, UmountParts
  <1>9. QED
    BY <1>3, <1>4, <1>5, <1>7, <1>8

LEMMA UmountsStep ==
    ASSUME PrivateUmounts, TInv, IInv, WalksInv, UmountsInv, [Next]_vars
    PROVE  UmountsInv'
  <1>1. ThreadsFit /\ StoreTyped
    BY DEF TInv
  <1>2. CASE \E u \in Threads : Begin(u) \/ Step(u)
    <2>1. PICK u \in Threads : Begin(u) \/ Step(u)
      BY <1>2
    <2>2. ASSUME NEW t \in Threads \ {u}
          PROVE  Unmounted(pc'[t], req'[t], loc'[t], DOMAIN snaps', leases', mounts')
      <3>1. pc'[t] = pc[t] /\ req'[t] = req[t] /\ loc'[t] = loc[t]
        BY <1>1, <2>1, StepApart DEF Apart
      <3>2. Unmounted(pc[t], req[t], loc[t], DOMAIN snaps, leases, mounts)
        BY DEF UmountsInv
      <3>3. CASE pc[t] # "idle" /\ req[t].op = "umount"
        <4> DEFINE n == req[t].name
                   a == req[t].target
        <4>1. req[t] \in Requests[t]
          BY <1>1, <3>3, Busy
        <4>2. /\ n \in {"key"} \X Keys
              /\ \A s \in Requests[u] : s.op = "mount" => s.name # n /\ s.target # a
          BY <3>3, <4>1 DEF PrivateUmounts
        <4>3. n[1] = "key"
          BY <4>2
        <4> HIDE DEF n, a
        <4>4. MakesNone(n, a)
          BY <2>1, <4>2, <4>3, StepMakesNone
        <4>5. QED
          BY <3>1, <3>2, <3>3, <4>4 DEF Unmounted, MakesNone, n, a
      <3>4. QED
        BY <3>1, <3>3 DEF Unmounted
    <2>3. Unmounted(pc'[u], req'[u], loc'[u], DOMAIN snaps', leases', mounts')
      BY <2>1, OwnUmount
    <2>4. QED
      BY <2>2, <2>3 DEF UmountsInv, Unmounted
  <1>3. CASE UserWrite \/ UNCHANGED vars
    <2>1. UNCHANGED <<pc, req, loc, leases, mounts>> /\ DOMAIN snaps' = DOMAIN snaps
      BY <1>3 DEF UserWrite, Written, thread, vars
    <2>2. QED
      BY <2>1 DEF UmountsInv, Unmounted
  <1>4. CASE Kill \/ Reboot \/ \E t \in Threads : MountPanic(t)
    <2>1. \A t \in Threads : pc'[t] = "idle"
      BY <1>4 DEF Kill, Reboot, MountPanic, ProcessEnds
    <2>2. QED
      BY <2>1 DEF UmountsInv, Unmounted
  <1>5. QED
    BY <1>2, <1>3, <1>4 DEF Next

\* An Umount that succeeds leaves nothing mounted on its target and, if it was
\* to remove, neither the lease of the key nor its snapshot, whatever others
\* unpack, commit, delete and unmount meanwhile, as long as they mount neither
\* the key nor on the target.  The snapshot never stays for a child: nothing
\* is built on a key.
THEOREM StoreUmountComplete ==
    ASSUME PrivateUmounts
    PROVE  Spec => []UmountComplete
  <1>1. Init => UmountsInv
    BY DEF Init, UmountsInv, Unmounted
  <1>2. TInv /\ IInv /\ WalksInv /\ UmountsInv /\ [Next]_vars => UmountsInv'
    BY UmountsStep
  <1>3. TInv /\ UmountsInv => UmountComplete
    <2> SUFFICES ASSUME TInv, UmountsInv, NEW t \in Threads, Succeeded(t, "umount")
                 PROVE  /\ \A m \in mounts : m.target # req[t].target
                        /\ req[t].rm # 0 => /\ req[t].name \notin leases
                                            /\ RemoveResult(snaps, req[t].name) # "ok"
      BY DEF UmountComplete
    <2>1. /\ \A m \in mounts : m.target # req[t].target
          /\ req[t].rm # 0 => req[t].name \notin leases \cup DOMAIN snaps
      BY DEF UmountsInv, Unmounted, Succeeded, At
    <2>2. QED
      BY <2>1 DEF RemoveResult
  <1>4. QED
    BY <1>1, <1>2, <1>3, WalksInvariant, PTL DEF Spec

-----------------------------------------------------------------------------
(* The store as a user of the snapshotter.                                 *)

\* A snapshot is committed by one thread, and what is committed is no
\* extraction or view in progress.
SoleCommits ==
    \A t \in Threads : \A r \in Requests[t] :
        r.op = "commit" =>
            /\ r.name \in ChosenNames
            /\ \A u \in Threads \ {t} : \A s \in Requests[u] :
                  s.op = "commit" => s.name # r.name

\* A step makes at most one transaction, and that one as SnapshotTree has it:
\* a creation, a removal or a commit that succeeds, a write to an active
\* snapshot, or an update of labels.
Transacts ==
    \/ UNCHANGED snaps
    \/ \E kind \in {"active", "view"}, n \in Names, p \in Somewhere, label \in Refs \cup {NoRef} :
          /\ n[1] = "extract" => kind = "active"
          /\ CreateResult(snaps, n, p) = "ok"
          /\ snaps' = Created(snaps, kind, n, p, label)
    \/ \E n \in Names : RemoveResult(snaps, n) = "ok" /\ snaps' = Removed(snaps, n)
    \/ \E n \in Names, c \in Names : /\ c[1] = "chain"
                                     /\ CommitResult(snaps, n, c) = "ok"
                                     /\ snaps' = Committed(snaps, n, c, NoRef)
    \/ \E n \in DOMAIN snaps, d \in Layers : /\ snaps[n].kind = "active"
                                             /\ snaps' = Written(snaps, n, d)
    \/ \E n \in DOMAIN snaps, label \in Refs \cup {NoRef} : snaps' = Relabelled(snaps, n, label)

IsRecord(s) == s = [n \in DOMAIN s |-> s[n]]

ExtractsActive == \A n \in DOMAIN snaps : n[1] = "extract" => snaps[n].kind = "active"

\* A commit at p that holds the mounts d writes to the snapshot it was asked to
\* commit, which nobody has committed meanwhile.
CommitHeld(p, r, d, s) ==
    p = "commit_apply" /\ d # Gone => d = r.name /\ s[d].kind # "committed"

CommitsInv ==
    /\ IsRecord(snaps)
    /\ ExtractsActive
    /\ \A t \in Threads : CommitHeld(pc[t], req[t], dir[t], snaps)

\* A transaction that changes the kind of no snapshot that stays.
LEMMA TransactsKinds ==
    ASSUME SnapsTyped(snaps), Transacts, NEW n \in DOMAIN snaps \cap DOMAIN snaps'
    PROVE  snaps'[n].kind = snaps[n].kind
  <1>1. snaps[n] \in Snapshots
    BY DEF SnapsTyped
  <1>2. ASSUME NEW kind, NEW m, NEW p, NEW label, CreateResult(snaps, m, p) = "ok",
               snaps' = Created(snaps, kind, m, p, label)
        PROVE  snaps'[n].kind = snaps[n].kind
    <2>1. m # n
      BY <1>2 DEF CreateResult
    <2>2. QED
      BY <1>2, <2>1 DEF Created, Put
  <1>3. ASSUME NEW m, snaps' = Removed(snaps, m)
        PROVE  snaps'[n].kind = snaps[n].kind
    BY <1>3, RemovedFacts
  <1>4. ASSUME NEW m, NEW c, NEW label, CommitResult(snaps, m, c) = "ok",
               snaps' = Committed(snaps, m, c, label)
        PROVE  snaps'[n].kind = snaps[n].kind
    <2>1. c # n
      BY <1>4 DEF CommitResult
    <2>2. QED
      BY <1>4, <2>1 DEF Committed, Put, Removed, Restrict
  <1>5. ASSUME NEW m, NEW d, snaps' = Written(snaps, m, d)
        PROVE  snaps'[n].kind = snaps[n].kind
    BY <1>1, <1>5 DEF Written, Snapshots
  <1>6. ASSUME NEW m, NEW label, snaps' = Relabelled(snaps, m, label)
        PROVE  snaps'[n].kind = snaps[n].kind
    BY <1>1, <1>6 DEF Relabelled, Snapshots
  <1>7. QED
    BY <1>2, <1>3, <1>4, <1>5, <1>6 DEF Transacts

LEMMA TransactsRecord ==
    ASSUME IsRecord(snaps), Transacts
    PROVE  IsRecord(snaps')
  <1>1. ASSUME NEW s, NEW n, NEW r
        PROVE  IsRecord(Put(s, n, r))
    BY DEF IsRecord, Put
  <1>2. ASSUME NEW n
        PROVE  IsRecord(Removed(snaps, n))
    BY DEF IsRecord, Removed, Restrict
  <1>3. ASSUME NEW n, NEW d
        PROVE  IsRecord(Written(snaps, n, d)) /\ IsRecord(Relabelled(snaps, n, d))
    BY DEF IsRecord, Written, Relabelled
  <1>4. QED
    BY <1>1, <1>2, <1>3 DEF Transacts, Created, Committed

LEMMA TransactsExtracts ==
    ASSUME SnapsTyped(snaps), ExtractsActive, Transacts
    PROVE  ExtractsActive'
  <1> SUFFICES ASSUME NEW n \in DOMAIN snaps', n[1] = "extract"
               PROVE  snaps'[n].kind = "active"
    BY DEF ExtractsActive
  <1>1. CASE n \in DOMAIN snaps
    BY <1>1, TransactsKinds DEF ExtractsActive
  <1>2. CASE n \notin DOMAIN snaps
    <2>1. ASSUME NEW kind, NEW m, NEW p, NEW label, m[1] = "extract" => kind = "active",
                 snaps' = Created(snaps, kind, m, p, label)
          PROVE  snaps'[n].kind = "active"
      <3>1. n = m /\ kind = "active"
        BY <1>2, <2>1 DEF Created, Put
      <3>2. QED
        BY <2>1, <3>1 DEF Created, Put
    <2>2. ASSUME NEW m, NEW c, c[1] = "chain", snaps' = Committed(snaps, m, c, NoRef)
          PROVE  FALSE
      <3>1. n = c
        BY <1>2, <2>2 DEF Committed, Put, Removed, Restrict
      <3>2. QED
        BY <2>2, <3>1
    <2>3. \A m : snaps' # Removed(snaps, m)
      BY <1>2, RemovedFacts
    <2>4. \A m, d : snaps' # Written(snaps, m, d) /\ snaps' # Relabelled(snaps, m, d)
      BY <1>2 DEF Written, Relabelled
    <2>5. QED
      BY <1>2, <2>1, <2>2, <2>3, <2>4 DEF Transacts
  <1>3. QED
    BY <1>1, <1>2

-----------------------------------------------------------------------------

LEMMA CreationTransacts ==
    ASSUME NEW kind \in {"active", "view"}, NEW n \in Names, NEW p \in Somewhere,
           NEW label \in Refs \cup {NoRef}, n[1] = "extract" => kind = "active",
           CreateResult(snaps, n, p) = "ok", snaps' = Created(snaps, kind, n, p, label)
    PROVE  Transacts
  BY DEF Transacts

LEMMA RemovalTransacts ==
    ASSUME StoreTyped, NEW n, RemoveResult(snaps, n) = "ok", RemoveSnapshot(n)
    PROVE  Transacts
  <1>1. n \in Names
    BY DEF RemoveResult, StoreTyped, SnapsTyped
  <1>2. QED
    BY <1>1 DEF RemoveSnapshot, Transacts

\* The clean-up that does not look whether there is anything to remove.
LEMMA TempTransacts ==
    ASSUME StoreTyped, IInv, IsRecord(snaps), NEW kind \in TempKinds, NEW t,
           RemoveSnapshot(Temp(kind, t))
    PROVE  Transacts
  <1> DEFINE n == Temp(kind, t)
  <1>1. ~ IsCommitted(snaps, n) /\ n # NoParent
    BY TempUncommitted, NoParentAssumption DEF Temp, TempKinds, Chain
  <1>2. snaps' = Removed(snaps, n) /\ RemoveSnapshot(n)
    BY DEF RemoveSnapshot
  <1> HIDE DEF n
  <1>3. ~ HasChild(snaps, n)
    BY <1>1 DEF HasChild, IInv, IInvIn, ParentsCommittedIn
  <1>4. CASE n \in DOMAIN snaps
    <2>1. RemoveResult(snaps, n) = "ok"
      BY <1>3, <1>4 DEF RemoveResult
    <2>2. QED
      BY <1>2, <2>1, RemovalTransacts
  <1>5. CASE n \notin DOMAIN snaps
    <2>1. DOMAIN snaps \ {n} = DOMAIN snaps
      BY <1>5
    <2>2. snaps' = snaps
      BY <1>2, <2>1 DEF Removed, Restrict, IsRecord
    <2>3. QED
      BY <2>2 DEF Transacts
  <1>6. QED
    BY <1>4, <1>5

LEMMA CommittalTransacts ==
    ASSUME StoreTyped, NEW n, NEW c \in Names, c[1] = "chain",
           CommitResult(snaps, n, c) = "ok", CommitSnapshot(n, c)
    PROVE  Transacts
  <1>1. n \in Names
    BY DEF CommitResult, StoreTyped, SnapsTyped
  <1>2. QED
    BY <1>1 DEF CommitSnapshot, Transacts

LEMMA WriteTransacts ==
    ASSUME IsRecord(snaps), NEW n, NEW d \in Layers, snaps' = Written(snaps, n, d),
           n \in DOMAIN snaps => snaps[n].kind = "active"
    PROVE  Transacts
  <1>1. CASE n \notin DOMAIN snaps
    <2>1. snaps' = snaps
      BY <1>1 DEF Written, IsRecord
    <2>2. QED
      BY <2>1 DEF Transacts
  <1>2. QED
    BY <1>1 DEF Transacts

LEMMA StepTransacts ==
    ASSUME SoleCommits, TInv, IInv, CommitsInv, NEW t \in Threads, Begin(t) \/ Step(t)
    PROVE  Transacts
  <1>1. ThreadsFit /\ StoreTyped /\ SnapsTyped(snaps) /\ IsRecord(snaps)
    BY DEF TInv, StoreTyped, CommitsInv
  <1>2. UNCHANGED snaps => Transacts
    BY DEF Transacts
  <1>3. /\ "active" \in {"active", "view"} /\ "view" \in {"active", "view"}
        /\ NoRef \in Refs \cup {NoRef}
    OBVIOUS
  <1>4. CASE Begin(t)
    BY <1>2, <1>4 DEF Begin, MountStart, UmountStart, CommitStart, FetchStart, RecordStart,
                      UnpackStart, DeleteStart, LabelStart, LookStart, store
  <1>5. CASE UnpackStep(t)
    <2>1. pc[t] \in LayerPart => /\ loc[t].chain[loc[t].i] \in Layers
                                 /\ Below(t) \in Somewhere
                                 /\ UpTo(t) \in Names /\ UpTo(t)[1] = "chain"
      <3> SUFFICES ASSUME pc[t] \in LayerPart
                   PROVE  /\ loc[t].chain[loc[t].i] \in Layers
                          /\ Below(t) \in Somewhere
                          /\ UpTo(t) \in Names /\ UpTo(t)[1] = "chain"
        OBVIOUS
      <3>1. pc[t] # "idle"
        BY DEF LayerPart
      <3>2. loc[t].chain \in Seq(Layers) /\ loc[t].i \in 1..Len(loc[t].chain)
        BY <1>1, <3>1, Busy DEF Works, Locals
      <3>3. UpTo(t)[1] = "chain"
        BY DEF UpTo, Chain
      <3>4. QED
        BY <3>2, <3>3, LayerFacts, NameFacts DEF Below, UpTo
    <2>2. Extract(t) \in Names /\ Extract(t)[1] = "extract"
      BY <1>1, TempNames DEF Extract, Temp
    <2>3. CASE CheckUnpacked(t)
      BY <1>2, <2>3 DEF CheckUnpacked, store
    <2>4. CASE PrepareLayer(t)
      <3>1. Below(t) \in Somewhere
        BY <2>1, <2>4 DEF PrepareLayer, At, LayerPart
      <3>2. \/ UNCHANGED snaps
            \/ /\ CreateResult(snaps, Extract(t), Below(t)) = "ok"
               /\ snaps' = Created(snaps, "active", Extract(t), Below(t), NoRef)
        BY <2>4 DEF PrepareLayer
      <3>3. QED
        BY <1>2, <1>3, <2>2, <3>1, <3>2, CreationTransacts
    <2>5. CASE ApplyLayer(t)
      <3>1. loc[t].chain[loc[t].i] \in Layers
        BY <2>1, <2>5 DEF ApplyLayer, At, LayerPart
      <3>2. \/ UNCHANGED snaps
            \/ snaps' = Written(snaps, Extract(t), loc[t].chain[loc[t].i])
        BY <2>5 DEF ApplyLayer
      <3>3. Extract(t) \in DOMAIN snaps => snaps[Extract(t)].kind = "active"
        BY <2>2 DEF CommitsInv, ExtractsActive
      <3>4. QED
        BY <1>1, <1>2, <3>1, <3>2, <3>3, WriteTransacts
    <2>6. CASE CommitLayer(t)
      <3>1. UpTo(t) \in Names /\ UpTo(t)[1] = "chain"
        BY <2>1, <2>6 DEF CommitLayer, At, LayerPart
      <3>2. \/ UNCHANGED snaps
            \/ /\ CommitResult(snaps, Extract(t), UpTo(t)) = "ok"
               /\ CommitSnapshot(Extract(t), UpTo(t))
        BY <2>6 DEF CommitLayer
      <3>3. QED
        BY <1>1, <1>2, <3>1, <3>2, CommittalTransacts
    <2>7. CASE AbortLayer(t)
      <3>1. \/ UNCHANGED snaps
            \/ RemoveSnapshot(Extract(t))
        BY <2>7 DEF AbortLayer
      <3>2. QED
        BY <1>1, <1>2, <3>1, TempTransacts DEF Extract, TempKinds
    <2>8. QED
      BY <1>5, <2>3, <2>4, <2>5, <2>6, <2>7 DEF UnpackStep
  <1>6. CASE RemovalStep(t)
    <2>1. CASE StatLink(t)
      BY <1>2, <2>1 DEF StatLink, store
    <2>2. CASE RemoveLink(t)
      BY <1>1, <1>2, <2>2, RemovalTransacts DEF RemoveLink
    <2>3. QED
      BY <1>6, <2>1, <2>2 DEF RemovalStep
  <1>7. CASE MountStep(t)
    <2>1. CASE MountCreate(t)
      <3> DEFINE kind == IF req[t].ro THEN "view" ELSE "active"
                 n == req[t].name
                 p == Chain(loc[t].chain)
                 label == req[t].ref
      <3>1. pc[t] = "mount_create" /\ pc[t] # "idle"
        BY <2>1 DEF MountCreate, At
      <3>2. req[t].op = "mount" /\ req[t] \in Requests[t] /\ loc[t].chain \in Seq(Layers)
        BY <1>1, <3>1, Busy DEF Reaches, MountPart, Locals
      <3>3. n \in ChosenNames /\ label \in Refs \cup {NoRef} /\ p \in Somewhere
        BY <3>2, CallFacts, NameFacts
      <3>4. n \in Names /\ n[1] # "extract"
        BY <3>3 DEF Names, ChosenNames
      <3>5. kind \in {"active", "view"}
        OBVIOUS
      <3>6. \/ UNCHANGED snaps
            \/ /\ CreateResult(snaps, n, p) = "ok"
               /\ snaps' = Created(snaps, kind, n, p, label)
        BY <2>1 DEF MountCreate
      <3> HIDE DEF kind, n, p, label
      <3>7. QED
        BY <1>2, <3>3, <3>4, <3>5, <3>6, CreationTransacts
    <2>2. CASE MountUndo(t)
      BY <1>1, <1>2, <2>2, RemovalTransacts DEF MountUndo
    <2>3. CASE \/ MountLease(t) \/ MountExisting(t) \/ MountAll(t)
               \/ MountFailed(t) \/ UmountLease(t) \/ UmountUnlease(t)
      BY <1>2, <2>3 DEF MountLease, MountExisting, MountAll, MountFailed, UmountLease,
                        UmountUnlease, store
    <2>4. QED
      BY <1>7, <2>1, <2>2, <2>3 DEF MountStep
  <1>8. CASE CommitStep(t)
    <2>1. pc[t] \in DiffPart \cup CommitPart =>
             /\ req[t].name \in Names /\ loc[t] \in Locals
             /\ pc[t] \in CommitPart => loc[t].chain # << >>
      <3>1. pc[t] \in DiffPart \cup CommitPart => pc[t] # "idle"
        BY DEF DiffPart, CommitPart
      <3>2. pc[t] \in DiffPart \cup CommitPart =>
               /\ req[t].op = "commit" /\ loc[t] \in Locals
               /\ pc[t] \in CommitPart => loc[t].chain # << >>
        BY <1>1, <3>1, Busy DEF Reaches, Works
      <3>3. QED
        BY <1>1, <3>1, <3>2, CalledName
    <2>2. /\ Lower(t) \in Names /\ Lower(t)[1] # "extract"
          /\ Upper(t) \in Names /\ Upper(t)[1] # "extract"
      BY <1>1, TempNames DEF Lower, Upper, Temp
    <2>3. CASE DiffLower(t)
      <3>1. loc[t].par \in Somewhere
        BY <2>1, <2>3 DEF DiffLower, At, DiffPart, Locals
      <3>2. \/ UNCHANGED snaps
            \/ /\ CreateResult(snaps, Lower(t), loc[t].par) = "ok"
               /\ snaps' = Created(snaps, "view", Lower(t), loc[t].par, NoRef)
        BY <2>3 DEF DiffLower
      <3>3. QED
        BY <1>2, <1>3, <2>2, <3>1, <3>2, CreationTransacts
    <2>4. CASE DiffView(t)
      <3>1. req[t].name \in Somewhere
        BY <2>1, <2>4 DEF DiffView, At, DiffPart, Somewhere
      <3>2. \/ UNCHANGED snaps
            \/ /\ CreateResult(snaps, Upper(t), req[t].name) = "ok"
               /\ snaps' = Created(snaps, "view", Upper(t), req[t].name, NoRef)
        BY <2>4 DEF DiffView
      <3>3. QED
        BY <1>2, <1>3, <2>2, <3>1, <3>2, CreationTransacts
    <2>5. CASE CleanUpper(t)
      <3>1. \/ UNCHANGED snaps
            \/ RemoveSnapshot(Upper(t))
        BY <2>5 DEF CleanUpper
      <3>2. QED
        BY <1>1, <1>2, <3>1, TempTransacts DEF Upper, TempKinds
    <2>6. CASE CleanLower(t)
      <3>1. \/ UNCHANGED snaps
            \/ RemoveSnapshot(Lower(t))
        BY <2>6 DEF CleanLower
      <3>2. QED
        BY <1>1, <1>2, <3>1, TempTransacts DEF Lower, TempKinds
    <2>7. CASE CommitApply(t)
      <3>1. pc[t] = "commit_apply"
        BY <2>7 DEF CommitApply, At
      <3>2. loc[t].layer \in Layers
        BY <2>1, <3>1 DEF CommitPart, Locals
      <3>3. \/ UNCHANGED snaps
            \/ /\ dir[t] # Gone /\ snaps[dir[t]].kind # "view"
               /\ snaps' = Written(snaps, dir[t], loc[t].layer)
        BY <2>7 DEF CommitApply
      <3>4. ASSUME dir[t] # Gone, snaps[dir[t]].kind # "view"
            PROVE  snaps[dir[t]].kind = "active"
        <4>1. snaps[dir[t]].kind # "committed"
          BY <3>1, <3>4 DEF CommitsInv, CommitHeld
        <4>2. snaps[dir[t]].kind \in Kinds
          BY <1>1, <3>4 DEF StoreTyped, MountsFollow, SnapsTyped, Snapshots
        <4>3. QED
          BY <3>4, <4>1, <4>2 DEF Kinds
      <3>5. QED
        BY <1>1, <1>2, <3>2, <3>3, <3>4, WriteTransacts
    <2>8. CASE CommitActive(t)
      <3> DEFINE c == Chain(loc[t].chain)
      <3>1. c \in Names /\ c[1] = "chain"
        BY <2>1, <2>8, NameFacts DEF CommitActive, At, CommitPart, Locals, Chains, Chain
      <3>2. \/ UNCHANGED snaps
            \/ CommitResult(snaps, req[t].name, c) = "ok" /\ CommitSnapshot(req[t].name, c)
        BY <2>8 DEF CommitActive
      <3> HIDE DEF c
      <3>3. QED
        BY <1>1, <1>2, <3>1, <3>2, CommittalTransacts
    <2>9. CASE \/ CommitStat(t) \/ CommitBase(t) \/ DiffStat(t) \/ DiffMounts(t) \/ Compare(t)
               \/ CommitMounts(t) \/ CommitManifest(t) \/ CommitConfig(t)
      BY <1>2, <2>9 DEF CommitStat, CommitBase, DiffStat, DiffMounts, Compare, CommitMounts,
                        CommitManifest, CommitConfig, WriteBlob, store
    <2>10. QED
      BY <1>8, <2>3, <2>4, <2>5, <2>6, <2>7, <2>8, <2>9 DEF CommitStep
  <1>9. CASE ImageStep(t) \/ ImportStep(t) \/ Return(t)
    BY <1>2, <1>9 DEF ImageStep, FetchManifest, FetchChildren, PutUpdate, PutCreate, DeleteGet,
                      DeleteCheck, DeleteImage, ImportStep, Unpacked, Deleted, Undone, Return,
                      store
  <1>10. CASE LabelStep(t)
    <2>1. CASE LabelWrite(t)
      <3>1. pc[t] = "label_write" /\ pc[t] # "idle"
        BY <2>1 DEF LabelWrite, At
      <3>2. /\ req[t] \in Requests[t] /\ loc[t].ref \in Refs \cup {NoRef}
            /\ req[t].op \in {"label", "update_labels"}
        BY <1>1, <3>1, Busy DEF Locals, Reaches
      <3>3. \A label \in NewLabels(t) : label \in Refs \cup {NoRef}
        BY <3>2, CallFacts DEF NewLabels
      <3>4. \/ UNCHANGED snaps
            \/ /\ req[t].name \in DOMAIN snaps
               /\ \E label \in NewLabels(t) : snaps' = Relabelled(snaps, req[t].name, label)
        BY <2>1 DEF LabelWrite
      <3>5. QED
        BY <1>2, <3>3, <3>4 DEF Transacts
    <2>2. CASE LabelStat(t) \/ Look(t)
      BY <1>2, <2>2 DEF LabelStat, Look, store
    <2>3. QED
      BY <1>10, <2>1, <2>2 DEF LabelStep
  <1>11. QED
    BY <1>4, <1>5, <1>6, <1>7, <1>8, <1>9, <1>10 DEF Step

LEMMA NextTransacts ==
    ASSUME SoleCommits, ~ LiveWrites, TInv, IInv, CommitsInv, [Next]_vars
    PROVE  Transacts
  <1>1. CASE UserWrite
    <2>1. PICK m \in mounts, x \in UserChanges :
             /\ snaps[m.snap].kind = "active"
             /\ snaps' = Written(snaps, m.snap, {x})
      BY <1>1 DEF UserWrite
    <2>2. {x} \in Layers
      BY <2>1, UserAssumption DEF Layers
    <2>3. QED
      BY <2>1, <2>2, WriteTransacts DEF CommitsInv
  <1>2. CASE \E t \in Threads : Begin(t) \/ Step(t)
    BY <1>2, StepTransacts
  <1>3. CASE UNCHANGED snaps
    BY <1>3 DEF Transacts
  <1>4. QED
    BY <1>1, <1>2, <1>3 DEF Next, MountPanic, Kill, Reboot, ProcessEnds, vars

-----------------------------------------------------------------------------

\* A step of u leaves the hold of another call on n alone, or takes it away.
LEMMA StepLetsGo ==
    ASSUME TInv, NEW u \in Threads, Begin(u) \/ Step(u), NEW n \in ChosenNames,
           \A s \in Requests[u] : s.op = "commit" => s.name # n,
           NEW t \in Threads \ {u}, dir[t] \in {Gone, n}
    PROVE  dir'[t] \in {Gone, dir[t]}
  <1>1. ThreadsFit /\ StoreTyped /\ dir = [v \in Threads |-> dir[v]]
    BY DEF TInv, StoreTyped, MountsFollow
  <1>2. n[1] # "extract"
    BY DEF ChosenNames
  <1>3. ASSUME \/ UNCHANGED dir
               \/ \E d : dir' = [dir EXCEPT ![u] = d]
               \/ \E m : RemoveSnapshot(m)
               \/ \E m, c : CommitSnapshot(m, c) /\ m # n /\ m # Gone
        PROVE  dir'[t] \in {Gone, dir[t]}
    BY <1>1, <1>3 DEF RemoveSnapshot, CommitSnapshot
  <1>4. CASE Begin(u)
    BY <1>3, <1>4 DEF Begin, MountStart, UmountStart, CommitStart, FetchStart, RecordStart,
                      UnpackStart, DeleteStart, LabelStart, LookStart
  <1>5. CASE UnpackStep(u)
    <2>1. Extract(u) \in Names
      BY <1>1, TempNames DEF Extract
    <2>2. Extract(u)[1] = "extract"
      BY DEF Extract, Temp
    <2>3. Extract(u) # n /\ Extract(u) # Gone
      BY <1>2, <2>1, <2>2, GoneAssumption
    <2>4. CASE CommitLayer(u)
      BY <1>3, <2>3, <2>4 DEF CommitLayer
    <2>5. CASE AbortLayer(u)
      BY <1>3, <2>5 DEF AbortLayer
    <2>6. QED
      BY <1>3, <1>5, <2>4, <2>5 DEF UnpackStep, CheckUnpacked, PrepareLayer, ApplyLayer
  <1>6. CASE RemovalStep(u)
    BY <1>3, <1>6 DEF RemovalStep, StatLink, RemoveLink
  <1>7. CASE MountStep(u)
    <2>1. CASE MountUndo(u)
      BY <1>3, <2>1 DEF MountUndo
    <2>2. QED
      BY <1>3, <1>7, <2>1 DEF MountStep, MountLease, MountCreate, MountExisting, MountAll,
                              MountFailed, UmountLease, UmountUnlease
  <1>8. CASE CommitStep(u)
    <2>1. CASE CommitActive(u)
      <3>1. pc[u] = "commit_snapshot" /\ pc[u] # "idle"
        BY <2>1 DEF CommitActive, At
      <3>2. req[u].op = "commit" /\ req[u] \in Requests[u]
        BY <1>1, <3>1, Busy DEF Reaches, CommitPart
      <3>3. req[u].name # n /\ req[u].name # Gone
        BY <1>1, <3>1, <3>2, CalledName, GoneAssumption
      <3>4. QED
        BY <1>3, <2>1, <3>3 DEF CommitActive
    <2>2. CASE CleanUpper(u) \/ CleanLower(u)
      BY <1>3, <2>2 DEF CleanUpper, CleanLower
    <2>3. CASE DiffMounts(u) \/ DiffView(u) \/ CommitMounts(u)
      BY <1>3, <2>3 DEF DiffMounts, DiffView, CommitMounts
    <2>4. CASE \/ CommitStat(u) \/ CommitBase(u) \/ DiffStat(u) \/ DiffLower(u) \/ Compare(u)
               \/ CommitApply(u) \/ CommitManifest(u) \/ CommitConfig(u)
      BY <1>3, <2>4 DEF CommitStat, CommitBase, DiffStat, DiffLower, Compare, CommitApply,
                        CommitManifest, CommitConfig, WriteBlob
    <2>5. QED
      BY <1>8, <2>1, <2>2, <2>3, <2>4 DEF CommitStep
  <1>9. CASE ImageStep(u) \/ ImportStep(u) \/ LabelStep(u)
    BY <1>3, <1>9 DEF ImageStep, FetchManifest, FetchChildren, PutUpdate, PutCreate, DeleteGet,
                      DeleteCheck, DeleteImage, ImportStep, Unpacked, Deleted, Undone,
                      LabelStep, LabelStat, LabelWrite, Look
  <1>10. CASE Return(u)
    BY <1>3, <1>10 DEF Return
  <1>11. QED
    BY <1>4, <1>5, <1>6, <1>7, <1>8, <1>9, <1>10 DEF Step

-----------------------------------------------------------------------------

\* Commit gets to the application of the changes with the mounts of the
\* snapshot it was asked for.
LEMMA LeadsToApply ==
    ASSUME ThreadsFit, NEW t \in Threads, Begin(t) \/ Step(t), pc'[t] = "commit_apply"
    PROVE  CommitMounts(t) /\ MountsResult(snaps, req[t].name) = "ok"
  <1>1. ~ Begin(t)
    BY BeginLeads
  <1>2. ~ UnpackStep(t)
    BY UnpackLeads DEF UnpackPart, LayerPart
  <1>3. ~ RemovalStep(t)
    BY RemovalLeads DEF WalkPart
  <1>4. ~ MountStep(t)
    BY MountLeads DEF MountPart
  <1>5. ~ ImportStep(t) /\ ~ LabelStep(t) /\ ~ Return(t)
    BY ImportLeads, LabelLeads, PartsLead DEF Return
  <1>6. ~ ImageStep(t)
    <2>1. ~ DeleteCheck(t)
      BY PartsLead DEF DeleteCheck, At
    <2>2. QED
      BY <2>1, ImageLeads DEF PutPart
  <1>7. CommitStep(t)
    BY <1>1, <1>2, <1>3, <1>4, <1>5, <1>6 DEF Step
  <1>8. ~ CommitStat(t) /\ ~ CommitBase(t) /\ ~ DiffStat(t)
    BY PartsLead DEF CommitStat, CommitBase, DiffStat
  <1>9. ~ DiffLower(t)
    <2> SUFFICES ASSUME DiffLower(t)
                 PROVE  FALSE
      OBVIOUS
    <2>1. pc[t] = "diff_lower"
      BY DEF DiffLower, At
    <2>2. loc[t].next \in {"diff_mounts", "diff_view"}
      BY <2>1, Busy DEF Follows
    <2>3. QED
      BY <2>2, PartsLead DEF DiffLower
  <1>10. ~ DiffMounts(t) /\ ~ DiffView(t)
    BY PartsLead DEF DiffMounts, DiffView, DiffFail
  <1>11. ~ Compare(t) /\ ~ CleanUpper(t) /\ ~ CleanLower(t)
    BY PartsLead DEF Compare, CleanUpper, CleanLower, DiffFail
  <1>12. ~ CommitApply(t) /\ ~ CommitActive(t)
    BY PartsLead DEF CommitApply, CommitActive
  <1>13. ~ CommitManifest(t) /\ ~ CommitConfig(t)
    BY PartsLead DEF CommitManifest, CommitConfig, WriteBlob
  <1>14. CommitMounts(t)
    BY <1>7, <1>8, <1>9, <1>10, <1>11, <1>12, <1>13 DEF CommitStep
  <1>15. QED
    BY <1>14, PartsLead DEF CommitMounts

LEMMA OwnCommitHeld ==
    ASSUME TInv, NEW t \in Threads, Begin(t) \/ Step(t)
    PROVE  CommitHeld(pc'[t], req'[t], dir'[t], snaps')
  <1> SUFFICES ASSUME pc'[t] = "commit_apply"
               PROVE  dir'[t] = req'[t].name /\ snaps'[dir'[t]].kind # "committed"
    BY DEF CommitHeld
  <1>1. ThreadsFit /\ dir = [u \in Threads |-> dir[u]]
    BY DEF TInv, StoreTyped, MountsFollow
  <1>2. CommitMounts(t) /\ MountsResult(snaps, req[t].name) = "ok"
    BY <1>1, LeadsToApply
  <1>3. UNCHANGED <<snaps, req>> /\ dir' = [dir EXCEPT ![t] = req[t].name]
    BY <1>2 DEF CommitMounts, store
  <1>4. dir'[t] = req[t].name
    BY <1>1, <1>3
  <1>5. snaps[req[t].name].kind # "committed"
    BY <1>2 DEF MountsResult
  <1>6. QED
    BY <1>3, <1>4, <1>5

\* Another call's step commits neither the snapshot that t is committing nor
\* the one whose directories t holds.
LEMMA OtherCommitHeld ==
    ASSUME SoleCommits, TInv, TInv', Transacts, CommitsInv,
           NEW u \in Threads, Begin(u) \/ Step(u), NEW t \in Threads \ {u}
    PROVE  CommitHeld(pc'[t], req'[t], dir'[t], snaps')
  <1>1. ThreadsFit /\ SnapsTyped(snaps) /\ MountsFollow(snaps, mounts, dir)
        /\ MountsFollow(snaps', mounts', dir')
    BY DEF TInv, StoreTyped
  <1>2. pc'[t] = pc[t] /\ req'[t] = req[t]
    BY <1>1, StepApart DEF Apart
  <1> SUFFICES ASSUME pc[t] = "commit_apply", dir'[t] # Gone
               PROVE  dir'[t] = req[t].name /\ snaps'[dir'[t]].kind # "committed"
    BY <1>2 DEF CommitHeld
  <1> DEFINE n == req[t].name
  <1>3. req[t].op = "commit" /\ req[t] \in Requests[t]
    BY <1>1, Busy DEF Reaches, CommitPart
  <1>4. n \in ChosenNames /\ \A s \in Requests[u] : s.op = "commit" => s.name # n
    BY <1>3 DEF SoleCommits
  <1>5. dir[t] = Gone \/ (dir[t] = n /\ snaps[n].kind # "committed")
    BY DEF CommitsInv, CommitHeld
  <1> HIDE DEF n
  <1>6. dir'[t] \in {Gone, dir[t]}
    BY <1>4, <1>5, StepLetsGo
  <1>7. dir'[t] = n /\ dir[t] = n /\ snaps[n].kind # "committed"
    BY <1>5, <1>6
  <1>8. n \in DOMAIN snaps /\ n \in DOMAIN snaps'
    BY <1>1, <1>7 DEF MountsFollow
  <1>9. snaps'[n].kind = snaps[n].kind
    BY <1>1, <1>8, TransactsKinds
  <1>10. QED
    BY <1>7, <1>9 DEF n

LEMMA CommitsStep ==
    ASSUME SoleCommits, ~ LiveWrites, TInv, TInv', IInv, CommitsInv, [Next]_vars
    PROVE  CommitsInv'
  <1>1. Transacts /\ SnapsTyped(snaps)
    BY NextTransacts DEF TInv, StoreTyped
  <1>2. IsRecord(snaps') /\ ExtractsActive'
    BY <1>1, TransactsRecord, TransactsExtracts DEF CommitsInv
  <1>3. ASSUME NEW u \in Threads, Begin(u) \/ Step(u), NEW t \in Threads
        PROVE  CommitHeld(pc'[t], req'[t], dir'[t], snaps')
    BY <1>1, <1>3, OwnCommitHeld, OtherCommitHeld
  <1>4. ASSUME UNCHANGED <<pc, req, dir>>, NEW t \in Threads
        PROVE  CommitHeld(pc'[t], req'[t], dir'[t], snaps')
    <2> SUFFICES ASSUME pc[t] = "commit_apply", dir[t] # Gone
                 PROVE  dir[t] = req[t].name /\ snaps'[dir[t]].kind # "committed"
      BY <1>4 DEF CommitHeld
    <2>1. dir[t] = req[t].name /\ snaps[dir[t]].kind # "committed"
      BY DEF CommitsInv, CommitHeld
    <2>2. dir[t] \in DOMAIN snaps
      BY DEF TInv, StoreTyped, MountsFollow
    <2>3. dir[t] \in DOMAIN snaps'
      BY <1>4 DEF TInv, StoreTyped, MountsFollow
    <2>4. QED
      BY <1>1, <2>1, <2>2, <2>3, TransactsKinds
  <1>5. ASSUME ProcessEnds, NEW t \in Threads
        PROVE  CommitHeld(pc'[t], req'[t], dir'[t], snaps')
    BY <1>5 DEF ProcessEnds, CommitHeld
  <1>6. \A t \in Threads : CommitHeld(pc'[t], req'[t], dir'[t], snaps')
    BY <1>3, <1>4, <1>5 DEF Next, MountPanic, Kill, Reboot, UserWrite, thread, vars
  <1>7. QED
    BY <1>2, <1>6 DEF CommitsInv

-----------------------------------------------------------------------------
(* The store implements SnapshotTree.                                      *)

\* SnapshotTree over all the names the store may use.
StoreTree == INSTANCE SnapshotTree WITH Labels <- Refs, NoLabel <- NoRef

\* The transactions are those of SnapshotTree.
LEMMA SameTransactions ==
    ASSUME NEW s, NEW n, NEW p, NEW c, NEW kind, NEW label, NEW d
    PROVE  /\ StoreTree!CreateResult(s, n, p) = CreateResult(s, n, p)
           /\ StoreTree!Created(s, kind, n, p, label) = Created(s, kind, n, p, label)
           /\ StoreTree!RemoveResult(s, n) = RemoveResult(s, n)
           /\ StoreTree!Removed(s, n) = Removed(s, n)
           /\ StoreTree!CommitResult(s, n, c) = CommitResult(s, n, c)
           /\ StoreTree!Committed(s, n, c, label) = Committed(s, n, c, label)
           /\ StoreTree!Written(s, n, d) = Written(s, n, d)
           /\ StoreTree!Relabelled(s, n, label) = Relabelled(s, n, label)
  <1>1. StoreTree!CreateResult(s, n, p) = CreateResult(s, n, p)
    BY DEF StoreTree!CreateResult, CreateResult
  <1>2. StoreTree!Created(s, kind, n, p, label) = Created(s, kind, n, p, label)
    BY DEF StoreTree!Created, Created, StoreTree!Put, Put
  <1>3. StoreTree!RemoveResult(s, n) = RemoveResult(s, n)
    BY DEF StoreTree!RemoveResult, RemoveResult, StoreTree!HasChild, HasChild
  <1>4. StoreTree!Removed(s, n) = Removed(s, n)
    BY DEF StoreTree!Removed, Removed, StoreTree!Restrict, Restrict
  <1>5. StoreTree!CommitResult(s, n, c) = CommitResult(s, n, c)
    BY DEF StoreTree!CommitResult, CommitResult
  <1>6. StoreTree!Committed(s, n, c, label) = Committed(s, n, c, label)
    BY <1>4 DEF StoreTree!Committed, Committed, StoreTree!Put, Put
  <1>7. StoreTree!Written(s, n, d) = Written(s, n, d)
    BY DEF StoreTree!Written, Written
  <1>8. StoreTree!Relabelled(s, n, label) = Relabelled(s, n, label)
    BY DEF StoreTree!Relabelled, Relabelled
  <1>9. QED
    BY <1>1, <1>2, <1>3, <1>4, <1>5, <1>6, <1>7, <1>8

LEMMA TransactsTree ==
    ASSUME SnapsTyped(snaps), Transacts
    PROVE  [StoreTree!Next]_snaps
  <1>1. ASSUME NEW kind \in {"active", "view"}, NEW n \in Names, NEW p \in Somewhere,
               NEW label \in Refs \cup {NoRef},
               CreateResult(snaps, n, p) = "ok", snaps' = Created(snaps, kind, n, p, label)
        PROVE  StoreTree!Next
    <2>1. StoreTree!Create(kind, n, p, label)
      BY <1>1, SameTransactions DEF StoreTree!Create
    <2>2. QED
      BY <2>1 DEF StoreTree!Next, Somewhere
  <1>2. ASSUME NEW n \in Names, RemoveResult(snaps, n) = "ok", snaps' = Removed(snaps, n)
        PROVE  StoreTree!Next
    <2>1. StoreTree!Remove(n)
      BY <1>2, SameTransactions DEF StoreTree!Remove
    <2>2. QED
      BY <2>1 DEF StoreTree!Next
  <1>3. ASSUME NEW n \in Names, NEW c \in Names, CommitResult(snaps, n, c) = "ok",
               snaps' = Committed(snaps, n, c, NoRef)
        PROVE  StoreTree!Next
    <2>1. StoreTree!Commit(n, c, NoRef)
      BY <1>3, SameTransactions DEF StoreTree!Commit
    <2>2. QED
      BY <2>1 DEF StoreTree!Next
  <1>4. ASSUME NEW n \in DOMAIN snaps, NEW d \in Layers, snaps[n].kind = "active",
               snaps' = Written(snaps, n, d)
        PROVE  StoreTree!Next
    <2>1. StoreTree!Write(n, d)
      BY <1>4, SameTransactions DEF StoreTree!Write
    <2>2. n \in Names
      BY DEF SnapsTyped
    <2>3. QED
      BY <2>1, <2>2 DEF StoreTree!Next, Layers
  <1>5. ASSUME NEW n \in DOMAIN snaps, NEW label \in Refs \cup {NoRef},
               snaps' = Relabelled(snaps, n, label)
        PROVE  StoreTree!Next
    <2>1. StoreTree!Update(n, label)
      BY <1>5, SameTransactions DEF StoreTree!Update
    <2>2. n \in Names
      BY DEF SnapsTyped
    <2>3. QED
      BY <2>1, <2>2 DEF StoreTree!Next
  <1>6. QED
    BY <1>1, <1>2, <1>3, <1>4, <1>5 DEF Transacts

LEMMA CommitsInvariant ==
    ASSUME SoleCommits, ~ LiveWrites
    PROVE  Spec => [](TInv /\ IInv /\ CommitsInv)
  <1>1. Init => CommitsInv
    <2> SUFFICES ASSUME Init
                 PROVE  CommitsInv
      OBVIOUS
    <2>1. IsRecord(snaps) /\ ExtractsActive
      BY DEF Init, IsRecord, ExtractsActive
    <2>2. \A t \in Threads : pc[t] = "idle"
      BY DEF Init
    <2>3. QED
      BY <2>1, <2>2 DEF CommitsInv, CommitHeld
  <1>2. TInv /\ TInv' /\ IInv /\ CommitsInv /\ [Next]_vars => CommitsInv'
    BY CommitsStep
  <1>3. QED
    BY <1>1, <1>2, WalksInvariant, PTL DEF Spec

\* The store uses its snapshotter as SnapshotTree says it works: every step of
\* every call, crashes and clean-ups included, is one creation, removal,
\* commit, write or relabelling that succeeds, or changes no snapshot.  In
\* particular the unconditional clean-ups of Unpack and Diff remove what has
\* no child, and nothing but an active snapshot is ever written.
THEOREM StoreImplements ==
    ASSUME SoleCommits, ~ LiveWrites
    PROVE  Spec => StoreTree!Spec
  <1>1. Init => StoreTree!Init
    BY DEF Init, StoreTree!Init
  <1>2. TInv /\ IInv /\ CommitsInv /\ [Next]_vars => [StoreTree!Next]_snaps
    <2> SUFFICES ASSUME TInv, IInv, CommitsInv, [Next]_vars
                 PROVE  [StoreTree!Next]_snaps
      OBVIOUS
    <2>1. Transacts /\ SnapsTyped(snaps)
      BY NextTransacts DEF TInv, StoreTyped
    <2>2. QED
      BY <2>1, TransactsTree
  <1>3. QED
    BY <1>1, <1>2, CommitsInvariant, PTL DEF Spec, StoreTree!Spec

\* As long as no snapshot is committed twice at a time and the mounts are
\* quiet during and after a commit, what a committed snapshot holds is never
\* changed: neither by the application of a layer, nor by the application of
\* a diff to the snapshot being committed, nor by a process in a mount.
THEOREM StoreCommittedImmutable ==
    ASSUME SoleCommits, ~ LiveWrites
    PROVE  Spec => CommittedImmutable
  <1>1. ASSUME SnapsTyped(snaps), Transacts, NEW n \in DOMAIN snaps \cap DOMAIN snaps',
               IsCommitted(snaps, n)
        PROVE  snaps'[n].diff = snaps[n].diff
    <2>1. snaps[n] \in Snapshots /\ snaps[n].kind = "committed"
      BY <1>1 DEF SnapsTyped, IsCommitted
    <2>2. ASSUME NEW kind, NEW m, NEW p, NEW label, CreateResult(snaps, m, p) = "ok",
                 snaps' = Created(snaps, kind, m, p, label)
          PROVE  snaps'[n].diff = snaps[n].diff
      <3>1. m # n
        BY <2>2 DEF CreateResult
      <3>2. QED
        BY <2>2, <3>1 DEF Created, Put
    <2>3. ASSUME NEW m, snaps' = Removed(snaps, m)
          PROVE  snaps'[n].diff = snaps[n].diff
      BY <2>3, RemovedFacts
    <2>4. ASSUME NEW m, NEW c, CommitResult(snaps, m, c) = "ok",
                 snaps' = Committed(snaps, m, c, NoRef)
          PROVE  snaps'[n].diff = snaps[n].diff
      <3>1. c # n
        BY <2>4 DEF CommitResult
      <3>2. QED
        BY <2>4, <3>1 DEF Committed, Put, Removed, Restrict
    <2>5. ASSUME NEW m, NEW d, snaps[m].kind = "active", snaps' = Written(snaps, m, d)
          PROVE  snaps'[n].diff = snaps[n].diff
      BY <2>1, <2>5 DEF Written
    <2>6. ASSUME NEW m, NEW label, snaps' = Relabelled(snaps, m, label)
          PROVE  snaps'[n].diff = snaps[n].diff
      BY <2>1, <2>6 DEF Relabelled, Snapshots
    <2>7. QED
      BY <1>1, <2>2, <2>3, <2>4, <2>5, <2>6 DEF Transacts
  <1>2. TInv /\ IInv /\ CommitsInv /\ [Next]_vars =>
            [\A n \in DOMAIN snaps \cap DOMAIN snaps' :
                IsCommitted(snaps, n) => snaps'[n].diff = snaps[n].diff]_vars
    BY <1>1, NextTransacts DEF TInv, StoreTyped
  <1>3. QED
    BY <1>2, CommitsInvariant, PTL DEF Spec, CommittedImmutable

-----------------------------------------------------------------------------
(* The instance that TLC checks has chains of a bounded length.            *)

Bounded == DOMAIN snaps \subseteq BoundedNames

LEMMA SameBoundedTransactions ==
    ASSUME NEW s, NEW n, NEW p, NEW c, NEW kind, NEW label, NEW d
    PROVE  /\ Tree!CreateResult(s, n, p) = CreateResult(s, n, p)
           /\ Tree!Created(s, kind, n, p, label) = Created(s, kind, n, p, label)
           /\ Tree!RemoveResult(s, n) = RemoveResult(s, n)
           /\ Tree!Removed(s, n) = Removed(s, n)
           /\ Tree!CommitResult(s, n, c) = CommitResult(s, n, c)
           /\ Tree!Committed(s, n, c, label) = Committed(s, n, c, label)
           /\ Tree!Written(s, n, d) = Written(s, n, d)
           /\ Tree!Relabelled(s, n, label) = Relabelled(s, n, label)
  <1>1. Tree!CreateResult(s, n, p) = CreateResult(s, n, p)
    BY DEF Tree!CreateResult, CreateResult
  <1>2. Tree!Created(s, kind, n, p, label) = Created(s, kind, n, p, label)
    BY DEF Tree!Created, Created, Tree!Put, Put
  <1>3. Tree!RemoveResult(s, n) = RemoveResult(s, n)
    BY DEF Tree!RemoveResult, RemoveResult, Tree!HasChild, HasChild
  <1>4. Tree!Removed(s, n) = Removed(s, n)
    BY DEF Tree!Removed, Removed, Tree!Restrict, Restrict
  <1>5. Tree!CommitResult(s, n, c) = CommitResult(s, n, c)
    BY DEF Tree!CommitResult, CommitResult
  <1>6. Tree!Committed(s, n, c, label) = Committed(s, n, c, label)
    BY <1>4 DEF Tree!Committed, Committed, Tree!Put, Put
  <1>7. Tree!Written(s, n, d) = Written(s, n, d)
    BY DEF Tree!Written, Written
  <1>8. Tree!Relabelled(s, n, label) = Relabelled(s, n, label)
    BY DEF Tree!Relabelled, Relabelled
  <1>9. QED
    BY <1>1, <1>2, <1>3, <1>4, <1>5, <1>6, <1>7, <1>8

\* Whatever a transaction names is there before it or after it.
LEMMA TransactsBoundedTree ==
    ASSUME Bounded, Bounded', Transacts
    PROVE  [Tree!Next]_snaps
  <1>1. ASSUME NEW kind \in {"active", "view"}, NEW n, NEW p, NEW label \in Refs \cup {NoRef},
               CreateResult(snaps, n, p) = "ok", snaps' = Created(snaps, kind, n, p, label)
        PROVE  Tree!Next
    <2>1. n \in BoundedNames
      BY <1>1 DEF Bounded, Created, Put
    <2>2. p \in BoundedNames \cup {NoParent}
      BY <1>1 DEF Bounded, CreateResult
    <2>3. Tree!Create(kind, n, p, label)
      BY <1>1, SameBoundedTransactions DEF Tree!Create
    <2>4. QED
      BY <2>1, <2>2, <2>3 DEF Tree!Next
  <1>2. ASSUME NEW n, RemoveResult(snaps, n) = "ok", snaps' = Removed(snaps, n)
        PROVE  Tree!Next
    <2>1. n \in BoundedNames
      BY <1>2 DEF Bounded, RemoveResult
    <2>2. Tree!Remove(n)
      BY <1>2, SameBoundedTransactions DEF Tree!Remove
    <2>3. QED
      BY <2>1, <2>2 DEF Tree!Next
  <1>3. ASSUME NEW n, NEW c, CommitResult(snaps, n, c) = "ok",
               snaps' = Committed(snaps, n, c, NoRef)
        PROVE  Tree!Next
    <2>1. n \in BoundedNames
      BY <1>3 DEF Bounded, CommitResult
    <2>2. c \in BoundedNames
      BY <1>3 DEF Bounded, Committed, Put
    <2>3. Tree!Commit(n, c, NoRef)
      BY <1>3, SameBoundedTransactions DEF Tree!Commit
    <2>4. QED
      BY <2>1, <2>2, <2>3 DEF Tree!Next
  <1>4. ASSUME NEW n \in DOMAIN snaps, NEW d \in Layers, snaps[n].kind = "active",
               snaps' = Written(snaps, n, d)
        PROVE  Tree!Next
    <2>1. Tree!Write(n, d)
      BY <1>4, SameBoundedTransactions DEF Tree!Write
    <2>2. QED
      BY <2>1 DEF Tree!Next, Bounded, Layers
  <1>5. ASSUME NEW n \in DOMAIN snaps, NEW label \in Refs \cup {NoRef},
               snaps' = Relabelled(snaps, n, label)
        PROVE  Tree!Next
    <2>1. Tree!Update(n, label)
      BY <1>5, SameBoundedTransactions DEF Tree!Update
    <2>2. QED
      BY <2>1 DEF Tree!Next, Bounded
  <1>6. QED
    BY <1>1, <1>2, <1>3, <1>4, <1>5 DEF Transacts

\* A behaviour in which no chain, thread or process goes beyond the bounds of
\* TreeSpec satisfies it: its bounds hide no step of the store that SnapshotTree
\* would not take.
THEOREM StoreTreeSpec ==
    ASSUME SoleCommits, ~ LiveWrites
    PROVE  Spec /\ []Bounded => TreeSpec
  <1>1. Init => Tree!Init
    BY DEF Init, Tree!Init
  <1>2. TInv /\ IInv /\ CommitsInv /\ Bounded /\ Bounded' /\ [Next]_vars => [Tree!Next]_snaps
    BY NextTransacts, TransactsBoundedTree
  <1>3. QED
    BY <1>1, <1>2, CommitsInvariant, PTL DEF Spec, TreeSpec, Tree!Spec
=============================================================================
