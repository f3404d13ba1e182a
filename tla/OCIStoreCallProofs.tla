------------------------- MODULE OCIStoreCallProofs -------------------------
(***************************************************************************)
(* What calls achieve in the company of others: which of them succeed, and *)
(* what that means.  Hypotheses are about the requests that threads may    *)
(* make, never about interleavings.  Each result has its invariant:        *)
(*                                                                         *)
(*   BuildersInv   a call that only adds has not failed, and what it needs *)
(*                 next is there;                                          *)
(*   ImportsInv    an import that is about to create a record, or the ones *)
(*                 after it, finds no record of another call;              *)
(*   SettledInv    where names of images keep their content: the base that *)
(*                 a Commit reads is what its snapshot was made on, the    *)
(*                 layer it computes is what the snapshot has on top, and  *)
(*                 chain IDs are faithful;                                 *)
(*   SparedInv     who never stores an image is not about to store it;     *)
(*   KeptInv       the image that a Commit has stored is there while it is *)
(*                 unpacked, and unpacked when it returns;                 *)
(*   SinglesInv    how far SingleImportFile has got with its images: which *)
(*                 are stored, unpacked, still to be deleted;              *)
(*   LeasesInv     a Mount has its lease from its first step to its last;  *)
(*   TakesInv      a deletion is at a snapshot on the chain of its image;  *)
(*   RemovingInv   what an Umount has removed is what lies between its key *)
(*                 and where it is, and nothing else was built on that.    *)
(***************************************************************************)
EXTENDS OCIStoreSafetyProofs, ChainRemoval, FiniteSetTheorems

-----------------------------------------------------------------------------
(* What the transactions do to a store value.                              *)

LEMMA WrittenFacts ==
    ASSUME NEW s, SnapsTyped(s), NEW m, NEW d, NEW s2, s2 = Written(s, m, d)
    PROVE  /\ DOMAIN s2 = DOMAIN s
           /\ \A n \in DOMAIN s : /\ s2[n].kind = s[n].kind
                                  /\ s2[n].parent = s[n].parent
                                  /\ s2[n].label = s[n].label
           /\ m \in DOMAIN s => s2[m].diff = s[m].diff \cup d
           /\ \A n \in DOMAIN s \ {m} : s2[n] = s[n]
  <1>1. DOMAIN s2 = DOMAIN s /\ \A n \in DOMAIN s \ {m} : s2[n] = s[n]
    BY DEF Written
  <1>2. ASSUME m \in DOMAIN s
        PROVE  /\ s2[m].kind = s[m].kind /\ s2[m].parent = s[m].parent
               /\ s2[m].label = s[m].label /\ s2[m].diff = s[m].diff \cup d
    <2>1. s[m] \in Snapshots
      BY <1>2 DEF SnapsTyped
    <2>2. s2[m] = [s[m] EXCEPT !.diff = @ \cup d]
      BY <1>2 DEF Written
    <2>3. QED
      BY <2>1, <2>2 DEF Snapshots
  <1>3. QED
    BY <1>1, <1>2

LEMMA RelabelledFacts ==
    ASSUME NEW s, SnapsTyped(s), NEW m, NEW label, NEW s2, s2 = Relabelled(s, m, label)
    PROVE  /\ DOMAIN s2 = DOMAIN s
           /\ \A n \in DOMAIN s : /\ s2[n].kind = s[n].kind
                                  /\ s2[n].parent = s[n].parent
                                  /\ s2[n].diff = s[n].diff
           /\ m \in DOMAIN s => s2[m].label = label
           /\ \A n \in DOMAIN s \ {m} : s2[n] = s[n]
  <1>1. DOMAIN s2 = DOMAIN s /\ \A n \in DOMAIN s \ {m} : s2[n] = s[n]
    BY DEF Relabelled
  <1>2. ASSUME m \in DOMAIN s
        PROVE  /\ s2[m].kind = s[m].kind /\ s2[m].parent = s[m].parent
               /\ s2[m].diff = s[m].diff /\ s2[m].label = label
    <2>1. s[m] \in Snapshots
      BY <1>2 DEF SnapsTyped
    <2>2. s2[m] = [s[m] EXCEPT !.label = label]
      BY <1>2 DEF Relabelled
    <2>3. QED
      BY <2>1, <2>2 DEF Snapshots
  <1>3. QED
    BY <1>1, <1>2

-----------------------------------------------------------------------------
(* What a step of a call does to one snapshot.                             *)

\* It makes n.
Made(t, n) ==
    \/ /\ PrepareLayer(t)
       /\ n = Extract(t)
       /\ CreateResult(snaps, n, Below(t)) = "ok"
       /\ snaps'[n] = [kind |-> "active", parent |-> Below(t), label |-> NoRef, diff |-> {}]
    \/ /\ DiffLower(t) /\ n = Lower(t)
       /\ snaps'[n] = [kind |-> "view", parent |-> loc[t].par, label |-> NoRef, diff |-> {}]
    \/ /\ DiffView(t) /\ n = Upper(t)
       /\ snaps'[n] = [kind |-> "view", parent |-> req[t].name, label |-> NoRef, diff |-> {}]
    \/ /\ MountCreate(t)
       /\ n = req[t].name
       /\ CreateResult(snaps, n, Chain(loc[t].chain)) = "ok"
       /\ snaps'[n] = [kind |-> IF req[t].ro THEN "view" ELSE "active",
                       parent |-> Chain(loc[t].chain), label |-> req[t].ref, diff |-> {}]
    \/ /\ CommitLayer(t)
       /\ n = UpTo(t)
       /\ CommitResult(snaps, Extract(t), n) = "ok"
       /\ snaps'[n] = [snaps[Extract(t)] EXCEPT !.kind = "committed", !.label = NoRef]
    \/ /\ CommitActive(t)
       /\ n = Chain(loc[t].chain)
       /\ CommitResult(snaps, req[t].name, n) = "ok"
       /\ snaps'[n] = [snaps[req[t].name] EXCEPT !.kind = "committed", !.label = NoRef]

\* It takes n away, by removing or by committing it.
Taken(t, n) ==
    \/ n \in {Extract(t), Lower(t), Upper(t)}
    \/ RemoveLink(t) /\ n = loc[t].cur /\ RemoveResult(snaps, n) = "ok"
    \/ MountUndo(t) /\ n = req[t].name
    \/ CommitActive(t) /\ n = req[t].name

\* It adds to the changes in n.
Filled(t, n) ==
    \/ /\ ApplyLayer(t)
       /\ n = Extract(t)
       /\ snaps'[n].diff = snaps[n].diff \cup loc[t].chain[loc[t].i]
    \/ /\ CommitApply(t)
       /\ n = dir[t] /\ dir[t] # Gone
       /\ snaps'[n].diff = snaps[n].diff \cup loc[t].layer

Changed(t, n) ==
    /\ n \in DOMAIN snaps' \ DOMAIN snaps => Made(t, n)
    /\ n \in DOMAIN snaps \ DOMAIN snaps' => Taken(t, n)
    /\ n \in DOMAIN snaps \cap DOMAIN snaps' =>
          /\ snaps'[n].kind = snaps[n].kind
          /\ snaps'[n].parent = snaps[n].parent
          /\ \/ snaps'[n].label = snaps[n].label
             \/ LabelWrite(t) /\ n = req[t].name /\ snaps'[n].label \in NewLabels(t)
          /\ snaps'[n].diff = snaps[n].diff \/ Filled(t, n)

LEMMA CreationChanges ==
    ASSUME NEW t, NEW n, NEW kind, NEW m, NEW p, NEW label,
           CreateResult(snaps, m, p) = "ok", snaps' = Created(snaps, kind, m, p, label),
           snaps'[m] = [kind |-> kind, parent |-> p, label |-> label, diff |-> {}] =>
               Made(t, m)
    PROVE  Changed(t, n)
  <1>1. /\ DOMAIN snaps' = DOMAIN snaps \cup {m}
        /\ snaps'[m] = [kind |-> kind, parent |-> p, label |-> label, diff |-> {}]
        /\ \A x \in DOMAIN snaps \ {m} : snaps'[x] = snaps[x]
    BY DEF Created, Put
  <1>2. m \notin DOMAIN snaps
    BY DEF CreateResult
  <1>3. Made(t, m)
    BY <1>1
  <1>4. QED
    BY <1>1, <1>2, <1>3 DEF Changed

LEMMA RemovalChanges ==
    ASSUME NEW t, NEW n, NEW m, RemoveSnapshot(m), Taken(t, m)
    PROVE  Changed(t, n)
  <1>1. /\ DOMAIN snaps' = DOMAIN snaps \ {m}
        /\ \A x \in DOMAIN snaps \ {m} : snaps'[x] = snaps[x]
    BY RemovedFacts DEF RemoveSnapshot
  <1>2. QED
    BY <1>1 DEF Changed

LEMMA CommittalChanges ==
    ASSUME NEW t, NEW n, NEW m, NEW c, CommitResult(snaps, m, c) = "ok", CommitSnapshot(m, c),
           Taken(t, m),
           snaps'[c] = [snaps[m] EXCEPT !.kind = "committed", !.label = NoRef] => Made(t, c)
    PROVE  Changed(t, n)
  <1>1. /\ DOMAIN snaps' = (DOMAIN snaps \ {m}) \cup {c}
        /\ snaps'[c] = [snaps[m] EXCEPT !.kind = "committed", !.label = NoRef]
        /\ \A x \in DOMAIN snaps \ {m, c} : snaps'[x] = snaps[x]
    BY DEF CommitSnapshot, Committed, Put, Removed, Restrict
  <1>2. c \notin DOMAIN snaps
    BY DEF CommitResult
  <1>3. Made(t, c)
    BY <1>1
  <1>4. QED
    BY <1>1, <1>2, <1>3 DEF Changed

LEMMA WriteChanges ==
    ASSUME SnapsTyped(snaps), NEW t, NEW n, NEW m, NEW d, snaps' = Written(snaps, m, d),
           snaps'[m].diff = snaps[m].diff \cup d => Filled(t, m)
    PROVE  Changed(t, n)
  <1>1. /\ DOMAIN snaps' = DOMAIN snaps
        /\ \A x \in DOMAIN snaps : /\ snaps'[x].kind = snaps[x].kind
                                   /\ snaps'[x].parent = snaps[x].parent
                                   /\ snaps'[x].label = snaps[x].label
        /\ m \in DOMAIN snaps => snaps'[m].diff = snaps[m].diff \cup d
        /\ \A x \in DOMAIN snaps \ {m} : snaps'[x] = snaps[x]
    BY WrittenFacts
  <1>2. QED
    BY <1>1 DEF Changed

LEMMA SameChanges ==
    ASSUME UNCHANGED snaps, NEW t, NEW n
    PROVE  Changed(t, n)
  BY DEF Changed

LEMMA UnpackChanges ==
    ASSUME TInv, NEW t \in Threads, UnpackStep(t), NEW n
    PROVE  Changed(t, n)
  <1>1. SnapsTyped(snaps)
    BY DEF TInv, StoreTyped
  <1>2. CASE CheckUnpacked(t)
    BY <1>2, SameChanges DEF CheckUnpacked, store
  <1>3. CASE PrepareLayer(t)
    <2> DEFINE m == Extract(t)
               p == Below(t)
               k == "active"
    <2>1. CASE CreateResult(snaps, m, p) = "ok" /\ snaps' = Created(snaps, k, m, p, NoRef)
      <3>1. snaps'[m] = [kind |-> k, parent |-> p, label |-> NoRef, diff |-> {}] => Made(t, m)
        BY <1>3, <2>1 DEF Made
      <3> HIDE DEF m, p, k
      <3>2. QED
        BY <2>1, <3>1, CreationChanges
    <2>2. QED
      BY <1>3, <2>1, SameChanges DEF PrepareLayer
  <1>4. CASE ApplyLayer(t)
    <2> DEFINE m == Extract(t)
               d == loc[t].chain[loc[t].i]
    <2>1. CASE snaps' = Written(snaps, m, d)
      <3>1. snaps'[m].diff = snaps[m].diff \cup d => Filled(t, m)
        BY <1>4 DEF Filled
      <3> HIDE DEF m, d
      <3>2. QED
        BY <1>1, <2>1, <3>1, WriteChanges
    <2>2. QED
      BY <1>4, <2>1, SameChanges DEF ApplyLayer
  <1>5. CASE CommitLayer(t)
    <2> DEFINE m == Extract(t)
               c == UpTo(t)
    <2>1. CASE CommitResult(snaps, m, c) = "ok" /\ CommitSnapshot(m, c)
      <3>1. snaps'[c] = [snaps[m] EXCEPT !.kind = "committed", !.label = NoRef] => Made(t, c)
        BY <1>5, <2>1 DEF Made
      <3>2. Taken(t, m)
        BY DEF Taken
      <3> HIDE DEF m, c
      <3>3. QED
        BY <2>1, <3>1, <3>2, CommittalChanges
    <2>2. QED
      BY <1>5, <2>1, SameChanges DEF CommitLayer
  <1>6. CASE AbortLayer(t)
    <2>1. Taken(t, Extract(t))
      BY DEF Taken
    <2>2. UNCHANGED snaps \/ RemoveSnapshot(Extract(t))
      BY <1>6 DEF AbortLayer
    <2>3. QED
      BY <2>1, <2>2, RemovalChanges, SameChanges
  <1>7. QED
    BY <1>2, <1>3, <1>4, <1>5, <1>6 DEF UnpackStep

LEMMA RemovalStepChanges ==
    ASSUME NEW t \in Threads, RemovalStep(t), NEW n
    PROVE  Changed(t, n)
  <1>1. CASE StatLink(t)
    BY <1>1, SameChanges DEF StatLink, store
  <1>2. CASE RemoveLink(t)
    <2> DEFINE m == loc[t].cur
    <2>1. CASE RemoveResult(snaps, m) = "ok" /\ RemoveSnapshot(m)
      BY <1>2, <2>1, RemovalChanges DEF Taken
    <2>2. QED
      BY <1>2, <2>1, SameChanges DEF RemoveLink
  <1>3. QED
    BY <1>1, <1>2 DEF RemovalStep

LEMMA MountStepChanges ==
    ASSUME NEW t \in Threads, MountStep(t), NEW n
    PROVE  Changed(t, n)
  <1>1. CASE MountCreate(t)
    <2> DEFINE m == req[t].name
               p == Chain(loc[t].chain)
               k == IF req[t].ro THEN "view" ELSE "active"
               label == req[t].ref
    <2>1. CASE CreateResult(snaps, m, p) = "ok" /\ snaps' = Created(snaps, k, m, p, label)
      <3>1. snaps'[m] = [kind |-> k, parent |-> p, label |-> label, diff |-> {}] => Made(t, m)
        BY <1>1, <2>1 DEF Made
      <3> HIDE DEF m, p, k, label
      <3>2. QED
        BY <2>1, <3>1, CreationChanges
    <2>2. QED
      BY <1>1, <2>1, SameChanges DEF MountCreate
  <1>2. CASE MountUndo(t)
    BY <1>2, RemovalChanges, SameChanges DEF MountUndo, Taken
  <1>3. CASE \/ MountLease(t) \/ MountExisting(t) \/ MountAll(t)
             \/ MountFailed(t) \/ UmountLease(t) \/ UmountUnlease(t)
    BY <1>3, SameChanges DEF MountLease, MountExisting, MountAll, MountFailed, UmountLease,
                             UmountUnlease, store
  <1>4. QED
    BY <1>1, <1>2, <1>3 DEF MountStep

LEMMA CommitStepChanges ==
    ASSUME TInv, NEW t \in Threads, CommitStep(t), NEW n
    PROVE  Changed(t, n)
  <1>1. SnapsTyped(snaps)
    BY DEF TInv, StoreTyped
  <1>2. CASE DiffLower(t)
    <2> DEFINE m == Lower(t)
               p == loc[t].par
               k == "view"
    <2>1. CASE CreateResult(snaps, m, p) = "ok" /\ snaps' = Created(snaps, k, m, p, NoRef)
      <3>1. snaps'[m] = [kind |-> k, parent |-> p, label |-> NoRef, diff |-> {}] => Made(t, m)
        BY <1>2 DEF Made
      <3> HIDE DEF m, p, k
      <3>2. QED
        BY <2>1, <3>1, CreationChanges
    <2>2. QED
      BY <1>2, <2>1, SameChanges DEF DiffLower
  <1>3. CASE DiffView(t)
    <2> DEFINE m == Upper(t)
               p == req[t].name
               k == "view"
    <2>1. CASE CreateResult(snaps, m, p) = "ok" /\ snaps' = Created(snaps, k, m, p, NoRef)
      <3>1. snaps'[m] = [kind |-> k, parent |-> p, label |-> NoRef, diff |-> {}] => Made(t, m)
        BY <1>3 DEF Made
      <3> HIDE DEF m, p, k
      <3>2. QED
        BY <2>1, <3>1, CreationChanges
    <2>2. QED
      BY <1>3, <2>1, SameChanges DEF DiffView
  <1>4. CASE CleanUpper(t) \/ CleanLower(t)
    <2>1. Taken(t, Upper(t)) /\ Taken(t, Lower(t))
      BY DEF Taken
    <2>2. UNCHANGED snaps \/ RemoveSnapshot(Upper(t)) \/ RemoveSnapshot(Lower(t))
      BY <1>4 DEF CleanUpper, CleanLower
    <2>3. QED
      BY <2>1, <2>2, RemovalChanges, SameChanges
  <1>5. CASE CommitApply(t)
    <2> DEFINE m == dir[t]
               d == loc[t].layer
    <2>1. CASE m # Gone /\ snaps' = Written(snaps, m, d)
      <3>1. snaps'[m].diff = snaps[m].diff \cup d => Filled(t, m)
        BY <1>5, <2>1 DEF Filled
      <3> HIDE DEF m, d
      <3>2. QED
        BY <1>1, <2>1, <3>1, WriteChanges
    <2>2. QED
      BY <1>5, <2>1, SameChanges DEF CommitApply
  <1>6. CASE CommitActive(t)
    <2> DEFINE m == req[t].name
               c == Chain(loc[t].chain)
    <2>1. CASE CommitResult(snaps, m, c) = "ok" /\ CommitSnapshot(m, c)
      <3>1. snaps'[c] = [snaps[m] EXCEPT !.kind = "committed", !.label = NoRef] => Made(t, c)
        BY <1>6, <2>1 DEF Made
      <3>2. Taken(t, m)
        BY <1>6 DEF Taken
      <3> HIDE DEF m, c
      <3>3. QED
        BY <2>1, <3>1, <3>2, CommittalChanges
    <2>2. QED
      BY <1>6, <2>1, SameChanges DEF CommitActive
  <1>7. CASE \/ CommitStat(t) \/ CommitBase(t) \/ DiffStat(t) \/ DiffMounts(t)
             \/ Compare(t) \/ CommitMounts(t) \/ CommitManifest(t) \/ CommitConfig(t)
    BY <1>7, SameChanges DEF CommitStat, CommitBase, DiffStat, DiffMounts, Compare,
                             CommitMounts, CommitManifest, CommitConfig, WriteBlob, store
  <1>8. QED
    BY <1>2, <1>3, <1>4, <1>5, <1>6, <1>7 DEF CommitStep

LEMMA LabelStepChanges ==
    ASSUME TInv, NEW t \in Threads, LabelStep(t), NEW n
    PROVE  Changed(t, n)
  <1>1. SnapsTyped(snaps)
    BY DEF TInv, StoreTyped
  <1>2. CASE LabelWrite(t)
    <2> DEFINE m == req[t].name
    <2>1. CASE m \in DOMAIN snaps /\ \E label \in NewLabels(t) : snaps' = Relabelled(snaps, m, label)
      <3>1. PICK label \in NewLabels(t) : snaps' = Relabelled(snaps, m, label)
        BY <2>1
      <3> HIDE DEF m
      <3>2. /\ DOMAIN snaps' = DOMAIN snaps
            /\ \A x \in DOMAIN snaps : /\ snaps'[x].kind = snaps[x].kind
                                       /\ snaps'[x].parent = snaps[x].parent
                                       /\ snaps'[x].diff = snaps[x].diff
            /\ m \in DOMAIN snaps => snaps'[m].label = label
            /\ \A x \in DOMAIN snaps \ {m} : snaps'[x] = snaps[x]
        BY <1>1, <3>1, RelabelledFacts
      <3>3. QED
        BY <1>2, <3>1, <3>2 DEF Changed, m
    <2>2. QED
      BY <1>2, <2>1, SameChanges DEF LabelWrite
  <1>3. CASE LabelStat(t) \/ Look(t)
    BY <1>3, SameChanges DEF LabelStat, Look, store
  <1>4. QED
    BY <1>2, <1>3 DEF LabelStep

LEMMA StepChanges ==
    ASSUME TInv, NEW t \in Threads, Begin(t) \/ Step(t), NEW n
    PROVE  Changed(t, n)
  <1>1. CASE Begin(t)
    BY <1>1, SameChanges DEF Begin, MountStart, UmountStart, CommitStart, FetchStart,
                             RecordStart, UnpackStart, DeleteStart, LabelStart, LookStart, store
  <1>2. CASE ImageStep(t) \/ ImportStep(t) \/ Return(t)
    BY <1>2, SameChanges
    DEF ImageStep, FetchManifest, FetchChildren, PutUpdate, PutCreate, DeleteGet, DeleteCheck,
        DeleteImage, ImportStep, Unpacked, Deleted, Undone, Return, store
  <1>3. QED
    BY <1>1, <1>2, UnpackChanges, RemovalStepChanges, MountStepChanges, CommitStepChanges,
       LabelStepChanges DEF Step

\* What a step of u does to the mounts that another call holds: it takes away
\* their snapshot or leaves them alone.
LEMMA StepHolds ==
    ASSUME TInv, NEW u \in Threads, Begin(u) \/ Step(u), NEW t \in Threads \ {u}
    PROVE  dir'[t] = dir[t] \/ Taken(u, dir[t])
  <1>1. dir = [v \in Threads |-> dir[v]]
    BY DEF TInv, StoreTyped, MountsFollow
  <1>2. ASSUME \/ UNCHANGED dir
               \/ \E d : dir' = [dir EXCEPT ![u] = d]
               \/ \E m : RemoveSnapshot(m) /\ Taken(u, m)
               \/ \E m, c : CommitSnapshot(m, c) /\ Taken(u, m)
        PROVE  dir'[t] = dir[t] \/ Taken(u, dir[t])
    BY <1>1, <1>2 DEF RemoveSnapshot, CommitSnapshot
  <1>3. Taken(u, Extract(u)) /\ Taken(u, Lower(u)) /\ Taken(u, Upper(u))
    BY DEF Taken
  <1>4. CASE Begin(u)
    BY <1>2, <1>4 DEF Begin, MountStart, UmountStart, CommitStart, FetchStart, RecordStart,
                      UnpackStart, DeleteStart, LabelStart, LookStart
  <1>5. CASE UnpackStep(u)
    <2>1. CASE CommitLayer(u)
      BY <1>2, <1>3, <2>1 DEF CommitLayer
    <2>2. CASE AbortLayer(u)
      BY <1>2, <1>3, <2>2 DEF AbortLayer
    <2>3. QED
      BY <1>2, <1>5, <2>1, <2>2 DEF UnpackStep, CheckUnpacked, PrepareLayer, ApplyLayer
  <1>6. CASE RemovalStep(u)
    <2>1. CASE RemoveLink(u)
      <3>1. RemoveResult(snaps, loc[u].cur) = "ok" => Taken(u, loc[u].cur)
        BY <2>1 DEF Taken
      <3>2. QED
        BY <1>2, <2>1, <3>1 DEF RemoveLink
    <2>2. QED
      BY <1>2, <1>6, <2>1 DEF RemovalStep, StatLink
  <1>7. CASE MountStep(u)
    <2>1. CASE MountUndo(u)
      <3>1. Taken(u, req[u].name)
        BY <2>1 DEF Taken
      <3>2. QED
        BY <1>2, <2>1, <3>1 DEF MountUndo
    <2>2. QED
      BY <1>2, <1>7, <2>1 DEF MountStep, MountLease, MountCreate, MountExisting, MountAll,
                              MountFailed, UmountLease, UmountUnlease
  <1>8. CASE CommitStep(u)
    <2>1. CASE CommitActive(u)
      <3>1. Taken(u, req[u].name)
        BY <2>1 DEF Taken
      <3>2. QED
        BY <1>2, <2>1, <3>1 DEF CommitActive
    <2>2. CASE CleanUpper(u) \/ CleanLower(u)
      BY <1>2, <1>3, <2>2 DEF CleanUpper, CleanLower
    <2>3. CASE DiffMounts(u) \/ DiffView(u) \/ CommitMounts(u)
      BY <1>2, <2>3 DEF DiffMounts, DiffView, CommitMounts
    <2>4. CASE \/ CommitStat(u) \/ CommitBase(u) \/ DiffStat(u) \/ DiffLower(u) \/ Compare(u)
               \/ CommitApply(u) \/ CommitManifest(u) \/ CommitConfig(u)
      BY <1>2, <2>4 DEF CommitStat, CommitBase, DiffStat, DiffLower, Compare, CommitApply,
                        CommitManifest, CommitConfig, WriteBlob
    <2>5. QED
      BY <1>8, <2>1, <2>2, <2>3, <2>4 DEF CommitStep
  <1>9. CASE ImageStep(u) \/ ImportStep(u) \/ LabelStep(u)
    BY <1>2, <1>9 DEF ImageStep, FetchManifest, FetchChildren, PutUpdate, PutCreate, DeleteGet,
                      DeleteCheck, DeleteImage, ImportStep, Unpacked, Deleted, Undone,
                      LabelStep, LabelStat, LabelWrite, Look
  <1>10. CASE Return(u)
    BY <1>2, <1>10 DEF Return
  <1>11. QED
    BY <1>4, <1>5, <1>6, <1>7, <1>8, <1>9, <1>10 DEF Step

\* Records change by the storing of one image, or one goes.
LEMMA StepRecords ==
    ASSUME NEW t \in Threads, Begin(t) \/ Step(t), NEW q \in DOMAIN images'
    PROVE  \/ q \in DOMAIN images /\ images'[q] = images[q]
           \/ pc[t] \in PutPart /\ q = Image(t).ref /\ images'[q] = Image(t).chain
  <1>1. CASE UNCHANGED images
    BY <1>1
  <1>2. CASE PutUpdate(t) \/ PutCreate(t)
    <2> DEFINE r == Image(t).ref
               c == Image(t).chain
    <2>1. pc[t] \in PutPart
      BY <1>2 DEF PutUpdate, PutCreate, At, PutPart
    <2>2. \/ images' = [images EXCEPT ![r] = c]
          \/ images' = Put(images, r, c)
          \/ UNCHANGED images
      BY <1>2 DEF PutUpdate, PutCreate
    <2> HIDE DEF r, c
    <2>3. \/ q = r /\ images'[q] = c
          \/ q \in DOMAIN images /\ images'[q] = images[q]
      BY <2>2 DEF Put
    <2>4. QED
      BY <2>1, <2>3 DEF r, c
  <1>3. CASE DeleteImage(t)
    BY <1>3 DEF DeleteImage, Restrict
  <1>4. CASE FetchManifest(t) \/ FetchChildren(t) \/ DeleteGet(t) \/ DeleteCheck(t)
    BY <1>1, <1>4 DEF FetchManifest, FetchChildren, DeleteGet, DeleteCheck, store
  <1>5. CASE Begin(t)
    BY <1>1, <1>5 DEF Begin, MountStart, UmountStart, CommitStart, FetchStart, RecordStart,
                      UnpackStart, DeleteStart, LabelStart, LookStart, store
  <1>6. CASE UnpackStep(t) \/ RemovalStep(t) \/ MountStep(t)
    BY <1>1, <1>6 DEF UnpackStep, CheckUnpacked, PrepareLayer, ApplyLayer, CommitLayer, AbortLayer,
                      RemovalStep, StatLink, RemoveLink,
                      MountStep, MountLease, MountCreate, MountExisting, MountAll, MountUndo,
                      MountFailed, UmountLease, UmountUnlease, store
  <1>7. CASE CommitStep(t)
    BY <1>1, <1>7 DEF CommitStep, CommitStat, CommitBase, DiffStat, DiffLower, DiffMounts,
                      DiffView, Compare, CleanUpper, CleanLower, CommitMounts, CommitApply,
                      CommitActive, CommitManifest, CommitConfig, WriteBlob, store
  <1>8. CASE ImportStep(t) \/ LabelStep(t) \/ Return(t)
    BY <1>1, <1>8 DEF ImportStep, Unpacked, Deleted, Undone,
                      LabelStep, LabelStat, LabelWrite, Look, Return, store
  <1>9. QED
    BY <1>2, <1>3, <1>4, <1>5, <1>6, <1>7, <1>8 DEF Step, ImageStep

-----------------------------------------------------------------------------
(* The unpacking that nobody removes the ground of.                        *)

\* A call at p in the part "unpack" whose extraction snapshot is e: the chain
\* below the layer it is at is there, and so is what it extracts it into.
Rising(p, l, e, s) ==
    /\ p \in LayerPart => /\ ~ l.err
                          /\ l.i = 1 \/ Chain(SubSeq(l.chain, 1, l.i - 1)) \in DOMAIN s
    /\ p \in {"apply", "commit_layer", "abort_layer"} => e \in DOMAIN s
    /\ p = "abort_layer" => Chain(SubSeq(l.chain, 1, l.i)) \in DOMAIN s

\* A step of the unpacking of t that goes on to the next layer, or on with the
\* call.
Rises(t) ==
    \/ /\ pc'[t] \in LayerPart
       /\ loc'[t].chain = loc[t].chain
       /\ loc'[t].errs = loc[t].errs
       /\ ~ loc'[t].err
       /\ Rising(pc'[t], loc'[t], Extract(t), snaps')
    \/ Continue(t) /\ Chain(loc[t].chain) \in DOMAIN snaps'

LEMMA WholeChain ==
    ASSUME NEW c \in Seq(Layers)
    PROVE  SubSeq(c, 1, Len(c)) = c
  <1> DEFINE d == SubSeq(c, 1, Len(c))
  <1>1. Len(c) \in Nat /\ \A k \in 1..Len(c) : c[k] \in Layers
    BY LenProperties, ElementOfSeq
  <1>2. /\ d \in Seq(Layers) /\ Len(d) = Len(c)
        /\ \A k \in 1..Len(c) : d[k] = c[k]
    BY <1>1, SubSeqProperties
  <1> HIDE DEF d
  <1>3. d = c
    BY <1>2, SeqEqual
  <1>4. QED
    BY <1>3 DEF d

\* The layer is there: the next one, or the end.
LEMMA NextRises ==
    ASSUME ThreadsFit, NEW t \in Threads, pc[t] \in {"commit_layer", "abort_layer"},
           NextLayer(t), ~ loc[t].err, UpTo(t) \in DOMAIN snaps'
    PROVE  Rises(t)
  <1> DEFINE c == loc[t].chain
             i == loc[t].i
  <1>1. /\ loc = [u \in Threads |-> loc[u]]
        /\ loc[t] \in Locals /\ c \in Seq(Layers) /\ i \in Nat /\ i \in 1..Len(c)
    BY Busy DEF ThreadsFit, Locals, Works, LayerPart
  <1>2. CASE i = Len(c) /\ Continue(t)
    <2>1. SubSeq(c, 1, i) = c
      BY <1>1, <1>2, WholeChain
    <2>2. QED
      BY <1>2, <2>1 DEF Rises, UpTo
  <1>3. CASE Goto(t, "extract") /\ loc' = [loc EXCEPT ![t].i = @ + 1]
    <2>1. pc'[t] = "extract"
      BY <1>3, PartsLead
    <2>2. /\ loc'[t].chain = c /\ loc'[t].i = i + 1 /\ loc'[t].err = loc[t].err
          /\ loc'[t].errs = loc[t].errs
      BY <1>1, <1>3 DEF Locals
    <2>3. loc'[t].i - 1 = i
      BY <1>1, <2>2
    <2>4. Chain(SubSeq(loc'[t].chain, 1, loc'[t].i - 1)) = UpTo(t)
      BY <2>2, <2>3 DEF UpTo
    <2>5. QED
      BY <2>1, <2>2, <2>4 DEF Rises, Rising, LayerPart
  <1>4. QED
    BY <1>2, <1>3 DEF NextLayer

\* Where chains are what their names say, a step of an unpacking without I/O
\* errors does not fail.
LEMMA OwnRises ==
    ASSUME ~ Faults, TInv, TempsInv, ChainsFaithful, NEW t \in Threads, Extracted(t),
           UnpackStep(t), pc[t] = "unpack" => ~ loc[t].err,
           ContentOf(loc[t].chain) \subseteq blobs,
           Rising(pc[t], loc[t], Extract(t), snaps)
    PROVE  Rises(t)
  <1> DEFINE c == loc[t].chain
             i == loc[t].i
             e == Extract(t)
  <1>1. /\ ThreadsFit /\ loc = [u \in Threads |-> loc[u]] /\ StoreTyped
    BY DEF TInv, ThreadsFit
  <1>2. e[1] = "extract" /\ Below(t)[1] = "chain" /\ UpTo(t)[1] = "chain"
    BY DEF Extract, Temp, Below, UpTo, Chain
  <1>3. CASE CheckUnpacked(t)
    <2>1. CASE Chain(c) \in DOMAIN snaps /\ Continue(t)
      BY <1>3, <2>1 DEF CheckUnpacked, Rises, store
    <2>2. CASE Goto(t, "extract") /\ loc' = [loc EXCEPT ![t].i = 1]
      <3>1. pc[t] = "unpack" /\ pc'[t] = "extract" /\ loc[t] \in Locals
        BY <1>1, <1>3, <2>2, Busy, PartsLead DEF CheckUnpacked, At
      <3>2. /\ loc'[t].i = 1 /\ loc'[t].err = loc[t].err /\ loc'[t].chain = c
            /\ loc'[t].errs = loc[t].errs
        BY <1>1, <2>2, <3>1 DEF Locals
      <3>3. QED
        BY <3>1, <3>2 DEF Rises, Rising, LayerPart
    <2>3. Readable(c)
      BY DEF Readable, ContentOf
    <2>4. QED
      BY <1>3, <2>1, <2>2, <2>3 DEF CheckUnpacked
  <1>4. CASE PrepareLayer(t)
    <2>1. pc[t] = "extract" /\ pc[t] \in LayerPart
      BY <1>4 DEF PrepareLayer, At, LayerPart
    <2>2. c \in Seq(Layers) /\ i \in 1..Len(c)
      BY <1>1, <2>1, Busy DEF Locals, Works, LayerPart
    <2>3. Below(t) = NoParent \/ IsCommitted(snaps, Below(t))
      <3>1. CASE i = 1
        <4>1. i - 1 = 0
          BY <3>1
        <4>2. SubSeq(c, 1, 0) = << >>
          BY SubSeqEmpty
        <4>3. QED
          BY <4>1, <4>2, NoParentAssumption DEF Below
      <3>2. CASE Below(t) \in DOMAIN snaps
        BY <1>2, <3>2 DEF ChainsFaithful, IsCommitted
      <3>3. QED
        BY <2>1, <3>1, <3>2 DEF Rising, Below
    <2>4. e \notin DOMAIN snaps
      BY <1>1, <2>1, HeldTemps DEF Holds, TempKinds, Extract
    <2>5. CreateResult(snaps, e, Below(t)) = "ok"
      BY <2>3, <2>4 DEF CreateResult, IsCommitted
    <2>6. /\ snaps' = Created(snaps, "active", e, Below(t), NoRef)
          /\ Goto(t, "apply") /\ UNCHANGED loc
      BY <1>4, <2>5 DEF PrepareLayer
    <2>7. DOMAIN snaps' = DOMAIN snaps \cup {e} /\ pc'[t] = "apply"
      BY <1>1, <2>6, PartsLead DEF Created, Put
    <2>8. QED
      BY <2>1, <2>6, <2>7 DEF Rises, Rising, LayerPart
  <1>5. CASE ApplyLayer(t)
    <2>0. Layer(c[i]) \in blobs
      <3>1. pc[t] \in LayerPart /\ pc[t] # "idle"
        BY <1>5 DEF ApplyLayer, At, LayerPart
      <3>2. i \in DOMAIN c
        BY <1>1, <3>1, Busy, LenProperties DEF Locals, Works
      <3>3. QED
        BY <3>2 DEF ContentOf, LayersOf
    <2>1. pc[t] = "apply" /\ Goto(t, "commit_layer") /\ UNCHANGED loc
      BY <1>5, <2>0 DEF ApplyLayer, At
    <2>2. DOMAIN snaps' = DOMAIN snaps
      BY <1>5 DEF ApplyLayer, Written
    <2>3. pc'[t] = "commit_layer"
      BY <1>1, <2>1, PartsLead
    <2>4. QED
      BY <2>1, <2>2, <2>3 DEF Rises, Rising, LayerPart
  <1>6. CASE CommitLayer(t)
    <2>1. pc[t] = "commit_layer" /\ pc[t] \in LayerPart
      BY <1>6 DEF CommitLayer, At, LayerPart
    <2>2. e \in DOMAIN snaps /\ snaps[e].kind = "active" /\ ~ loc[t].err
      BY <2>1 DEF Rising, Extracted
    <2>3. CASE UpTo(t) \notin DOMAIN snaps
      <3>1. CommitResult(snaps, e, UpTo(t)) = "ok"
        BY <2>2, <2>3 DEF CommitResult
      <3>2. CommitSnapshot(e, UpTo(t)) /\ NextLayer(t)
        BY <1>6, <3>1 DEF CommitLayer
      <3>3. UpTo(t) \in DOMAIN snaps'
        BY <3>2 DEF CommitSnapshot, Committed, Put
      <3>4. QED
        BY <1>1, <2>1, <2>2, <3>2, <3>3, NextRises
    <2>4. CASE UpTo(t) \in DOMAIN snaps
      <3>1. CommitResult(snaps, e, UpTo(t)) = "exists"
        BY <2>2, <2>4 DEF CommitResult
      <3>2. /\ Goto(t, "abort_layer") /\ UNCHANGED snaps
            /\ loc' = [loc EXCEPT ![t].err = FALSE]
        BY <1>6, <3>1 DEF CommitLayer
      <3>3. /\ pc'[t] = "abort_layer" /\ loc[t] \in Locals
        BY <1>1, <2>1, <3>2, Busy, PartsLead
      <3>4. /\ ~ loc'[t].err /\ loc'[t].i = i /\ loc'[t].chain = c
            /\ loc'[t].errs = loc[t].errs
        BY <1>1, <3>2, <3>3 DEF Locals
      <3>5. QED
        BY <2>1, <2>2, <2>4, <3>2, <3>3, <3>4 DEF Rises, Rising, UpTo, LayerPart
    <2>5. QED
      BY <2>3, <2>4
  <1>7. CASE AbortLayer(t)
    <2>1. pc[t] = "abort_layer" /\ pc[t] \in LayerPart
      BY <1>7 DEF AbortLayer, At, LayerPart
    <2>2. ~ loc[t].err /\ UpTo(t) \in DOMAIN snaps
      BY <2>1 DEF Rising, UpTo
    <2>3. NextLayer(t) /\ RemoveSnapshot(e)
      BY <1>7, <2>2 DEF AbortLayer, Lose
    <2>4. UpTo(t) \in DOMAIN snaps'
      <3>1. DOMAIN snaps' = DOMAIN snaps \ {e}
        BY <2>3, RemovedFacts DEF RemoveSnapshot
      <3>2. QED
        BY <1>2, <2>2, <3>1
    <2>5. QED
      BY <1>1, <2>1, <2>2, <2>3, <2>4, NextRises
  <1>8. QED
    BY <1>3, <1>4, <1>5, <1>6, <1>7 DEF UnpackStep

-----------------------------------------------------------------------------
(* Calls that only add to the store.                                       *)

\* The names that a call stores images under.
RefsOf(r) == IF r.op \in Fetchers THEN {r.archive[i].ref : i \in DOMAIN r.archive} ELSE {}

\* Imports, pulls, unpackings, and mounts under keys of an image that they
\* unpack or of none; Umount and a listing take nothing away either.  Nobody
\* else stores the names that an import stores: it would fail, and not say so,
\* if a record appeared between its Update and its Create.
BuildersOnly ==
    /\ ~ Faults
    /\ \A t \in Threads : \A r \in Requests[t] :
          \/ r.op \in {"import", "pull", "unpack"}
          \/ r.op = "mount" /\ r.name \in {"key"} \X Keys /\ (r.ref = NoRef \/ r.unpack)
          \/ r.op = "umount" /\ r.rm = 0
          \/ r.op = "look" /\ r.name = NoParent
    /\ \A t \in Threads : \A r \in Requests[t] :
          r.op = "import" =>
              \A u \in Threads \ {t} : \A s \in Requests[u] : RefsOf(r) \cap RefsOf(s) = {}

\* No step of the call has failed, for none of its images.
Unfailed(l) == ~ l.err /\ ~ l.errs

\* The call r at p, with the mounts d and the extraction snapshot e: it has not
\* failed, and what it needs next is there.
Building(p, r, l, d, e, s) ==
    /\ Unfailed(l)
    /\ Rising(p, l, e, s)
    /\ p \notin WalkPart \cup {"umount_lease", "umount_unlease", "mount_undo", "mount_failed"}
    /\ p = "mount_lease" => l.chain = << >> \/ r.unpack
    /\ p \in {"mount_lease", "mount_create"} /\ l.chain = << >> => r.ref = NoRef
    /\ p = "mount_create" => l.chain = << >> \/ Chain(l.chain) \in DOMAIN s
    /\ p = "mount_existing" => r.name \in DOMAIN s
    /\ p = "mount_all" => d # Gone

BuildersInv ==
    \A t \in Threads : Building(pc[t], req[t], loc[t], dir[t], Extract(t), snaps)

\* What a call stores is what it was asked to store, and an import that is to
\* create a record finds none.
Importing(p, r, l, is) ==
    p \in FetchPart \cup PutPart /\ r.op \in Fetchers =>
        /\ \A i \in DOMAIN l.todo : l.todo[i].ref \in RefsOf(r)
        /\ p = "put_create" /\ r.op = "import" => l.todo[1].ref \notin DOMAIN is

ImportsInv == \A t \in Threads : Importing(pc[t], req[t], loc[t], images)

LEMMA PlainBuilding ==
    ASSUME NEW p, p \notin LayerPart \cup WalkPart \cup MountPart
                           \cup {"umount_lease", "umount_unlease"},
           NEW r, NEW l, Unfailed(l), NEW d, NEW e, NEW s
    PROVE  Building(p, r, l, d, e, s)
  BY DEF Building, Rising, LayerPart, MountPart

LEMMA BuildersUnpack ==
    ASSUME BuildersOnly
    PROVE  UnpackOnly
  BY DEF BuildersOnly, UnpackOnly

\* How a builder's call ends.
LEMMA Succeeds ==
    ASSUME ThreadsFit, NEW t \in Threads, Finish(t, FALSE)
    PROVE  pc'[t] = "return" /\ Unfailed(loc'[t])
  <1> DEFINE l == [Blank EXCEPT !.owns = loc[t].owns, !.err = FALSE]
  <1>1. loc' = [loc EXCEPT ![t] = l] /\ Goto(t, "return")
    BY DEF Finish
  <1>2. Unfailed(l)
    BY DEF Blank, Unfailed
  <1> HIDE DEF l
  <1>3. loc'[t] = l
    BY <1>1 DEF ThreadsFit
  <1>4. QED
    BY <1>1, <1>2, <1>3, PartsLead

LEMMA BuilderCalls ==
    ASSUME BuildersOnly, ThreadsFit, NEW t \in Threads, pc[t] # "idle"
    PROVE  /\ req[t].op \in {"import", "pull", "unpack", "mount", "umount", "look"}
           /\ req[t].op = "mount" => /\ req[t].name \in {"key"} \X Keys
                                     /\ req[t].name[1] = "key"
                                     /\ req[t].name # Gone
           /\ req[t].op = "look" => req[t].name = NoParent
  <1>1. req[t] \in Requests[t]
    BY Busy
  <1>2. \/ req[t].op \in {"import", "pull", "unpack"}
        \/ req[t].op = "mount" /\ req[t].name \in {"key"} \X Keys
        \/ req[t].op = "umount"
        \/ req[t].op = "look" /\ req[t].name = NoParent
    BY <1>1 DEF BuildersOnly
  <1>3. req[t].op = "mount" => req[t].name # Gone
    BY CalledName, GoneAssumption
  <1>4. req[t].op = "mount" => req[t].name \in {"key"} \X Keys
    BY <1>2
  <1>5. req[t].op = "look" => req[t].name = NoParent
    BY <1>2
  <1>6. \A n \in {"key"} \X Keys : n[1] = "key"
    OBVIOUS
  <1>7. req[t].op \in {"import", "pull", "unpack", "mount", "umount", "look"}
    BY <1>2
  <1>8. QED
    BY <1>3, <1>4, <1>5, <1>6, <1>7

LEMMA BuilderStarts ==
    ASSUME BuildersOnly, TInv, NEW t \in Threads, Begin(t)
    PROVE  Building(pc'[t], req'[t], loc'[t], dir'[t], Extract(t), snaps')
  <1>1. ThreadsFit /\ loc = [u \in Threads |-> loc[u]] /\ req = [u \in Threads |-> req[u]]
    BY DEF TInv, ThreadsFit
  <1>2. pc[t] = "idle"
    BY DEF Begin, MountStart, UmountStart, CommitStart, FetchStart, RecordStart, UnpackStart,
           DeleteStart, LabelStart, LookStart, Start, At
  <1>3. loc[t] = Blank /\ Blank \in Locals /\ ~ Blank.err /\ ~ Blank.errs
    BY <1>1, <1>2, BlankFacts DEF ThreadsFit, Fits, Blank
  <1>4. CASE UmountStart(t)
    <2>1. PICK r \in Requests[t] : /\ r.op = "umount"
                                   /\ Goto(t, IF r.rm = 0 THEN "return" ELSE "umount_lease")
                                   /\ UNCHANGED loc
      BY <1>4 DEF UmountStart, Start, BuildersOnly
    <2>2. r.rm = 0
      BY <2>1 DEF BuildersOnly
    <2>3. pc'[t] = "return" /\ Unfailed(loc'[t])
      BY <1>1, <1>3, <2>1, <2>2, PartsLead DEF Unfailed
    <2>4. QED
      BY <2>3, PlainBuilding DEF LayerPart, WalkPart, MountPart
  <1>5. CASE MountStart(t)
    <2>1. PICK r \in Requests[t] :
             /\ r.op = "mount"
             /\ r.ref = NoRef \/ r.ref \in DOMAIN images
             /\ Start(t, r, "mount_lease")
             /\ loc' = [loc EXCEPT ![t].chain = IF r.ref = NoRef THEN << >> ELSE images[r.ref]]
      BY <1>5 DEF MountStart
    <2>2. pc'[t] = "mount_lease" /\ req'[t] = r
      BY <1>1, <2>1, PartsLead DEF Start
    <2>3. loc'[t].chain = (IF r.ref = NoRef THEN << >> ELSE images[r.ref]) /\ Unfailed(loc'[t])
      BY <1>1, <1>3, <2>1 DEF Locals, Unfailed
    <2>4. r.ref = NoRef \/ r.unpack
      BY <2>1 DEF BuildersOnly
    <2>5. loc'[t].chain = << >> \/ r.unpack
      BY <2>3, <2>4
    <2>6. loc'[t].chain = << >> \/ req'[t].unpack
      BY <2>2, <2>5
    <2>7. Rising(pc'[t], loc'[t], Extract(t), snaps')
      BY <2>2 DEF Rising, LayerPart
    <2>8. loc'[t].chain = << >> => r.ref = NoRef
      <3>1. r.ref # NoRef => images[r.ref] \in Chains
        BY <2>1 DEF TInv, StoreTyped, ImagesTyped
      <3>2. QED
        BY <2>3, <3>1 DEF Chains
    <2>9. QED
      BY <2>2, <2>3, <2>6, <2>7, <2>8 DEF Building, WalkPart
  <1>6. ASSUME Begin(t), ~ UmountStart(t), ~ MountStart(t)
        PROVE  Unfailed(loc'[t]) /\ pc'[t] \notin {"mount_lease", "umount_lease"}
    <2>1. ASSUME NEW c, \/ loc' = [loc EXCEPT ![t].chain = c]
                        \/ loc' = [loc EXCEPT ![t].todo = c]
          PROVE  Unfailed(loc'[t])
      BY <1>1, <1>3, <2>1 DEF Locals, Unfailed
    <2>2. ASSUME \/ \E c : loc' = [loc EXCEPT ![t].chain = c]
                 \/ \E c : loc' = [loc EXCEPT ![t].todo = c]
          PROVE  Unfailed(loc'[t])
      BY <2>1, <2>2
    <2>3. CASE FetchStart(t) \/ RecordStart(t) \/ UnpackStart(t)
      <3>1. Unfailed(loc'[t])
        BY <2>2, <2>3 DEF FetchStart, RecordStart, UnpackStart
      <3>2. QED
        BY <1>1, <2>3, <3>1, PartsLead DEF FetchStart, RecordStart, UnpackStart, Start
    <2>4. CASE CommitStart(t) \/ DeleteStart(t) \/ LabelStart(t) \/ LookStart(t)
      BY <1>1, <1>3, <2>4, PartsLead DEF CommitStart, DeleteStart, LabelStart, LookStart, Start,
                                         Unfailed
    <2>5. QED
      BY <1>6, <2>3, <2>4 DEF Begin
  <1>7. ASSUME ~ UmountStart(t), ~ MountStart(t)
        PROVE  Building(pc'[t], req'[t], loc'[t], dir'[t], Extract(t), snaps')
    <2>1. pc'[t] \in {"return", "commit", "fetch", "put_create", "put_update", "unpack", "delete",
                      "label_stat", "label_write", "look"}
      BY <1>1, <1>6, <1>7, BeginLeads
    <2>2. QED
      BY <1>6, <1>7, <2>1, PlainBuilding DEF LayerPart, WalkPart, MountPart
  <1>8. QED
    BY <1>4, <1>5, <1>7

LEMMA Continued ==
    ASSUME ThreadsFit, NEW t \in Threads, pc[t] # "idle", Continue(t)
    PROVE  /\ pc'[t] = loc[t].next
           /\ loc'[t].chain = loc[t].chain /\ loc'[t].err = loc[t].err
           /\ loc'[t].todo = loc[t].todo /\ loc'[t].errs = loc[t].errs
           /\ loc'[t].loop = loc[t].loop /\ loc'[t].layer = loc[t].layer
  <1> DEFINE l == [loc[t] EXCEPT !.next = "return", !.i = 0, !.cur = NoParent,
                                 !.par = NoParent, !.depth = 0]
  <1>1. loc = [u \in Threads |-> loc[u]] /\ loc[t] \in Locals
    BY Busy DEF ThreadsFit
  <1>2. loc' = [loc EXCEPT ![t] = l]
    BY DEF Continue
  <1>3. /\ l.chain = loc[t].chain /\ l.err = loc[t].err /\ l.todo = loc[t].todo
        /\ l.errs = loc[t].errs /\ l.loop = loc[t].loop /\ l.layer = loc[t].layer
    BY <1>1 DEF Locals
  <1> HIDE DEF l
  <1>4. loc'[t] = l
    BY <1>1, <1>2
  <1>5. QED
    BY <1>3, <1>4, PartsLead

\* The part "unpack" ends in one of three places.
LEMMA UnpackNexts ==
    ASSUME ThreadsFit, NEW t \in Threads, UnpackStep(t)
    PROVE  /\ pc[t] \in UnpackPart /\ pc[t] # "idle"
           /\ loc[t].next \in {"return", "unpacked", "mount_create"}
  <1>1. pc[t] \in UnpackPart /\ pc[t] # "idle"
    BY DEF UnpackStep, CheckUnpacked, PrepareLayer, ApplyLayer, CommitLayer, AbortLayer, At,
           UnpackPart, LayerPart
  <1>2. req[t].op \in Importers \cup {"pull", "mount", "commit", "unpack"}
    BY <1>1, Busy DEF Reaches, Fetchers
  <1>3. pc[t] # "diff_lower"
    BY <1>1 DEF UnpackPart, LayerPart
  <1>4. QED
    BY <1>1, <1>2, <1>3, Busy DEF Follows

\* What a builder unpacks or mounts can be read.
LEMMA BuilderContent ==
    ASSUME BuildersOnly, ContentInv, NEW t \in Threads,
           pc[t] \in UnpackPart \cup {"mount_create"}, loc[t].chain # << >>
    PROVE  ContentOf(loc[t].chain) \subseteq blobs
  <1>1. FetchedOnly
    BY DEF BuildersOnly, FetchedOnly
  <1>2. QED
    BY <1>1 DEF ContentInv, Stocked

LEMMA BuilderUnpacks ==
    ASSUME BuildersOnly, TInv, TempsInv, ContentInv, ChainsInv, BuildersInv,
           NEW t \in Threads, UnpackStep(t)
    PROVE  Building(pc'[t], req'[t], loc'[t], dir'[t], Extract(t), snaps')
  <1>1. ThreadsFit /\ Unfailed(loc[t]) /\ Rising(pc[t], loc[t], Extract(t), snaps)
    BY DEF TInv, BuildersInv, Building
  <1>2. Rises(t) /\ loc[t].chain # << >>
    <2>1. pc[t] \in UnpackPart /\ loc[t].chain # << >>
      BY <1>1, UnpackNexts, Busy DEF Works
    <2>2. ContentOf(loc[t].chain) \subseteq blobs
      BY <2>1, BuilderContent
    <2>3. QED
      BY <1>1, <2>1, <2>2, OwnRises DEF BuildersOnly, ChainsInv, Unfailed
  <1>3. CASE /\ pc'[t] \in LayerPart /\ ~ loc'[t].err /\ loc'[t].errs = loc[t].errs
             /\ Rising(pc'[t], loc'[t], Extract(t), snaps')
    BY <1>1, <1>3 DEF Building, LayerPart, WalkPart, Unfailed
  <1>4. CASE Continue(t) /\ Chain(loc[t].chain) \in DOMAIN snaps'
    <2>1. pc'[t] \in {"return", "unpacked", "mount_create"}
      BY <1>1, <1>4, UnpackNexts, Continued
    <2>2. /\ Unfailed(loc'[t]) /\ Chain(loc'[t].chain) \in DOMAIN snaps'
          /\ loc'[t].chain # << >>
      BY <1>1, <1>2, <1>4, UnpackNexts, Continued DEF Unfailed
    <2>3. QED
      BY <2>1, <2>2 DEF Building, Rising, LayerPart, WalkPart
  <1>5. QED
    BY <1>2, <1>3, <1>4 DEF Rises

LEMMA BuilderMounts ==
    ASSUME BuildersOnly, TInv, IInv, ContentInv, ChainsInv, BuildersInv,
           NEW t \in Threads, MountStep(t)
    PROVE  Building(pc'[t], req'[t], loc'[t], dir'[t], Extract(t), snaps')
  <1> DEFINE n == req[t].name
             c == loc[t].chain
  <1>1. /\ ThreadsFit /\ loc = [u \in Threads |-> loc[u]]
        /\ dir = [u \in Threads |-> dir[u]]
        /\ Unfailed(loc[t])
        /\ pc[t] \notin {"umount_lease", "umount_unlease", "mount_undo", "mount_failed"}
        /\ pc[t] = "mount_lease" => c = << >> \/ req[t].unpack
        /\ pc[t] \in {"mount_lease", "mount_create"} /\ c = << >> => req[t].ref = NoRef
        /\ pc[t] = "mount_create" => c = << >> \/ Chain(c) \in DOMAIN snaps
        /\ pc[t] = "mount_existing" => n \in DOMAIN snaps
        /\ pc[t] = "mount_all" => dir[t] # Gone
    BY DEF TInv, ThreadsFit, StoreTyped, MountsFollow, BuildersInv, Building
  <1>2. pc[t] \in MountPart => /\ pc[t] # "idle" /\ n[1] = "key" /\ n # Gone
                               /\ loc[t] \in Locals
    <2>1. pc[t] \in MountPart => pc[t] # "idle"
      BY DEF MountPart
    <2>2. QED
      BY <1>1, <2>1, Busy, BuilderCalls DEF Reaches
  <1>3. CASE MountLease(t)
    <2>1. pc[t] = "mount_lease" /\ loc[t] \in Locals /\ UNCHANGED req
      BY <1>2, <1>3 DEF MountLease, At, MountPart
    <2>2. loc'[t].chain = c /\ Unfailed(loc'[t])
      BY <1>1, <1>3, <2>1 DEF MountLease, Locals, Unfailed
    <2>3. pc'[t] = IF req[t].unpack THEN "unpack" ELSE "mount_create"
      BY <1>1, <1>3, PartsLead DEF MountLease
    <2>4. QED
      BY <1>1, <2>1, <2>2, <2>3 DEF Building, Rising, LayerPart, WalkPart
  <1>4. CASE MountCreate(t)
    <2>1. pc[t] = "mount_create" /\ UNCHANGED <<req, loc>>
      BY <1>4 DEF MountCreate, At
    <2>2. Chain(c) = NoParent \/ IsCommitted(snaps, Chain(c))
      <3>1. Chain(c)[1] = "chain"
        BY DEF Chain
      <3>2. QED
        BY <1>1, <2>1, <3>1, NoParentAssumption DEF ChainsInv, ChainsFaithful, IsCommitted
    <2> DEFINE found == Scratch(t) \/ Readable(c)
    <2>0. found
      <3>1. c = << >> => Scratch(t)
        BY <1>1, <2>1 DEF Scratch
      <3>2. c # << >> => Readable(c)
        BY <2>1, BuilderContent DEF Readable, ContentOf
      <3>3. QED
        BY <3>1, <3>2
    <2>3. CASE n \in DOMAIN snaps
      <3>1. CreateResult(snaps, n, Chain(c)) = "exists"
        BY <2>2, <2>3 DEF CreateResult, IsCommitted
      <3>2. Goto(t, "mount_existing") /\ UNCHANGED snaps
        BY <1>4, <2>0, <3>1 DEF MountCreate
      <3>3. pc'[t] = "mount_existing"
        BY <1>1, <3>2, PartsLead
      <3>4. QED
        BY <1>1, <2>1, <2>3, <3>2, <3>3 DEF Building, Rising, LayerPart, WalkPart
    <2>4. CASE n \notin DOMAIN snaps
      <3>1. CreateResult(snaps, n, Chain(c)) = "ok"
        BY <2>2, <2>4 DEF CreateResult, IsCommitted
      <3>2. Goto(t, "mount_all") /\ dir' = [dir EXCEPT ![t] = n]
        BY <1>4, <2>0, <3>1 DEF MountCreate
      <3>3. pc'[t] = "mount_all" /\ dir'[t] # Gone
        BY <1>1, <1>2, <2>1, <3>2, PartsLead DEF MountPart
      <3>4. QED
        BY <1>1, <2>1, <3>3 DEF Building, Rising, LayerPart, WalkPart
    <2>5. QED
      BY <2>3, <2>4
  <1>5. CASE MountExisting(t)
    <2>1. pc[t] = "mount_existing" /\ UNCHANGED <<req, loc>>
      BY <1>5 DEF MountExisting, At
    <2>2. n \in DOMAIN snaps /\ n[1] = "key" /\ n # Gone
      BY <1>1, <1>2, <2>1 DEF MountPart
    <2>3. MountsResult(snaps, n) = "ok"
      BY <2>2 DEF IInv, IInvIn, OnlyChainsCommittedIn, MountsResult
    <2>4. Goto(t, "mount_all") /\ dir' = [dir EXCEPT ![t] = n]
      BY <1>5, <2>3 DEF MountExisting
    <2>5. pc'[t] = "mount_all" /\ dir'[t] # Gone
      BY <1>1, <2>2, <2>4, PartsLead
    <2>6. QED
      BY <1>1, <2>1, <2>5 DEF Building, Rising, LayerPart, WalkPart
  <1>6. CASE MountAll(t)
    <2>1. Finish(t, FALSE)
      BY <1>1, <1>6 DEF MountAll, At, BuildersOnly
    <2>2. pc'[t] = "return" /\ Unfailed(loc'[t])
      BY <1>1, <2>1, Succeeds
    <2>3. QED
      BY <2>2, PlainBuilding DEF LayerPart, WalkPart, MountPart
  <1>7. ~ (MountUndo(t) \/ MountFailed(t) \/ UmountLease(t) \/ UmountUnlease(t))
    BY <1>1 DEF MountUndo, MountFailed, UmountLease, UmountUnlease, At
  <1>8. QED
    BY <1>3, <1>4, <1>5, <1>6, <1>7 DEF MountStep

\* The image that a builder stores is one of its request.
LEMMA BuilderImage ==
    ASSUME BuildersOnly, ThreadsFit, ImportsInv, NEW t \in Threads, pc[t] \in PutPart
    PROVE  /\ req[t].op \in {"import", "pull"} /\ req[t] \in Requests[t]
           /\ loc[t].todo # << >> /\ Image(t) = loc[t].todo[1]
           /\ Image(t).ref \in RefsOf(req[t])
           /\ pc[t] = "put_create" /\ req[t].op = "import" => Image(t).ref \notin DOMAIN images
  <1>1. pc[t] # "idle" /\ req[t] \in Requests[t] /\ loc[t].todo \in Seq(Images)
    BY Busy DEF PutPart, Locals
  <1>2. req[t].op \in {"import", "pull"} /\ req[t].op \in Fetchers
    BY <1>1, Busy, BuilderCalls DEF Reaches, Fetchers, Importers
  <1>3. loc[t].todo # << >>
    BY <1>1, <1>2, Busy DEF Works
  <1>4. 1 \in DOMAIN loc[t].todo /\ Image(t) = loc[t].todo[1]
    BY <1>1, <1>3, HeadTailProperties, EmptySeq, LenProperties DEF Image
  <1>5. Importing(pc[t], req[t], loc[t], images)
    BY DEF ImportsInv
  <1>6. QED
    BY <1>1, <1>2, <1>3, <1>4, <1>5 DEF Importing

\* The other parts of a builder's call do not fail.
LEMMA BuilderImages ==
    ASSUME BuildersOnly, TInv, BuildersInv, ImportsInv, NEW t \in Threads, pc[t] # "idle",
           ImageStep(t) \/ ImportStep(t) \/ LabelStep(t)
    PROVE  /\ Unfailed(loc'[t])
           /\ pc'[t] \in PutPart \cup {"return", "fetch_children", "unpack"}
  <1>1. /\ ThreadsFit /\ loc = [u \in Threads |-> loc[u]] /\ Unfailed(loc[t])
        /\ loc[t] \in Locals /\ Reaches(pc[t], req[t].op)
        /\ req[t].op \in {"import", "pull", "unpack", "mount", "umount", "look"}
        /\ req[t].op = "look" => req[t].name = NoParent
    BY Busy, BuilderCalls DEF TInv, ThreadsFit, BuildersInv, Building
  <1>2. ASSUME NEW l, loc' = [loc EXCEPT ![t] = l], Unfailed(l)
        PROVE  Unfailed(loc'[t])
    BY <1>1, <1>2
  <1>3. ASSUME NEW todo, NEW errs, UnpackFirst(t, todo, errs), ~ errs
        PROVE  Unfailed(loc'[t]) /\ pc'[t] = "unpack"
    <2> DEFINE l == [Blank EXCEPT !.chain = Head(todo).chain, !.todo = todo, !.errs = errs,
                                  !.loop = "unpacked", !.next = "unpacked"]
    <2>1. Unfailed(l)
      BY <1>3 DEF Blank, Unfailed
    <2>2. loc' = [loc EXCEPT ![t] = l] /\ Goto(t, "unpack")
      BY <1>3 DEF UnpackFirst
    <2> HIDE DEF l
    <2>3. QED
      BY <1>1, <1>2, <2>1, <2>2, PartsLead
  <1>4. ASSUME req[t].op = "import", Fetched(t)
        PROVE  Unfailed(loc'[t]) /\ pc'[t] = "return"
    <2>1. Finish(t, FALSE)
      BY <1>1, <1>4 DEF Fetched, Unfailed
    <2>2. QED
      BY <1>1, <2>1, Succeeds
  <1>5. ASSUME AfterPut(t), pc[t] \in PutPart
        PROVE  Unfailed(loc'[t]) /\ pc'[t] \in PutPart \cup {"return", "unpack"}
    <2>1. req[t].op \in {"import", "pull"}
      BY <1>1, <1>5 DEF Reaches, Fetchers, Importers
    <2>2. CASE req[t].op = "pull"
      <3>1. CASE Goto(t, "unpack") /\ loc' = [loc EXCEPT ![t] =
                                                [Blank EXCEPT !.chain = Image(t).chain]]
        <4> DEFINE l == [Blank EXCEPT !.chain = Image(t).chain]
        <4>1. Unfailed(l)
          BY DEF Blank, Unfailed
        <4> HIDE DEF l
        <4>2. QED
          BY <1>1, <1>2, <3>1, <4>1, PartsLead DEF l
      <3>2. CASE Finish(t, FALSE)
        BY <1>1, <3>2, Succeeds
      <3>3. QED
        BY <1>5, <2>2, <3>1, <3>2 DEF AfterPut
    <2>3. CASE req[t].op = "import"
      <3>1. AfterImported(t)
        BY <1>5, <2>3 DEF AfterPut
      <3>2. CASE Goto(t, "put_update") /\ loc' = [loc EXCEPT ![t].todo = Tail(@)]
        BY <1>1, <3>2, PartsLead DEF PutPart, Locals, Unfailed
      <3>3. QED
        BY <1>3, <1>4, <2>3, <3>1, <3>2 DEF AfterImported
    <2>4. QED
      BY <2>1, <2>2, <2>3
  <1>6. CASE FetchManifest(t) \/ FetchChildren(t)
    <2>1. UNCHANGED loc /\ \E p \in {"fetch_children", "put_create", "put_update"} : Goto(t, p)
      BY <1>6 DEF FetchManifest, FetchChildren, BuildersOnly
    <2>2. QED
      BY <1>1, <2>1, PartsLead DEF PutPart
  <1>7. CASE PutUpdate(t) \/ PutCreate(t)
    <2>1. pc[t] \in PutPart
      BY <1>7 DEF PutUpdate, PutCreate, At, PutPart
    <2>2. req[t].op \in {"import", "pull"}
      BY <1>1, <2>1 DEF Reaches, Fetchers, Importers
    <2>3. \/ AfterPut(t)
          \/ UNCHANGED loc /\ Goto(t, "put_create")
          \/ UNCHANGED loc /\ Goto(t, "put_update")
      BY <1>1, <1>7, <2>1, <2>2, BuilderImage DEF PutUpdate, PutCreate, At
    <2>4. CASE AfterPut(t)
      BY <1>5, <2>1, <2>4
    <2>5. QED
      BY <1>1, <2>3, <2>4, PartsLead DEF PutPart
  <1>8. ~ (DeleteGet(t) \/ DeleteCheck(t) \/ DeleteImage(t))
    BY <1>1 DEF DeleteGet, DeleteCheck, DeleteImage, At, Reaches, DeletePart
  <1>9. CASE Unpacked(t)
    <2>1. req[t].op = "import"
      BY <1>1, <1>9 DEF Unpacked, At, Reaches, Importers
    <2>2. QED
      BY <1>1, <1>3, <1>4, <1>9, <2>1 DEF Unpacked, Unfailed
  <1>10. ~ (Deleted(t) \/ Undone(t))
    BY <1>1 DEF Deleted, Undone, At, Reaches
  <1>11. CASE Look(t)
    <2>1. req[t].name = NoParent
      BY <1>1, <1>11 DEF Look, At, Reaches
    <2>2. Finish(t, req[t].name \notin DOMAIN snaps \cup {NoParent})
      BY <1>11 DEF Look
    <2>3. QED
      BY <1>1, <2>1, <2>2, Succeeds
  <1>12. ~ (LabelStat(t) \/ LabelWrite(t))
    BY <1>1 DEF LabelStat, LabelWrite, At, Reaches
  <1>13. QED
    BY <1>6, <1>7, <1>8, <1>9, <1>10, <1>11, <1>12 DEF ImageStep, ImportStep, LabelStep

LEMMA BuilderSteps ==
    ASSUME BuildersOnly, TInv, IInv, TempsInv, ContentInv, ChainsInv, BuildersInv, ImportsInv,
           NEW t \in Threads, Begin(t) \/ Step(t)
    PROVE  Building(pc'[t], req'[t], loc'[t], dir'[t], Extract(t), snaps')
  <1>1. ThreadsFit
    BY DEF TInv
  <1>2. ~ RemovalStep(t)
    <2>1. pc[t] \notin WalkPart
      BY DEF BuildersInv, Building
    <2>2. QED
      BY <2>1 DEF RemovalStep, StatLink, RemoveLink, At, WalkPart
  <1>3. ~ CommitStep(t)
    BY <1>1, BuildersUnpack, NoCommits
  <1>4. CASE Return(t)
    <2>1. pc'[t] = "idle" /\ loc'[t] = Blank
      BY <1>1, <1>4, PartsLead DEF Return, ThreadsFit
    <2>2. Unfailed(loc'[t])
      BY <2>1 DEF Blank, Unfailed
    <2>3. QED
      BY <2>1, <2>2, PlainBuilding DEF LayerPart, WalkPart, MountPart
  <1>5. CASE ImageStep(t) \/ ImportStep(t) \/ LabelStep(t)
    <2>1. pc[t] # "idle"
      BY <1>5, StepCalls DEF Step, Return, ImageStep, FetchManifest, FetchChildren, PutUpdate,
                             PutCreate, DeleteGet, DeleteCheck, DeleteImage, ImportStep,
                             Unpacked, Deleted, Undone, LabelStep, LabelStat, LabelWrite, Look, At
    <2>2. /\ Unfailed(loc'[t])
          /\ pc'[t] \in PutPart \cup {"return", "fetch_children", "unpack"}
      BY <1>5, <2>1, BuilderImages
    <2>3. QED
      BY <2>2, PlainBuilding DEF LayerPart, WalkPart, MountPart, PutPart
  <1>6. QED
    BY <1>2, <1>3, <1>4, <1>5, BuilderStarts, BuilderUnpacks, BuilderMounts DEF Step

\* A builder takes nothing away but its own extraction snapshot.
LEMMA BuildersKeep ==
    ASSUME BuildersOnly, TInv, BuildersInv, NEW u \in Threads, Begin(u) \/ Step(u),
           NEW n, n # Extract(u), n[1] \in {"key", "chain", "extract"}
    PROVE  ~ Taken(u, n)
  <1>1. ThreadsFit /\ pc[u] \notin WalkPart \cup {"mount_undo"}
    BY DEF TInv, BuildersInv, Building
  <1>2. n \notin {Lower(u), Upper(u)}
    BY DEF Lower, Upper, Temp
  <1>3. ~ RemoveLink(u) /\ ~ MountUndo(u)
    BY <1>1 DEF RemoveLink, MountUndo, At, WalkPart
  <1>4. ~ CommitActive(u)
    BY <1>1, BuildersUnpack, NoCommits DEF CommitStep
  <1>5. QED
    BY <1>2, <1>3, <1>4 DEF Taken

\* What its next record needs stays as it is.
LEMMA ImportGoes ==
    ASSUME BuildersOnly, TInv, ImportsInv, NEW t \in Threads, Begin(t) \/ Step(t)
    PROVE  Importing(pc'[t], req'[t], loc'[t], images')
  <1>1. /\ ThreadsFit /\ loc = [u \in Threads |-> loc[u]] /\ req = [u \in Threads |-> req[u]]
        /\ Importing(pc[t], req[t], loc[t], images)
    BY DEF TInv, ThreadsFit, ImportsInv
  <1>2. ASSUME pc'[t] \notin FetchPart \cup PutPart
        PROVE  Importing(pc'[t], req'[t], loc'[t], images')
    BY <1>2 DEF Importing
  <1>3. CASE Begin(t)
    <2>1. CASE FetchStart(t)
      <3>1. PICK r \in Requests[t] : /\ r.op \in {"import", "single", "pull"}
                                     /\ Start(t, r, "fetch")
                                     /\ loc' = [loc EXCEPT ![t].todo = r.archive]
        BY <2>1 DEF FetchStart
      <3>2. pc'[t] = "fetch" /\ req'[t] = r /\ loc[t] \in Locals
        BY <1>1, <3>1, PartsLead DEF Start, ThreadsFit, Fits
      <3>3. loc'[t].todo = r.archive
        BY <1>1, <3>1, <3>2 DEF Locals
      <3>4. QED
        BY <3>1, <3>2, <3>3 DEF Importing, RefsOf
    <2>2. ~ RecordStart(t)
      BY DEF RecordStart, BuildersOnly
    <2>3. CASE Begin(t) /\ ~ FetchStart(t)
      <3>1. pc'[t] \in {"mount_lease", "return", "umount_lease", "commit", "unpack", "delete",
                        "label_stat", "label_write", "look"}
        BY <1>1, <2>2, <2>3, PartsLead
           DEF Begin, MountStart, UmountStart, CommitStart, UnpackStart, DeleteStart, LabelStart,
               LookStart, Start
      <3>2. QED
        BY <1>2, <3>1 DEF FetchPart, PutPart
    <2>4. QED
      BY <1>3, <2>1, <2>3
  <1>4. CASE UnpackStep(t) \/ RemovalStep(t) \/ MountStep(t) \/ LabelStep(t) \/ ImportStep(t)
    BY <1>1, <1>2, <1>4, UnpackLeads, RemovalLeads, MountLeads, LabelLeads, ImportLeads
       DEF FetchPart, PutPart, UnpackPart, LayerPart, WalkPart, MountPart
  <1>5. CASE Return(t)
    BY <1>1, <1>2, <1>5, PartsLead DEF Return, FetchPart, PutPart
  <1>6. ~ CommitStep(t)
    BY <1>1, BuildersUnpack, NoCommits
  <1>7. ~ (DeleteGet(t) \/ DeleteCheck(t) \/ DeleteImage(t))
    <2>1. pc[t] \in DeletePart => pc[t] # "idle" /\ req[t].op \in {"delete", "single"}
      BY <1>1, Busy DEF Reaches, DeletePart
    <2>2. QED
      BY <1>1, <2>1, BuilderCalls DEF DeleteGet, DeleteCheck, DeleteImage, At, DeletePart
  <1>8. CASE FetchManifest(t) \/ FetchChildren(t)
    <2>1. /\ pc[t] \in FetchPart /\ UNCHANGED <<req, loc, images>>
          /\ \/ Goto(t, "fetch_children") \/ Goto(t, "put_update")
             \/ req[t].op = "pull" /\ Goto(t, "put_create")
      BY <1>8 DEF FetchManifest, FetchChildren, BuildersOnly, At, FetchPart
    <2>2. pc'[t] = "put_create" => req[t].op = "pull"
      BY <1>1, <2>1, PartsLead
    <2>3. QED
      BY <1>1, <2>1, <2>2 DEF Importing
  <1>9. CASE PutUpdate(t) \/ PutCreate(t)
    <2>1. pc[t] \in PutPart /\ UNCHANGED req
      BY <1>9 DEF PutUpdate, PutCreate, At, PutPart
    <2>2. req[t].op \in {"import", "pull"} /\ loc[t].todo # << >> /\ Image(t) = loc[t].todo[1]
      BY <1>1, <2>1, BuilderImage
    <2>3. \/ AfterPut(t) \/ Finish(t, TRUE)
          \/ UNCHANGED <<loc, images>> /\ Image(t).ref \notin DOMAIN images /\ Goto(t, "put_create")
          \/ UNCHANGED <<loc, images>> /\ Goto(t, "put_update")
      BY <1>9 DEF PutUpdate, PutCreate
    <2>4. CASE Finish(t, TRUE)
      BY <1>1, <1>2, <2>4, PartsLead DEF FetchPart, PutPart
    <2>5. CASE /\ UNCHANGED <<loc, images>> /\ Image(t).ref \notin DOMAIN images
               /\ Goto(t, "put_create")
      BY <1>1, <2>1, <2>2, <2>5 DEF Importing
    <2>6. CASE UNCHANGED <<loc, images>> /\ Goto(t, "put_update")
      <3>1. pc'[t] = "put_update"
        BY <1>1, <2>6, PartsLead
      <3>2. QED
        BY <1>1, <2>1, <2>6, <3>1 DEF Importing
    <2>7. CASE AfterPut(t)
      <3> DEFINE s == loc[t].todo
      <3>1. CASE Goto(t, "put_update") /\ loc' = [loc EXCEPT ![t].todo = Tail(@)]
        <4>1. loc[t] \in Locals /\ s \in Seq(Images) /\ s # << >>
          BY <1>1, <2>1, <2>2, Busy DEF Locals, PutPart
        <4>2. loc'[t].todo = Tail(s) /\ pc'[t] = "put_update"
          BY <1>1, <3>1, <4>1, PartsLead DEF Locals
        <4>3. \A i \in DOMAIN Tail(s) : i + 1 \in DOMAIN s /\ Tail(s)[i] = s[i + 1]
          <5> HIDE DEF s
          <5>1. QED
            BY <4>1, HeadTailProperties, LenProperties, EmptySeq
        <4>4. \A i \in DOMAIN s : s[i].ref \in RefsOf(req[t])
          BY <1>1, <2>1, <2>2 DEF Importing, Fetchers, Importers
        <4>5. QED
          BY <2>1, <4>2, <4>3, <4>4 DEF Importing
      <3>2. CASE ~ (Goto(t, "put_update") /\ loc' = [loc EXCEPT ![t].todo = Tail(@)])
        <4>1. \/ Finish(t, FALSE) \/ Goto(t, "unpack") \/ Fetched(t)
          BY <2>2, <2>7, <3>2 DEF AfterPut, AfterImported, UnpackFirst
        <4>2. pc'[t] \in {"return", "unpack", "delete"}
          BY <1>1, <4>1, PartsLead, FetchedLeads
        <4>3. QED
          BY <1>2, <4>2 DEF FetchPart, PutPart
      <3>3. QED
        BY <3>1, <3>2
    <2>8. QED
      BY <2>3, <2>4, <2>5, <2>6, <2>7
  <1>10. QED
    BY <1>3, <1>4, <1>5, <1>6, <1>7, <1>8, <1>9 DEF Step, ImageStep

LEMMA ImportsStep ==
    ASSUME BuildersOnly, TInv, ImportsInv, [Next]_vars
    PROVE  ImportsInv'
  <1>1. ThreadsFit
    BY DEF TInv
  <1>2. CASE \E u \in Threads : Begin(u) \/ Step(u)
    <2>1. PICK u \in Threads : Begin(u) \/ Step(u)
      BY <1>2
    <2>2. ASSUME NEW t \in Threads \ {u}
          PROVE  Importing(pc'[t], req'[t], loc'[t], images')
      <3>1. pc'[t] = pc[t] /\ req'[t] = req[t] /\ loc'[t] = loc[t]
        BY <1>1, <2>1, StepApart DEF Apart
      <3>2. Importing(pc[t], req[t], loc[t], images)
        BY DEF ImportsInv
      <3>3. CASE pc[t] = "put_create" /\ req[t].op = "import"
        <4> DEFINE q == loc[t].todo[1].ref
        <4>1. pc[t] \in PutPart
          BY <3>3 DEF PutPart
        <4>2. q \in RefsOf(req[t]) /\ q \notin DOMAIN images /\ req[t] \in Requests[t]
          BY <1>1, <3>3, <4>1, BuilderImage
        <4>3. ~ (pc[u] \in PutPart /\ q = Image(u).ref)
          <5>1. pc[u] \in PutPart => req[u] \in Requests[u] /\ Image(u).ref \in RefsOf(req[u])
            BY <1>1, BuilderImage
          <5>2. \A s \in Requests[u] : RefsOf(req[t]) \cap RefsOf(s) = {}
            BY <3>3, <4>2 DEF BuildersOnly
          <5>3. QED
            BY <4>2, <5>1, <5>2
        <4>4. q \notin DOMAIN images'
          BY <2>1, <4>2, <4>3, StepRecords
        <4>5. QED
          BY <3>1, <3>2, <4>4 DEF Importing
      <3>4. QED
        BY <3>1, <3>2, <3>3 DEF Importing
    <2>3. Importing(pc'[u], req'[u], loc'[u], images')
      BY <2>1, ImportGoes
    <2>4. QED
      BY <2>2, <2>3 DEF ImportsInv
  <1>3. CASE UserWrite \/ UNCHANGED vars
    <2>1. UNCHANGED <<pc, req, loc, images>>
      BY <1>3 DEF UserWrite, thread, vars
    <2>2. QED
      BY <2>1 DEF ImportsInv
  <1>4. CASE Kill \/ Reboot \/ \E t \in Threads : MountPanic(t)
    <2>1. \A t \in Threads : pc'[t] = "idle"
      BY <1>4 DEF Kill, Reboot, MountPanic, ProcessEnds
    <2>2. QED
      BY <2>1 DEF ImportsInv, Importing, FetchPart, PutPart
  <1>5. QED
    BY <1>2, <1>3, <1>4 DEF Next

\* Without faults, everybody's temporary names stay.
LEMMA FaultlessNames ==
    ASSUME ~ Faults, TInv, NEW t \in Threads, Begin(t) \/ Step(t)
    PROVE  \A u \in Threads : Extract(u)' = Extract(u)
  <1>1. serial' = serial
    BY DEF Step, Begin, MountStart, UmountStart, CommitStart, FetchStart, RecordStart, UnpackStart,
           DeleteStart, LabelStart, LookStart, UnpackStep, CheckUnpacked, PrepareLayer, ApplyLayer,
           CommitLayer, AbortLayer, RemovalStep, StatLink, RemoveLink, MountStep, MountLease,
           MountCreate, MountExisting, MountAll, MountUndo, MountFailed, UmountLease,
           UmountUnlease, CommitStep, CommitStat, CommitBase, DiffStat, DiffLower, DiffMounts,
           DiffView, Compare, CleanUpper, CleanLower, CommitMounts, CommitApply, CommitActive,
           CommitManifest, CommitConfig, WriteBlob, ImageStep, FetchManifest, FetchChildren,
           PutUpdate, PutCreate, DeleteGet, DeleteCheck, DeleteImage, ImportStep, Unpacked, Deleted,
           Undone, LabelStep, LabelStat, LabelWrite, Look, Return, Lose
  <1>2. QED
    BY <1>1 DEF Extract, Temp

LEMMA BuildersStep ==
    ASSUME BuildersOnly, TInv, IInv, TempsInv, ContentInv, ChainsInv, BuildersInv, ImportsInv,
           [Next]_vars
    PROVE  BuildersInv'
  <1>1. ThreadsFit
    BY DEF TInv
  <1>2. CASE \E u \in Threads : Begin(u) \/ Step(u)
    <2>1. PICK u \in Threads : Begin(u) \/ Step(u)
      BY <1>2
    <2>2. \A t \in Threads : Extract(t)' = Extract(t)
      BY <2>1, FaultlessNames DEF BuildersOnly
    <2>3. ASSUME NEW n, n \in DOMAIN snaps, n # Extract(u), n[1] \in {"key", "chain", "extract"}
          PROVE  n \in DOMAIN snaps'
      BY <2>1, <2>3, BuildersKeep, StepChanges DEF Changed
    <2>4. ASSUME NEW t \in Threads \ {u}
          PROVE  Building(pc'[t], req'[t], loc'[t], dir'[t], Extract(t), snaps')
      <3>1. pc'[t] = pc[t] /\ req'[t] = req[t] /\ loc'[t] = loc[t]
        BY <1>1, <2>1, StepApart DEF Apart
      <3>2. Building(pc[t], req[t], loc[t], dir[t], Extract(t), snaps)
        BY DEF BuildersInv
      <3>3. Extract(t) # Extract(u) /\ Extract(t)[1] = "extract"
        BY DEF Extract, Temp
      <3>4. \A c : Chain(c)[1] = "chain" /\ Chain(c) # Extract(u)
        BY DEF Chain, Extract, Temp
      <3>5. pc[t] \in MountPart => req[t].name[1] = "key" /\ req[t].name # Extract(u)
        <4>1. pc[t] \in MountPart => pc[t] # "idle"
          BY DEF MountPart
        <4>2. pc[t] \in MountPart => req[t].name[1] = "key"
          BY <1>1, <4>1, Busy, BuilderCalls DEF Reaches
        <4>3. QED
          BY <4>2 DEF Extract, Temp
      <3>6. dir[t] # Gone => dir'[t] # Gone
        <4> SUFFICES ASSUME dir[t] # Gone
                     PROVE  dir'[t] # Gone
          OBVIOUS
        <4>1. dir[t][1] = "key"
          BY DEF ChainsInv
        <4>2. dir[t] # Extract(u)
          BY <4>1 DEF Extract, Temp
        <4>3. ~ Taken(u, dir[t])
          BY <2>1, <4>1, <4>2, BuildersKeep
        <4>4. QED
          BY <2>1, <4>3, StepHolds
      <3>7. Rising(pc[t], loc[t], Extract(t), snaps')
        <4>1. Rising(pc[t], loc[t], Extract(t), snaps)
          BY <3>2 DEF Building
        <4>2. Extract(t) \in DOMAIN snaps => Extract(t) \in DOMAIN snaps'
          BY <2>3, <3>3
        <4>3. \A c : Chain(c) \in DOMAIN snaps => Chain(c) \in DOMAIN snaps'
          BY <2>3, <3>4
        <4>4. QED
          BY <4>1, <4>2, <4>3 DEF Rising
      <3>8. Chain(loc[t].chain) \in DOMAIN snaps => Chain(loc[t].chain) \in DOMAIN snaps'
        BY <2>3, <3>4
      <3>9. pc[t] = "mount_existing" => req[t].name \in DOMAIN snaps'
        BY <2>3, <3>2, <3>5 DEF Building, MountPart
      <3>10. QED
        BY <3>1, <3>2, <3>6, <3>7, <3>8, <3>9 DEF Building
    <2>5. Building(pc'[u], req'[u], loc'[u], dir'[u], Extract(u), snaps')
      BY <2>1, BuilderSteps
    <2>6. QED
      BY <2>2, <2>4, <2>5 DEF BuildersInv, Building, Rising
  <1>3. CASE UserWrite
    <2>1. UNCHANGED <<pc, req, loc, dir, serial>> /\ DOMAIN snaps' = DOMAIN snaps
      BY <1>3 DEF UserWrite, thread, Written
    <2>2. QED
      BY <2>1 DEF BuildersInv, Building, Rising, Extract, Temp
  <1>4. CASE UNCHANGED vars
    BY <1>4 DEF vars, BuildersInv, Building, Rising, Extract, Temp
  <1>5. CASE Kill \/ Reboot \/ \E t \in Threads : MountPanic(t)
    <2>1. \A t \in Threads : pc'[t] = "idle" /\ Unfailed(loc'[t])
      BY <1>5 DEF Kill, Reboot, MountPanic, ProcessEnds, Blank, Unfailed
    <2>2. QED
      BY <2>1, PlainBuilding DEF BuildersInv, Building, Rising, LayerPart, WalkPart, MountPart
  <1>6. QED
    BY <1>2, <1>3, <1>4, <1>5 DEF Next

\* Calls that only add to the store never get in each other's way: an import, a
\* pull, an unpacking or a mount of any number of threads that share layers and
\* keys does what it was called for when there is no I/O error, whatever crashes
\* there are between: whoever loses the race for a chain ID goes on with what
\* the winner made.  An import is among them if nobody else stores its names.
THEOREM StoreNoSpuriousFailure ==
    ASSUME BuildersOnly
    PROVE  Spec => []NoSpuriousFailure
  <1>1. Init => TempsInv /\ ChainsInv /\ BuildersInv /\ ImportsInv
    <2> SUFFICES ASSUME Init
                 PROVE  TempsInv /\ ChainsInv /\ BuildersInv /\ ImportsInv
      OBVIOUS
    <2>1. TempsInv
      BY DEF Init, TempsInv, TempsHeld, Temporary
    <2>2. ChainsInv
      BY DEF Init, ChainsInv, ChainsFaithful, Extracted
    <2>3. \A t \in Threads : pc[t] = "idle" /\ Unfailed(loc[t])
      BY DEF Init, Blank, Unfailed
    <2>4. BuildersInv
      BY <2>3, PlainBuilding DEF BuildersInv, LayerPart, WalkPart, MountPart
    <2>5. ImportsInv
      BY <2>3 DEF ImportsInv, Importing, FetchPart, PutPart
    <2>6. QED
      BY <2>1, <2>2, <2>4, <2>5
  <1>2. TInv /\ IInv /\ TempsInv /\ ContentInv /\ ChainsInv /\ BuildersInv /\ ImportsInv
        /\ [Next]_vars => TempsInv' /\ ChainsInv' /\ BuildersInv' /\ ImportsInv'
    BY TempsStep, ChainsStep, BuildersStep, ImportsStep, BuildersUnpack
  <1>3. BuildersInv => NoSpuriousFailure
    BY DEF BuildersInv, Building, NoSpuriousFailure, Unfailed
  <1>4. QED
    BY <1>1, <1>2, <1>3, ContentInvariant, WalksInvariant, PTL DEF Spec

-----------------------------------------------------------------------------
(* Chain IDs with commits.  A Commit resolves the image that the label of   *)
(* its snapshot names; where that name keeps its content, it finds the base *)
(* that the snapshot was made on.                                           *)

\* The keys that somebody commits.
CommitKeys == {n \in {"key"} \X Keys :
                  \E t \in Threads : \E r \in Requests[t] : r.op = "commit" /\ r.name = n}

\* content: the layers of the images whose names keep their content.
Settles(content, ref, chain) == ref \in DOMAIN content => chain = content[ref]

Base(content, ref) == IF ref = NoRef THEN << >> ELSE content[ref]

\* What t stores under these names is the content.
Stores(content, t) ==
    \A r \in Requests[t] :
        /\ r.op \in Fetchers =>
              \A i \in DOMAIN r.archive :
                  Settles(content, r.archive[i].ref, r.archive[i].chain)
        /\ r.op \in {"create", "update"} => Settles(content, r.ref, r.chain)

\* It is the content that all store; a snapshot that is to be committed is
\* made on one of these names or from scratch, by nobody else than the thread
\* that commits it, and keeps its label; a commit makes another image.
Settled(content) ==
    \A t \in Threads :
        /\ Stores(content, t)
        /\ \A r \in Requests[t] :
              /\ r.op = "commit" => /\ r.ref \notin DOMAIN content
                                    /\ \A u \in Threads \ {t} : \A s \in Requests[u] :
                                          s.op = "mount" => s.name # r.name
              /\ r.op = "mount" => /\ r.name \in {"key"} \X Keys
                                   /\ r.name \in CommitKeys =>
                                         r.ref \in DOMAIN content \cup {NoRef}
              /\ r.op \in {"label", "update_labels"} => r.name \notin CommitKeys

\* A call that is to store records has the content of their names.
ToRecord(content, p, r, l) ==
    /\ p \in FetchPart \cup PutPart /\ r.op \in Fetchers =>
          \A i \in DOMAIN l.todo : Settles(content, l.todo[i].ref, l.todo[i].chain)
    /\ p \in PutPart /\ r.op \in {"create", "update"} => l.chain = r.chain

\* A Mount of such a key makes the snapshot on the content of its image.
ToMount(content, p, r, l) ==
    p \in MountPart \cup UnpackPart /\ r.op = "mount" /\ r.name \in CommitKeys =>
        l.chain = Base(content, r.ref)

ImagesSettled(content) == \A q \in DOMAIN images \cap DOMAIN content : images[q] = content[q]

RecordsInv(content) ==
    /\ ImagesSettled(content)
    /\ \A t \in Threads : /\ ToRecord(content, pc[t], req[t], loc[t])
                          /\ ToMount(content, pc[t], req[t], loc[t])

LEMMA NothingToRecord ==
    ASSUME NEW content, NEW p, NEW r, NEW l, p \notin FetchPart \cup PutPart
    PROVE  ToRecord(content, p, r, l)
  BY DEF ToRecord

LEMMA NothingToMount ==
    ASSUME NEW content, NEW p, NEW r, NEW l, p \notin MountPart \cup UnpackPart
    PROVE  ToMount(content, p, r, l)
  BY DEF ToMount

\* The image to be stored next has the content of its name.
LEMMA FirstSettles ==
    ASSUME NEW content, Settled(content), ThreadsFit, NEW t \in Threads, pc[t] \in PutPart,
           ToRecord(content, pc[t], req[t], loc[t])
    PROVE  Settles(content, Image(t).ref, Image(t).chain)
  <1>1. pc[t] # "idle" /\ pc[t] \notin FetchPart \cup WalkPart
    BY DEF PutPart, FetchPart, WalkPart
  <1>2. /\ req[t].op \in Fetchers \cup {"commit", "create", "update"}
        /\ req[t] \in Requests[t]
        /\ loc[t].todo \in Seq(Images)
        /\ req[t].op \in Fetchers => loc[t].todo # << >>
        /\ req[t].op \notin Fetchers => loc[t].todo = << >>
    <2>1. req[t].op \in Fetchers \cup {"commit", "create", "update"}
      BY <1>1, Busy DEF Reaches
    <2>2. QED
      BY <1>1, <2>1, Busy DEF Locals, Works
  <1>3. CASE req[t].op \in Fetchers
    <2>1. 1 \in DOMAIN loc[t].todo /\ Image(t) = loc[t].todo[1]
      BY <1>2, <1>3, HeadTailProperties, EmptySeq, LenProperties DEF Image
    <2>2. QED
      BY <1>3, <2>1 DEF ToRecord
  <1>4. CASE req[t].op \notin Fetchers
    <2>1. Image(t).ref = req[t].ref /\ Image(t).chain = loc[t].chain
      BY <1>2, <1>4 DEF Image
    <2>2. CASE req[t].op = "commit"
      BY <1>2, <2>1, <2>2 DEF Settled, Settles
    <2>3. CASE req[t].op \in {"create", "update"}
      <3>1. loc[t].chain = req[t].chain
        BY <2>3 DEF ToRecord
      <3>2. QED
        BY <1>2, <2>1, <2>3, <3>1 DEF Settled, Stores
    <2>4. QED
      BY <1>2, <1>4, <2>2, <2>3
  <1>5. QED
    BY <1>3, <1>4

LEMMA StartsToRecord ==
    ASSUME NEW content, ThreadsFit, NEW t \in Threads, Stores(content, t), Begin(t)
    PROVE  ToRecord(content, pc'[t], req'[t], loc'[t])
  <1>1. loc[t] \in Locals /\ loc = [u \in Threads |-> loc[u]] /\ req = [u \in Threads |-> req[u]]
    BY DEF ThreadsFit, Fits
  <1>2. CASE \/ MountStart(t) \/ UmountStart(t) \/ CommitStart(t) \/ UnpackStart(t)
             \/ DeleteStart(t) \/ LabelStart(t) \/ LookStart(t)
    <2>1. pc'[t] \in {"mount_lease", "return", "umount_lease", "commit", "unpack", "delete",
                      "label_stat", "label_write", "look"}
      BY <1>2, PartsLead DEF MountStart, UmountStart, CommitStart, UnpackStart, DeleteStart,
                             LabelStart, LookStart, Start
    <2>2. QED
      BY <2>1, NothingToRecord DEF FetchPart, PutPart
  <1>3. CASE FetchStart(t)
    <2>1. PICK r \in Requests[t] : /\ r.op \in {"import", "single", "pull"}
                                   /\ Start(t, r, "fetch")
                                   /\ loc' = [loc EXCEPT ![t].todo = r.archive]
      BY <1>3 DEF FetchStart
    <2>2. pc'[t] = "fetch" /\ req'[t] = r /\ loc'[t].todo = r.archive
      BY <1>1, <2>1, PartsLead DEF Start, Locals
    <2>3. r.op \in Fetchers
      BY <2>1 DEF Fetchers, Importers
    <2>4. \A i \in DOMAIN r.archive : Settles(content, r.archive[i].ref, r.archive[i].chain)
      BY <2>3 DEF Stores
    <2>5. QED
      BY <2>2, <2>4 DEF ToRecord, PutPart
  <1>4. CASE RecordStart(t)
    <2>1. PICK r \in Requests[t] :
                  /\ r.op \in {"create", "update"}
                  /\ Start(t, r, IF r.op = "create" THEN "put_create" ELSE "put_update")
                  /\ loc' = [loc EXCEPT ![t].chain = r.chain]
      BY <1>4, Zenon DEF RecordStart
    <2>2. req'[t] = r
      BY <1>1, <2>1 DEF Start
    <2>3. loc'[t].chain = r.chain
      BY <1>1, <2>1 DEF Locals
    <2>4. r.op \notin Fetchers
      BY <2>1 DEF Fetchers, Importers
    <2>5. QED
      BY <2>2, <2>3, <2>4 DEF ToRecord
  <1>5. QED
    BY <1>2, <1>3, <1>4 DEF Begin

LEMMA AfterPutToRecord ==
    ASSUME NEW content, ThreadsFit, NEW t \in Threads, pc[t] \in PutPart,
           ToRecord(content, pc[t], req[t], loc[t]), AfterPut(t), UNCHANGED req
    PROVE  ToRecord(content, pc'[t], req'[t], loc'[t])
  <1>1. /\ req[t].op \in Fetchers \cup {"commit", "create", "update"} /\ pc[t] # "idle"
        /\ loc[t] \in Locals /\ loc = [u \in Threads |-> loc[u]]
        /\ req[t].op \in Fetchers => loc[t].todo # << >>
    <2>1. pc[t] # "idle" /\ req[t].op \in Fetchers \cup {"commit", "create", "update"}
      BY Busy DEF Reaches, PutPart
    <2>2. QED
      BY <2>1, Busy DEF Works, ThreadsFit
  <1>2. ASSUME pc'[t] \in {"unpack", "return", "delete"}
        PROVE  ToRecord(content, pc'[t], req'[t], loc'[t])
    BY <1>2, NothingToRecord DEF PutPart, FetchPart
  <1>3. CASE req[t].op \notin Importers
    <2>1. Finish(t, FALSE) \/ \E l : Goto(t, "unpack") /\ (UNCHANGED loc \/ loc' = l)
      BY <1>1, <1>3 DEF AfterPut, Fetchers, Importers
    <2>2. QED
      BY <1>2, <2>1, PartsLead
  <1>4. CASE req[t].op \in Importers
    <2>1. AfterImported(t)
      BY <1>4 DEF AfterPut, Importers
    <2>2. CASE Len(loc[t].todo) > 1
      <3> DEFINE s == loc[t].todo
      <3>1. Goto(t, "put_update") /\ loc' = [loc EXCEPT ![t].todo = Tail(@)]
        BY <2>1, <2>2 DEF AfterImported
      <3>2. req[t].op \in Fetchers /\ req[t].op \notin {"create", "update"}
        BY <1>4 DEF Fetchers, Importers
      <3>3. s \in Seq(Images) /\ s # << >>
        BY <1>1, <3>2 DEF Locals
      <3>4. loc'[t].todo = Tail(s)
        BY <1>1, <3>1 DEF Locals
      <3>5. \A i \in DOMAIN s : Settles(content, s[i].ref, s[i].chain)
        BY <3>2 DEF ToRecord
      <3>6. \A i \in DOMAIN Tail(s) : i + 1 \in DOMAIN s /\ Tail(s)[i] = s[i + 1]
        <4> HIDE DEF s
        <4>1. QED
          BY <3>3, HeadTailProperties, LenProperties, EmptySeq
      <3>7. QED
        BY <3>2, <3>4, <3>5, <3>6 DEF ToRecord
    <2>3. CASE ~ (Len(loc[t].todo) > 1)
      <3>1. UnpackFirst(t, req[t].archive, FALSE) \/ Fetched(t)
        BY <2>1, <2>3 DEF AfterImported
      <3>2. QED
        BY <1>2, <3>1, PartsLead, FetchedLeads DEF UnpackFirst
    <2>4. QED
      BY <2>2, <2>3
  <1>5. QED
    BY <1>3, <1>4

LEMMA ImagesToRecord ==
    ASSUME NEW content, ThreadsFit, NEW t \in Threads,
           ToRecord(content, pc[t], req[t], loc[t]), ImageStep(t)
    PROVE  ToRecord(content, pc'[t], req'[t], loc'[t])
  <1>1. ASSUME pc'[t] \in {"return", "unpacked", "deleted", "undone", "delete_check", "walk",
                           "delete_image"}
        PROVE  ToRecord(content, pc'[t], req'[t], loc'[t])
    BY <1>1, NothingToRecord DEF FetchPart, PutPart
  <1>2. ASSUME pc[t] \in FetchPart \cup PutPart, UNCHANGED <<req, loc>>,
               pc[t] \in FetchPart => req[t].op \in Fetchers
        PROVE  ToRecord(content, pc'[t], req'[t], loc'[t])
    BY <1>2 DEF ToRecord, FetchPart, PutPart, Fetchers, Importers
  <1>3. CASE DeleteGet(t) \/ DeleteCheck(t) \/ DeleteImage(t)
    BY <1>1, <1>3, PartsLead DEF DeleteGet, DeleteCheck, DeleteImage, At
  <1>4. CASE FetchManifest(t) \/ FetchChildren(t)
    <2>1. pc[t] \in FetchPart /\ pc[t] # "idle" /\ UNCHANGED req
      BY <1>4 DEF FetchManifest, FetchChildren, At, FetchPart
    <2>2. req[t].op \in Fetchers
      BY <2>1, Busy DEF Reaches
    <2>3. Finish(t, TRUE) \/ UNCHANGED loc
      BY <1>4 DEF FetchManifest, FetchChildren
    <2>4. QED
      BY <1>1, <1>2, <2>1, <2>2, <2>3, PartsLead
  <1>5. CASE PutUpdate(t) \/ PutCreate(t)
    <2>1. /\ pc[t] \in PutPart /\ UNCHANGED req
          /\ AfterPut(t) \/ Finish(t, TRUE) \/ UNCHANGED loc
      BY <1>5 DEF PutUpdate, PutCreate, At, PutPart
    <2>2. pc[t] \notin FetchPart
      BY <2>1 DEF PutPart, FetchPart
    <2>3. QED
      BY <1>1, <1>2, <2>1, <2>2, AfterPutToRecord, PartsLead
  <1>6. QED
    BY <1>3, <1>4, <1>5 DEF ImageStep

LEMMA OwnToRecord ==
    ASSUME NEW content, ThreadsFit, NEW t \in Threads, Stores(content, t), Begin(t) \/ Step(t),
           ToRecord(content, pc[t], req[t], loc[t])
    PROVE  ToRecord(content, pc'[t], req'[t], loc'[t])
  <1>1. CASE UnpackStep(t) \/ RemovalStep(t) \/ MountStep(t) \/ LabelStep(t) \/ ImportStep(t)
    BY <1>1, NothingToRecord, UnpackLeads, RemovalLeads, MountLeads, LabelLeads, ImportLeads
       DEF FetchPart, PutPart, UnpackPart, LayerPart, WalkPart, MountPart
  <1>2. CASE Return(t)
    BY <1>2, NothingToRecord, PartsLead DEF Return, FetchPart, PutPart
  <1>3. CASE CommitStep(t)
    <2>1. pc[t] \in DiffPart \cup CommitPart /\ pc[t] # "idle" /\ UNCHANGED req
      BY <1>3 DEF CommitStep, CommitStat, CommitBase, DiffStat, DiffLower, DiffMounts,
                  DiffView, Compare, CleanUpper, CleanLower, CommitMounts, CommitApply,
                  CommitActive, CommitManifest, CommitConfig, WriteBlob, At, DiffPart, CommitPart
    <2>2. req'[t].op = "commit"
      BY <2>1, Busy DEF Reaches
    <2>3. QED
      BY <2>2 DEF ToRecord, Fetchers, Importers
  <1>4. QED
    BY <1>1, <1>2, <1>3, StartsToRecord, ImagesToRecord DEF Step

\* The extraction of an image keeps it.
LEMMA UnpackLeavesChain ==
    ASSUME ThreadsFit, NEW t \in Threads, UnpackStep(t), req[t].op = "mount"
    PROVE  /\ UNCHANGED req
           /\ loc'[t].chain = loc[t].chain \/ pc'[t] = "return"
  <1>1. /\ pc[t] \in UnpackPart /\ pc[t] # "idle" /\ UNCHANGED req
    BY DEF UnpackStep, CheckUnpacked, PrepareLayer, ApplyLayer, CommitLayer, AbortLayer, At,
           UnpackPart, LayerPart
  <1>2. loc[t] \in Locals /\ loc = [u \in Threads |-> loc[u]] /\ loc[t].loop = "none"
    BY <1>1, Busy DEF Follows, Importers, ThreadsFit
  <1>3. EndPart(t, TRUE) => pc'[t] = "return"
    <2>1. EndPart(t, TRUE) => Finish(t, TRUE)
      BY <1>2, Zenon DEF EndPart
    <2>2. QED
      BY <2>1, PartsLead
  <1>4. Continue(t) => loc'[t].chain = loc[t].chain
    BY <1>1, Continued
  <1>5. /\ \A n : loc' = [loc EXCEPT ![t].i = n] => loc'[t].chain = loc[t].chain
        /\ \A b : loc' = [loc EXCEPT ![t].err = b] => loc'[t].chain = loc[t].chain
    BY <1>2 DEF Locals
  <1>6. NextLayer(t) => loc'[t].chain = loc[t].chain
    BY <1>4, <1>5 DEF NextLayer
  <1>7. CASE CheckUnpacked(t) \/ PrepareLayer(t) \/ ApplyLayer(t)
    BY <1>1, <1>3, <1>4, <1>5, <1>7 DEF CheckUnpacked, PrepareLayer, ApplyLayer
  <1>8. CASE CommitLayer(t) \/ AbortLayer(t)
    BY <1>1, <1>3, <1>5, <1>6, <1>8 DEF CommitLayer, AbortLayer
  <1>9. QED
    BY <1>7, <1>8 DEF UnpackStep

LEMMA OwnToMount ==
    ASSUME NEW content, Settled(content), ImagesSettled(content), ThreadsFit,
           NEW t \in Threads, Begin(t) \/ Step(t), ToMount(content, pc[t], req[t], loc[t])
    PROVE  ToMount(content, pc'[t], req'[t], loc'[t])
  <1>1. loc = [u \in Threads |-> loc[u]] /\ req = [u \in Threads |-> req[u]] /\ loc[t] \in Locals
    BY DEF ThreadsFit, Fits
  <1>2. CASE MountStart(t)
    <2>1. PICK r \in Requests[t] :
                 /\ r.op = "mount"
                 /\ r.ref = NoRef \/ r.ref \in DOMAIN images
                 /\ Start(t, r, "mount_lease")
                 /\ loc' = [loc EXCEPT ![t].chain =
                              IF r.ref = NoRef THEN << >> ELSE images[r.ref]]
      BY <1>2 DEF MountStart
    <2>2. req'[t] = r /\ loc'[t].chain = IF r.ref = NoRef THEN << >> ELSE images[r.ref]
      BY <1>1, <2>1 DEF Start, Locals
    <2>3. r.name \in CommitKeys => r.ref \in DOMAIN content \cup {NoRef}
      BY <2>1 DEF Settled
    <2>4. r.ref \in DOMAIN content /\ r.ref # NoRef => images[r.ref] = content[r.ref]
      BY <2>1 DEF ImagesSettled
    <2>5. QED
      BY <2>2, <2>3, <2>4 DEF ToMount, Base
  <1>3. CASE Begin(t) /\ ~ MountStart(t)
    <2>1. \E r : Start(t, r, pc'[t]) /\ r.op # "mount"
      <3>1. \E r, p : Start(t, r, p) /\ r.op # "mount"
        BY <1>3 DEF Begin, UmountStart, CommitStart, FetchStart, RecordStart,
                    UnpackStart, DeleteStart, LabelStart, LookStart
      <3>2. QED
        BY <3>1, PartsLead DEF Start
    <2>2. req'[t].op # "mount"
      BY <1>1, <2>1 DEF Start
    <2>3. QED
      BY <2>2 DEF ToMount
  <1>4. CASE Return(t)
    BY <1>4, NothingToMount, PartsLead DEF Return, MountPart, UnpackPart, LayerPart
  <1>5. CASE Step(t) /\ ~ Return(t)
    <2>1. UNCHANGED req /\ pc[t] # "idle"
      BY <1>5, StepCalls
    <2> SUFFICES ASSUME req[t].op = "mount", pc'[t] \in MountPart \cup UnpackPart
                 PROVE  loc'[t].chain = loc[t].chain /\ pc[t] \in MountPart \cup UnpackPart
      BY <2>1 DEF ToMount
    <2>2. CASE UnpackStep(t)
      <3>1. pc[t] \in UnpackPart
        BY <2>2 DEF UnpackStep, CheckUnpacked, PrepareLayer, ApplyLayer, CommitLayer, AbortLayer,
                    At, UnpackPart, LayerPart
      <3>2. pc'[t] # "return"
        BY DEF MountPart, UnpackPart, LayerPart
      <3>3. QED
        BY <2>2, <3>1, <3>2, UnpackLeavesChain
    <2>3. CASE MountLease(t)
      <3>1. loc'[t].chain = loc[t].chain
        BY <1>1, <2>3 DEF MountLease, Locals
      <3>2. QED
        BY <2>3, <3>1 DEF MountLease, At, MountPart
    <2>4. CASE MountCreate(t) \/ MountExisting(t) \/ MountUndo(t)
      <3>1. UNCHANGED loc /\ pc[t] \in MountPart
        BY <2>4 DEF MountCreate, MountExisting, MountUndo, At, MountPart
      <3>2. QED
        BY <3>1
    <2>5. CASE MountAll(t)
      <3>1. pc[t] \in MountPart /\ (Finish(t, FALSE) \/ UNCHANGED loc)
        BY <2>5 DEF MountAll, At, MountPart
      <3>2. pc'[t] # "return"
        BY DEF MountPart, UnpackPart, LayerPart
      <3>3. QED
        BY <3>1, <3>2, PartsLead
    <2>6. ~ MountFailed(t)
      <3>1. pc'[t] # "return"
        BY DEF MountPart, UnpackPart, LayerPart
      <3>2. QED
        BY <3>1, PartsLead DEF MountFailed
    <2>7. QED
      BY <1>5, <2>2, <2>3, <2>4, <2>5, <2>6, MountParts
  <1>6. QED
    BY <1>2, <1>3, <1>4, <1>5

LEMMA RecordsStep ==
    ASSUME NEW content, Settled(content), ThreadsFit, RecordsInv(content), [Next]_vars
    PROVE  RecordsInv(content)'
  <1>1. CASE \E t \in Threads : Begin(t) \/ Step(t)
    <2>1. PICK t \in Threads : Begin(t) \/ Step(t)
      BY <1>1
    <2>2. /\ ToRecord(content, pc'[t], req'[t], loc'[t])
          /\ ToMount(content, pc'[t], req'[t], loc'[t])
      BY <2>1, OwnToRecord, OwnToMount DEF RecordsInv, Settled
    <2>3. ASSUME NEW u \in Threads \ {t}
          PROVE  /\ ToRecord(content, pc'[u], req'[u], loc'[u])
                 /\ ToMount(content, pc'[u], req'[u], loc'[u])
      <3>1. pc'[u] = pc[u] /\ req'[u] = req[u] /\ loc'[u] = loc[u]
        BY <2>1, StepApart DEF Apart
      <3>2. QED
        BY <3>1 DEF RecordsInv
    <2>4. ASSUME NEW q \in DOMAIN images' \cap DOMAIN content
          PROVE  images'[q] = content[q]
      <3>1. pc[t] \in PutPart => Settles(content, Image(t).ref, Image(t).chain)
        BY FirstSettles DEF RecordsInv
      <3>2. QED
        BY <2>1, <3>1, StepRecords DEF Settles, RecordsInv, ImagesSettled
    <2>5. QED
      BY <2>2, <2>3, <2>4 DEF RecordsInv, ImagesSettled, ToRecord, ToMount
  <1>2. CASE UserWrite \/ UNCHANGED vars
    <2>1. UNCHANGED <<pc, req, loc, images>>
      BY <1>2 DEF UserWrite, thread, vars
    <2>2. QED
      BY <2>1 DEF RecordsInv, ImagesSettled, ToRecord, ToMount
  <1>3. CASE Kill \/ Reboot \/ \E t \in Threads : MountPanic(t)
    <2>1. UNCHANGED images /\ \A t \in Threads : pc'[t] = "idle"
      BY <1>3 DEF Kill, Reboot, MountPanic, ProcessEnds
    <2>2. \A t \in Threads : /\ ToRecord(content, pc'[t], req'[t], loc'[t])
                             /\ ToMount(content, pc'[t], req'[t], loc'[t])
      BY <2>1, NothingToRecord, NothingToMount DEF FetchPart, PutPart, MountPart, UnpackPart,
                                                   LayerPart
    <2>3. QED
      BY <2>1, <2>2 DEF RecordsInv, ImagesSettled, ToRecord, ToMount
  <1>4. QED
    BY <1>1, <1>2, <1>3 DEF Next

\* Mounts are of snapshots that callers have named, or of what these became.
ChosenMounted ==
    /\ \A m \in mounts : m.snap[1] \in {"key", "chain"}
    /\ \A t \in Threads : dir[t] = Gone \/ dir[t][1] \in {"key", "chain"}

LEMMA RemovedChosen ==
    ASSUME StoreTyped, ChosenMounted, NEW n, RemoveSnapshot(n)
    PROVE  ChosenMounted'
  BY DEF RemoveSnapshot, ChosenMounted

LEMMA CommittedChosen ==
    ASSUME StoreTyped, ChosenMounted, NEW n, NEW c, c[1] = "chain", CommitSnapshot(n, c)
    PROVE  ChosenMounted'
  <1>1. \A t \in Threads : dir'[t] \in {dir[t], c}
    BY DEF CommitSnapshot
  <1>2. ASSUME NEW m \in mounts'
        PROVE  m.snap[1] \in {"key", "chain"}
    <2>1. PICK k \in mounts : m = IF k.snap = n THEN [k EXCEPT !.snap = c] ELSE k
      BY <1>2 DEF CommitSnapshot
    <2>2. k \in Mounted
      BY DEF StoreTyped, MountsFollow
    <2>3. m.snap \in {k.snap, c}
      BY <2>1, <2>2 DEF Mounted
    <2>4. QED
      BY <2>3 DEF ChosenMounted
  <1>3. QED
    BY <1>1, <1>2 DEF ChosenMounted

\* Of a call that mounts or commits the name is one that callers choose.
LEMMA ChosenName ==
    ASSUME SoleCommits, ThreadsFit, NEW t \in Threads, pc[t] # "idle",
           req[t].op \in {"mount", "commit"}
    PROVE  req[t].name \in ChosenNames /\ req[t].name[1] \in {"key", "chain"}
  <1>1. req[t] \in Requests[t]
    BY Busy
  <1>2. req[t].name \in ChosenNames
    BY <1>1, CallFacts DEF SoleCommits
  <1>3. QED
    BY <1>2 DEF ChosenNames

LEMMA StepChosen ==
    ASSUME SoleCommits, TInv, ChosenMounted, NEW t \in Threads, Begin(t) \/ Step(t)
    PROVE  ChosenMounted'
  <1>1. ThreadsFit /\ StoreTyped /\ dir = [u \in Threads |-> dir[u]]
    BY DEF TInv, StoreTyped, MountsFollow
  <1>2. ASSUME \/ UNCHANGED <<mounts, dir>>
               \/ \E n : RemoveSnapshot(n)
               \/ \E n, c : c[1] = "chain" /\ CommitSnapshot(n, c)
        PROVE  ChosenMounted'
    <2>1. ASSUME UNCHANGED <<mounts, dir>>
          PROVE  ChosenMounted'
      BY <2>1 DEF ChosenMounted
    <2>2. QED
      BY <1>1, <1>2, <2>1, RemovedChosen, CommittedChosen
  <1>3. ASSUME NEW d, d = Gone \/ d[1] \in {"key", "chain"}, UNCHANGED mounts,
               dir' = [dir EXCEPT ![t] = d]
        PROVE  ChosenMounted'
    BY <1>1, <1>3 DEF ChosenMounted
  <1>4. CASE Begin(t)
    <2>1. CASE UmountStart(t)
      <3>1. mounts' \subseteq mounts /\ UNCHANGED dir
        BY <2>1 DEF UmountStart
      <3>2. QED
        BY <3>1 DEF ChosenMounted
    <2>2. CASE Begin(t) /\ ~ UmountStart(t)
      BY <1>2, <2>2 DEF Begin, MountStart, CommitStart, FetchStart, RecordStart,
                        UnpackStart, DeleteStart, LabelStart, LookStart, store
    <2>3. QED
      BY <1>4, <2>1, <2>2
  <1>5. CASE UnpackStep(t)
    <2>1. CASE CheckUnpacked(t) \/ PrepareLayer(t) \/ ApplyLayer(t)
      BY <1>2, <2>1 DEF CheckUnpacked, PrepareLayer, ApplyLayer, store
    <2>2. CASE CommitLayer(t) \/ AbortLayer(t)
      <3>1. UpTo(t)[1] = "chain"
        BY DEF UpTo, Chain
      <3>2. QED
        BY <1>2, <2>2, <3>1 DEF CommitLayer, AbortLayer
    <2>3. QED
      BY <1>5, <2>1, <2>2 DEF UnpackStep
  <1>6. CASE RemovalStep(t)
    BY <1>2, <1>6 DEF RemovalStep, StatLink, RemoveLink, store
  <1>7. CASE MountStep(t)
    <2>1. CASE MountCreate(t) \/ MountExisting(t)
      <3>1. pc[t] \in MountPart /\ pc[t] # "idle"
        BY <2>1 DEF MountCreate, MountExisting, At, MountPart
      <3>2. req[t].name[1] \in {"key", "chain"}
        BY <1>1, <3>1, Busy, ChosenName DEF Reaches
      <3>3. UNCHANGED mounts /\ \/ UNCHANGED dir
                                \/ dir' = [dir EXCEPT ![t] = req[t].name]
        BY <2>1 DEF MountCreate, MountExisting, store
      <3>4. QED
        BY <1>2, <1>3, <3>2, <3>3
    <2>2. CASE MountAll(t)
      <3>1. CASE UNCHANGED mounts
        BY <1>2, <2>2, <3>1 DEF MountAll
      <3>2. CASE /\ dir[t] # Gone
                 /\ mounts' = mounts \cup {[target |-> req[t].target, snap |-> dir[t],
                                            rw |-> snaps[dir[t]].kind # "view"]}
        <4>1. dir[t][1] \in {"key", "chain"} /\ UNCHANGED dir
          BY <2>2, <3>2 DEF MountAll, ChosenMounted
        <4>2. QED
          BY <3>2, <4>1 DEF ChosenMounted
      <3>3. QED
        BY <2>2, <3>1, <3>2 DEF MountAll
    <2>3. CASE \/ MountUndo(t) \/ MountLease(t) \/ MountFailed(t)
               \/ UmountLease(t) \/ UmountUnlease(t)
      BY <1>2, <2>3 DEF MountUndo, MountLease, MountFailed, UmountLease, UmountUnlease, store
    <2>4. QED
      BY <1>7, <2>1, <2>2, <2>3 DEF MountStep
  <1>8. CASE CommitStep(t)
    <2>1. CASE DiffMounts(t) \/ DiffView(t) \/ CommitMounts(t)
      <3>1. pc[t] \in DiffPart \cup CommitPart /\ pc[t] # "idle"
        BY <2>1 DEF DiffMounts, DiffView, CommitMounts, At, DiffPart, CommitPart
      <3>2. req[t].name[1] \in {"key", "chain"}
        BY <1>1, <3>1, Busy, ChosenName DEF Reaches
      <3>3. UNCHANGED mounts /\ \/ UNCHANGED dir
                                \/ dir' = [dir EXCEPT ![t] = req[t].name]
        BY <2>1 DEF DiffMounts, DiffView, CommitMounts, store
      <3>4. QED
        BY <1>2, <1>3, <3>2, <3>3
    <2>2. CASE CommitActive(t)
      <3>1. Chain(loc[t].chain)[1] = "chain"
        BY DEF Chain
      <3>2. QED
        BY <1>2, <2>2, <3>1 DEF CommitActive
    <2>3. CASE CleanUpper(t) \/ CleanLower(t)
      BY <1>2, <2>3 DEF CleanUpper, CleanLower
    <2>4. CASE \/ CommitStat(t) \/ CommitBase(t) \/ DiffStat(t) \/ DiffLower(t) \/ Compare(t)
               \/ CommitApply(t) \/ CommitManifest(t) \/ CommitConfig(t)
      BY <1>2, <2>4 DEF CommitStat, CommitBase, DiffStat, DiffLower, Compare, CommitApply,
                        CommitManifest, CommitConfig, WriteBlob, store
    <2>5. QED
      BY <1>8, <2>1, <2>2, <2>3, <2>4 DEF CommitStep
  <1>9. CASE ImageStep(t) \/ ImportStep(t) \/ LabelStep(t)
    BY <1>2, <1>9 DEF ImageStep, FetchManifest, FetchChildren, PutUpdate, PutCreate, DeleteGet,
                      DeleteCheck, DeleteImage, ImportStep, Unpacked, Deleted, Undone,
                      LabelStep, LabelStat, LabelWrite, Look, store
  <1>10. CASE Return(t)
    BY <1>3, <1>10 DEF Return
  <1>11. QED
    BY <1>4, <1>5, <1>6, <1>7, <1>8, <1>9, <1>10 DEF Step

DiffRest   == {"diff", "diff_lower", "diff_mounts", "diff_view", "compare", "clean_upper",
               "clean_lower"}
LateCommit == {"commit_mounts", "commit_apply", "commit_snapshot"}

\* A snapshot that is to be committed has the base its label names.
Based(content, x) ==
    /\ x.label \in DOMAIN content \cup {NoRef}
    /\ x.parent = Chain(Base(content, x.label))

KeysBased(content) == \A n \in DOMAIN snaps \cap CommitKeys : Based(content, snaps[n])

\* The snapshot x of a Commit with the locals l at p: what the call has read
\* of it, or of the image, is so.
OnBase(content, p, l, x) ==
    /\ p = "commit_base" => /\ l.ref \in DOMAIN content
                            /\ x.parent = Chain(content[l.ref])
    /\ p \in DiffRest => x.parent = Chain(l.chain)
    /\ p \in {"clean_upper", "clean_lower"} /\ ~ l.err => x.diff = l.layer
    /\ p \in LateCommit => /\ x.parent = Chain(SubSeq(l.chain, 1, Len(l.chain) - 1))
                           /\ x.diff = l.layer

Committing(content, p, r, l, d, s) ==
    p \in DiffPart \cup CommitPart =>
        /\ p \in {"commit", "commit_base"} => l.chain = << >>
        /\ p \in LateCommit => l.layer = l.chain[Len(l.chain)]
        /\ p \in {"commit_apply", "commit_snapshot"} => r.name[1] = "key"
        /\ p = "compare" /\ r.name[1] = "key" => d \in {Gone, r.name}
        /\ r.name[1] = "key" /\ r.name \in DOMAIN s => OnBase(content, p, l, s[r.name])

LEMMA NotCommitting ==
    ASSUME NEW content, NEW p, NEW r, NEW l, NEW d, NEW s,
           p \notin {"commit", "commit_base"} \cup DiffRest \cup LateCommit
    PROVE  Committing(content, p, r, l, d, s)
  BY DEF Committing, OnBase, DiffRest, LateCommit

LEMMA DiffCommitting ==
    ASSUME NEW content, NEW t \in Threads, UNCHANGED req, pc'[t] \in DiffRest,
           NEW n, n = req[t].name,
           pc'[t] = "compare" /\ n[1] = "key" => dir'[t] \in {Gone, n},
           n[1] = "key" /\ n \in DOMAIN snaps' =>
               /\ snaps'[n].parent = Chain(loc'[t].chain)
               /\ pc'[t] \in {"clean_upper", "clean_lower"} /\ ~ loc'[t].err =>
                     snaps'[n].diff = loc'[t].layer
    PROVE  Committing(content, pc'[t], req'[t], loc'[t], dir'[t], snaps')
  <1>1. req'[t].name = n
    OBVIOUS
  <1>2. pc'[t] \notin {"commit", "commit_base"} \cup LateCommit
    BY DEF DiffRest, LateCommit
  <1>3. QED
    BY <1>1, <1>2 DEF Committing, OnBase, LateCommit

LEMMA LateCommitting ==
    ASSUME NEW content, NEW t \in Threads, UNCHANGED req, pc'[t] \in LateCommit,
           NEW n, n = req[t].name,
           loc'[t].layer = loc'[t].chain[Len(loc'[t].chain)],
           pc'[t] \in {"commit_apply", "commit_snapshot"} => n[1] = "key",
           n[1] = "key" /\ n \in DOMAIN snaps' =>
               /\ snaps'[n].parent = Chain(SubSeq(loc'[t].chain, 1, Len(loc'[t].chain) - 1))
               /\ snaps'[n].diff = loc'[t].layer
    PROVE  Committing(content, pc'[t], req'[t], loc'[t], dir'[t], snaps')
  <1>1. req'[t].name = n
    OBVIOUS
  <1>2. pc'[t] \notin {"commit", "commit_base", "compare"} \cup DiffRest
    BY DEF DiffRest, LateCommit
  <1>3. QED
    BY <1>1, <1>2 DEF Committing, OnBase

\* A call fills the snapshot it extracts into, or commits.
LEMMA WhoFills ==
    ASSUME SoleCommits, TInv, CommitsInv, ChainsFaithful, NEW u \in Threads, NEW n, Filled(u, n)
    PROVE  \/ n = Extract(u)
           \/ /\ pc[u] = "commit_apply" /\ req[u].op = "commit" /\ req[u] \in Requests[u]
              /\ n = req[u].name /\ n[1] = "key"
  <1> SUFFICES ASSUME CommitApply(u), n = dir[u], dir[u] # Gone
               PROVE  /\ pc[u] = "commit_apply" /\ req[u].op = "commit" /\ req[u] \in Requests[u]
                      /\ n = req[u].name /\ n[1] = "key"
    BY DEF Filled
  <1>1. ThreadsFit /\ pc[u] = "commit_apply" /\ pc[u] # "idle"
    BY DEF CommitApply, At, TInv
  <1>2. req[u].op = "commit" /\ req[u] \in Requests[u]
    BY <1>1, Busy DEF Reaches, CommitPart
  <1>3. n = req[u].name /\ snaps[n].kind # "committed"
    BY <1>1 DEF CommitsInv, CommitHeld
  <1>4. n \in DOMAIN snaps
    BY DEF TInv, StoreTyped, MountsFollow
  <1>5. n[1] # "chain"
    BY <1>3, <1>4 DEF ChainsFaithful
  <1>6. n[1] \in {"key", "chain"}
    BY <1>1, <1>2, <1>3, ChosenName
  <1>7. QED
    BY <1>1, <1>2, <1>3, <1>5, <1>6

\* The keys that calls commit.
LEMMA CommittedKey ==
    ASSUME SoleCommits, ThreadsFit, NEW t \in Threads, pc[t] # "idle", req[t].op = "commit",
           req[t].name[1] = "key"
    PROVE  req[t] \in Requests[t] /\ req[t].name \in CommitKeys
  <1>1. req[t] \in Requests[t]
    BY Busy
  <1>2. req[t].name \in ChosenNames
    BY <1>1 DEF SoleCommits
  <1>3. QED
    BY <1>1, <1>2 DEF ChosenNames, CommitKeys

\* A call leaves what another one commits, but may take it away.
LEMMA OthersLeave ==
    ASSUME NEW content, Settled(content), SoleCommits, TInv, CommitsInv, ChainsFaithful,
           NEW u \in Threads, Begin(u) \/ Step(u), NEW t \in Threads \ {u}, pc[t] # "idle",
           req[t].op = "commit", NEW n, n = req[t].name, n[1] = "key", n \in DOMAIN snaps'
    PROVE  /\ n \in DOMAIN snaps
           /\ snaps'[n].parent = snaps[n].parent
           /\ snaps'[n].diff = snaps[n].diff
  <1>1. ThreadsFit /\ req[t] \in Requests[t]
    BY Busy DEF TInv
  <1>2. n \notin {Extract(u), Lower(u), Upper(u)}
    BY DEF Extract, Lower, Upper, Temp
  <1>3. n # UpTo(u) /\ n # Chain(loc[u].chain)
    BY DEF UpTo, Chain
  <1>4. ~ (MountCreate(u) /\ n = req[u].name)
    <2> SUFFICES ASSUME MountCreate(u), n = req[u].name
                 PROVE  FALSE
      OBVIOUS
    <2>1. pc[u] = "mount_create" /\ pc[u] # "idle" /\ pc[u] \in MountPart
      BY DEF MountCreate, At, MountPart
    <2>2. req[u] \in Requests[u] /\ req[u].op = "mount"
      BY <1>1, <2>1, Busy DEF Reaches
    <2> DEFINE r == req[t]
    <2>3. r \in Requests[t] /\ r.op = "commit" /\ n = r.name /\ u \in Threads \ {t}
      BY <1>1
    <2> HIDE DEF r
    <2>4. \A s \in Requests[u] : s.op = "mount" => s.name # n
      BY <2>3 DEF Settled
    <2>5. QED
      BY <2>2, <2>4
  <1>5. ~ Made(u, n)
    BY <1>2, <1>3, <1>4 DEF Made
  <1>6. ~ Filled(u, n)
    BY <1>1, <1>2, WhoFills DEF SoleCommits
  <1>7. Changed(u, n)
    BY StepChanges
  <1>8. QED
    BY <1>5, <1>6, <1>7 DEF Changed

\* What holds of the call of t and of the snapshots when it takes a step.
CommittingFacts(content, t) ==
    /\ TInv /\ IInv /\ CommitsInv
    /\ ChainsFaithful
    /\ ImagesSettled(content)
    /\ KeysBased(content)
    /\ Committing(content, pc[t], req[t], loc[t], dir[t], snaps)

\* Commit reads the snapshot and its image.
LEMMA ReadsBase ==
    ASSUME NEW content, SoleCommits, NEW t \in Threads, CommittingFacts(content, t),
           CommitStat(t) \/ CommitBase(t)
    PROVE  Committing(content, pc'[t], req'[t], loc'[t], dir'[t], snaps')
  <1> DEFINE n == req[t].name
             x == snaps[n]
  <1>1. /\ ThreadsFit /\ loc = [u \in Threads |-> loc[u]] /\ UNCHANGED <<req, snaps, dir>>
        /\ pc[t] \in {"commit", "commit_base"}
    BY DEF CommitStat, CommitBase, store, At, CommittingFacts, TInv, ThreadsFit
  <1>2. pc[t] \in DiffPart /\ pc[t] # "idle"
    BY <1>1 DEF DiffPart
  <1>3. req[t].op = "commit" /\ loc[t] \in Locals
    BY <1>1, <1>2, Busy DEF Reaches
  <1>4. loc[t].chain = << >>
    BY <1>1, <1>2 DEF CommittingFacts, Committing
  <1>5. n[1] = "key" => n \in CommitKeys
    BY <1>1, <1>2, <1>3, CommittedKey
  <1>6. ASSUME Finish(t, TRUE)
        PROVE  Committing(content, pc'[t], req'[t], loc'[t], dir'[t], snaps')
    BY <1>1, <1>6, PartsLead, NotCommitting DEF DiffRest, LateCommit
  <1>7. CASE /\ CommitStat(t) /\ n \in DOMAIN snaps
             /\ loc' = [loc EXCEPT ![t].ref = x.label]
             /\ Goto(t, IF x.label = NoRef THEN "diff" ELSE "commit_base")
    <2>1. loc'[t].ref = x.label /\ loc'[t].chain = << >>
      BY <1>1, <1>3, <1>4, <1>7 DEF Locals
    <2>2. n[1] = "key" => Based(content, x)
      BY <1>5, <1>7 DEF CommittingFacts, KeysBased
    <2>3. CASE x.label = NoRef
      <3>1. pc'[t] = "diff"
        BY <1>1, <1>7, <2>3, PartsLead
      <3>2. n[1] = "key" => x.parent = Chain(loc'[t].chain)
        BY <2>1, <2>2, <2>3 DEF Based, Base
      <3> HIDE DEF n, x
      <3>3. QED
        BY <1>1, <3>1, <3>2, DiffCommitting DEF DiffRest, n, x
    <2>4. CASE x.label # NoRef
      <3>1. pc'[t] = "commit_base"
        BY <1>1, <1>7, <2>4, PartsLead
      <3>2. n[1] = "key" => /\ loc'[t].ref \in DOMAIN content
                            /\ x.parent = Chain(content[loc'[t].ref])
        BY <2>1, <2>2, <2>4 DEF Based, Base
      <3>3. QED
        BY <1>1, <2>1, <3>1, <3>2 DEF Committing, OnBase, DiffRest, LateCommit
    <2>5. QED
      BY <2>3, <2>4
  <1>8. CASE /\ CommitBase(t) /\ loc[t].ref \in DOMAIN images
             /\ loc' = [loc EXCEPT ![t] = [@ EXCEPT !.chain = images[loc[t].ref], !.ref = NoRef]]
             /\ Goto(t, "diff")
    <2>1. pc[t] = "commit_base" /\ pc'[t] = "diff"
      BY <1>1, <1>8, PartsLead DEF CommitBase, At
    <2>2. loc'[t].chain = images[loc[t].ref]
      BY <1>1, <1>3, <1>8 DEF Locals
    <2>3. n[1] = "key" /\ n \in DOMAIN snaps => x.parent = Chain(loc'[t].chain)
      <3> SUFFICES ASSUME n[1] = "key", n \in DOMAIN snaps
                   PROVE  x.parent = Chain(loc'[t].chain)
        OBVIOUS
      <3>1. loc[t].ref \in DOMAIN content /\ x.parent = Chain(content[loc[t].ref])
        BY <1>2, <2>1 DEF CommittingFacts, Committing, OnBase
      <3>2. images[loc[t].ref] = content[loc[t].ref]
        BY <1>8, <3>1 DEF CommittingFacts, ImagesSettled
      <3>3. QED
        BY <2>2, <3>1, <3>2
    <2> HIDE DEF n, x
    <2>4. QED
      BY <1>1, <2>1, <2>3, DiffCommitting DEF DiffRest, n, x
  <1>9. QED
    BY <1>6, <1>7, <1>8 DEF CommitStat, CommitBase

\* A failure of the diff leaves the snapshot and what was read.
LEMMA DiffFailsCommitting ==
    ASSUME NEW content, NEW t \in Threads, CommittingFacts(content, t), DiffFail(t),
           pc[t] \in DiffRest, UNCHANGED <<req, snaps>>
    PROVE  Committing(content, pc'[t], req'[t], loc'[t], dir'[t], snaps')
  <1>1. ThreadsFit /\ loc = [u \in Threads |-> loc[u]]
    BY DEF CommittingFacts, TInv, ThreadsFit
  <1>2. pc[t] # "idle" /\ pc[t] \in DiffPart
    BY DEF DiffRest, DiffPart
  <1>3. loc[t] \in Locals
    BY <1>1, <1>2, Busy
  <1>4. loc'[t].err /\ loc'[t].chain = loc[t].chain
    BY <1>1, <1>3 DEF DiffFail, Locals
  <1>5. pc'[t] \in {"clean_upper", "clean_lower"}
    BY <1>1, PartsLead DEF DiffFail
  <1>6. req[t].name[1] = "key" /\ req[t].name \in DOMAIN snaps =>
            snaps[req[t].name].parent = Chain(loc[t].chain)
    BY <1>2 DEF CommittingFacts, Committing, OnBase
  <1>7. QED
    BY <1>4, <1>5, <1>6, DiffCommitting DEF DiffRest

\* The diff is made against the parent, and it is what the snapshot holds.
LEMMA MakesDiff ==
    ASSUME NEW content, NEW t \in Threads, CommittingFacts(content, t),
           DiffStat(t) \/ DiffLower(t) \/ DiffMounts(t) \/ DiffView(t) \/ Compare(t)
    PROVE  Committing(content, pc'[t], req'[t], loc'[t], dir'[t], snaps')
  <1> DEFINE n == req[t].name
  <1>1. /\ ThreadsFit /\ loc = [u \in Threads |-> loc[u]] /\ dir = [u \in Threads |-> dir[u]]
        /\ UNCHANGED req /\ pc[t] \in DiffRest
    BY DEF DiffStat, DiffLower, DiffMounts, DiffView, Compare, At, DiffRest, CommittingFacts,
           TInv, ThreadsFit, StoreTyped, MountsFollow
  <1>2. pc[t] # "idle" /\ pc[t] \in DiffPart
    BY <1>1 DEF DiffRest, DiffPart
  <1>3. loc[t] \in Locals /\ req[t].op = "commit"
    BY <1>1, <1>2, Busy DEF Reaches
  <1>4. n[1] = "key" /\ n \in DOMAIN snaps => snaps[n].parent = Chain(loc[t].chain)
    BY <1>1, <1>2 DEF CommittingFacts, Committing, OnBase
  <1>5. ASSUME Finish(t, TRUE)
        PROVE  Committing(content, pc'[t], req'[t], loc'[t], dir'[t], snaps')
    BY <1>1, <1>5, PartsLead, NotCommitting DEF DiffRest, LateCommit
  <1>6. ASSUME NEW m, NEW kind, NEW p, m # n, snaps' = Created(snaps, kind, m, p, NoRef)
        PROVE  n \in DOMAIN snaps' => n \in DOMAIN snaps /\ snaps'[n] = snaps[n]
    BY <1>6 DEF Created, Put
  <1>7. n[1] = "key" => n # Lower(t)
    BY DEF Lower, Temp
  <1>8. CASE DiffStat(t)
    <2>1. CASE /\ loc' = [loc EXCEPT ![t] =
                            [@ EXCEPT !.par = snaps[n].parent,
                                      !.next = IF snaps[n].kind = "active"
                                               THEN "diff_mounts" ELSE "diff_view"]]
               /\ Goto(t, "diff_lower") /\ UNCHANGED snaps
      <3>1. pc'[t] = "diff_lower"
        BY <1>1, <2>1, PartsLead
      <3>2. loc'[t].chain = loc[t].chain
        BY <1>1, <1>3, <2>1 DEF Locals
      <3> HIDE DEF n
      <3>3. QED
        BY <1>1, <1>4, <2>1, <3>1, <3>2, DiffCommitting DEF DiffRest, n
    <2>2. QED
      BY <1>5, <1>8, <2>1 DEF DiffStat, store
  <1>9. CASE DiffLower(t)
    <2>1. CASE Continue(t) /\ snaps' = Created(snaps, "view", Lower(t), loc[t].par, NoRef)
      <3>1. pc'[t] \in {"diff_mounts", "diff_view"}
        BY <1>1, <1>2, <1>9, <2>1, Busy, PartsLead DEF Follows, DiffLower, At
      <3>2. loc'[t].chain = loc[t].chain
        BY <1>1, <1>2, <2>1, Continued
      <3>3. n[1] = "key" /\ n \in DOMAIN snaps' => snaps'[n].parent = Chain(loc'[t].chain)
        BY <1>4, <1>6, <1>7, <2>1, <3>2
      <3> HIDE DEF n
      <3>4. QED
        BY <1>1, <3>1, <3>3, DiffCommitting DEF DiffRest, n
    <2>2. QED
      BY <1>5, <1>9, <2>1 DEF DiffLower
  <1>10. CASE DiffMounts(t)
    <2>1. UNCHANGED snaps
      BY <1>10 DEF DiffMounts, store
    <2>2. CASE dir' = [dir EXCEPT ![t] = n] /\ Goto(t, "compare") /\ UNCHANGED loc
      <3>1. pc'[t] = "compare" /\ dir'[t] = n
        BY <1>1, <2>2, PartsLead
      <3> HIDE DEF n
      <3>2. QED
        BY <1>1, <1>4, <2>1, <2>2, <3>1, DiffCommitting DEF DiffRest, n
    <2>3. QED
      BY <1>1, <1>10, <2>1, <2>2, DiffFailsCommitting DEF DiffMounts
  <1>11. CASE DiffView(t)
    <2>1. CASE /\ CreateResult(snaps, Upper(t), n) = "ok"
               /\ Goto(t, "compare") /\ UNCHANGED loc
      <3>1. n = NoParent \/ IsCommitted(snaps, n)
        BY <2>1 DEF CreateResult, IsCommitted
      <3>2. NoParent[1] = "chain"
        BY NoParentAssumption DEF Chain
      <3>3. n[1] # "key"
        BY <3>1, <3>2 DEF CommittingFacts, IInv, IInvIn, OnlyChainsCommittedIn, IsCommitted
      <3>4. pc'[t] = "compare"
        BY <1>1, <2>1, PartsLead
      <3>5. QED
        BY <1>1, <3>3, <3>4, DiffCommitting DEF DiffRest
    <2>2. CASE DiffFail(t) /\ UNCHANGED snaps
      BY <1>1, <2>2, DiffFailsCommitting
    <2>3. QED
      BY <1>11, <2>1, <2>2 DEF DiffView
  <1>12. CASE Compare(t)
    <2>1. UNCHANGED snaps /\ pc[t] = "compare"
      BY <1>12 DEF Compare, At
    <2>2. CASE /\ dir[t] # Gone
               /\ loc' = [loc EXCEPT ![t].layer = snaps[dir[t]].diff]
               /\ Goto(t, IF Upper(t) \in DOMAIN snaps THEN "clean_upper" ELSE "clean_lower")
      <3>1. pc'[t] \in {"clean_upper", "clean_lower"}
        BY <1>1, <2>2, PartsLead
      <3>2. loc'[t].chain = loc[t].chain /\ loc'[t].layer = snaps[dir[t]].diff
        BY <1>1, <1>3, <2>2 DEF Locals
      <3>3. n[1] = "key" => dir[t] = n
        BY <1>2, <2>1, <2>2 DEF CommittingFacts, Committing
      <3>4. n[1] = "key" /\ n \in DOMAIN snaps => /\ snaps[n].parent = Chain(loc'[t].chain)
                                                  /\ snaps[n].diff = loc'[t].layer
        BY <1>4, <3>2, <3>3
      <3> HIDE DEF n
      <3>5. QED
        BY <1>1, <2>1, <3>1, <3>4, DiffCommitting DEF DiffRest, n
    <2>3. QED
      BY <1>1, <1>12, <2>1, <2>2, DiffFailsCommitting DEF Compare
  <1>13. QED
    BY <1>8, <1>9, <1>10, <1>11, <1>12

LEMMA AppendedFacts ==
    ASSUME NEW c \in Seq(Layers), NEW d \in Layers, NEW e, e = Append(c, d)
    PROVE  e[Len(e)] = d /\ SubSeq(e, 1, Len(e) - 1) = c
  <1>1. /\ e \in Seq(Layers) /\ Len(e) = Len(c) + 1 /\ Len(c) \in Nat
        /\ e[Len(c) + 1] = d /\ \A i \in 1..Len(c) : e[i] = c[i]
    BY AppendProperties, LenProperties
  <1>2. Len(e) - 1 = Len(c) /\ Len(c) <= Len(e)
    BY <1>1
  <1> DEFINE f == SubSeq(e, 1, Len(e) - 1)
  <1>3. f \in Seq(Layers) /\ Len(f) = Len(c) /\ \A i \in 1..Len(c) : f[i] = c[i]
    BY <1>1, <1>2, SubSeqProperties
  <1> HIDE DEF f
  <1>4. f = c
    BY <1>3, SeqEqual
  <1>5. QED
    BY <1>1, <1>4 DEF f

\* The chain of the new image is the base and the diff.
LEMMA CleansDiff ==
    ASSUME NEW content, NEW t \in Threads, CommittingFacts(content, t),
           CleanUpper(t) \/ CleanLower(t)
    PROVE  Committing(content, pc'[t], req'[t], loc'[t], dir'[t], snaps')
  <1> DEFINE n == req[t].name
  <1>1. /\ ThreadsFit /\ loc = [u \in Threads |-> loc[u]]
        /\ UNCHANGED req /\ pc[t] \in DiffRest
    BY DEF CleanUpper, CleanLower, At, DiffRest, CommittingFacts, TInv, ThreadsFit
  <1>2. pc[t] # "idle" /\ pc[t] \in DiffPart /\ pc[t] \in {"clean_upper", "clean_lower"}
    BY <1>1 DEF CleanUpper, CleanLower, At, DiffRest, DiffPart
  <1>3. loc[t] \in Locals
    BY <1>1, <1>2, Busy
  <1>4. n[1] = "key" /\ n \in DOMAIN snaps => /\ snaps[n].parent = Chain(loc[t].chain)
                                              /\ ~ loc[t].err => snaps[n].diff = loc[t].layer
    BY <1>1, <1>2 DEF CommittingFacts, Committing, OnBase
  <1>5. n \in DOMAIN snaps' => n \in DOMAIN snaps /\ snaps'[n] = snaps[n]
    <2>1. UNCHANGED snaps \/ \E m : snaps' = Removed(snaps, m)
      BY DEF CleanUpper, CleanLower, RemoveSnapshot
    <2> HIDE DEF n
    <2>2. CASE UNCHANGED snaps
      BY <2>2
    <2>3. CASE \E m : snaps' = Removed(snaps, m)
      <3>1. PICK m : snaps' = Removed(snaps, m)
        BY <2>3
      <3>2. QED
        BY <3>1, RemovedFacts
    <2>4. QED
      BY <2>1, <2>2, <2>3
  <1>6. CASE CleanUpper(t)
    <2>1. pc'[t] = "clean_lower" /\ UNCHANGED loc
      BY <1>1, <1>6, PartsLead DEF CleanUpper
    <2> HIDE DEF n
    <2>2. QED
      BY <1>1, <1>4, <1>5, <2>1, DiffCommitting DEF DiffRest, n
  <1>7. CASE CleanLower(t) /\ loc[t].err
    <2>1. Finish(t, TRUE)
      BY <1>7 DEF CleanLower
    <2>2. QED
      BY <1>1, <2>1, PartsLead, NotCommitting DEF DiffRest, LateCommit
  <1>8. CASE CleanLower(t) /\ ~ loc[t].err
    <2>1. pc'[t] = "commit_mounts" /\ loc' = [loc EXCEPT ![t].chain = Append(@, loc[t].layer)]
      BY <1>1, <1>8, PartsLead DEF CleanLower
    <2>2. /\ loc'[t].chain = Append(loc[t].chain, loc[t].layer)
          /\ loc'[t].layer = loc[t].layer
      BY <1>1, <1>3, <2>1 DEF Locals
    <2>3. /\ loc'[t].layer = loc'[t].chain[Len(loc'[t].chain)]
          /\ SubSeq(loc'[t].chain, 1, Len(loc'[t].chain) - 1) = loc[t].chain
      <3>1. loc[t].chain \in Seq(Layers) /\ loc[t].layer \in Layers
        BY <1>3 DEF Locals
      <3>2. QED
        BY <2>2, <3>1, AppendedFacts
    <2>4. n[1] = "key" /\ n \in DOMAIN snaps' =>
              /\ snaps'[n].parent = Chain(SubSeq(loc'[t].chain, 1, Len(loc'[t].chain) - 1))
              /\ snaps'[n].diff = loc'[t].layer
      BY <1>4, <1>5, <1>8, <2>2, <2>3
    <2> HIDE DEF n
    <2>5. QED
      BY <1>1, <2>1, <2>3, <2>4, LateCommitting DEF LateCommit, n
  <1>9. QED
    BY <1>6, <1>7, <1>8

\* The diff is applied to the snapshot that it was made from.
LEMMA AppliesDiff ==
    ASSUME NEW content, SoleCommits, NEW t \in Threads, CommittingFacts(content, t),
           CommitMounts(t) \/ CommitApply(t)
    PROVE  Committing(content, pc'[t], req'[t], loc'[t], dir'[t], snaps')
  <1> DEFINE n == req[t].name
  <1>1. /\ ThreadsFit /\ UNCHANGED req /\ pc[t] \in {"commit_mounts", "commit_apply"}
    BY DEF CommitMounts, CommitApply, At, CommittingFacts, TInv
  <1>2. pc[t] # "idle" /\ pc[t] \in CommitPart /\ pc[t] \in LateCommit
    BY <1>1 DEF CommitPart, LateCommit
  <1>3. loc[t] \in Locals /\ req[t].op = "commit"
    BY <1>1, <1>2, Busy DEF Reaches
  <1>4. /\ loc[t].layer = loc[t].chain[Len(loc[t].chain)]
        /\ pc[t] = "commit_apply" => n[1] = "key"
        /\ n[1] = "key" /\ n \in DOMAIN snaps =>
              /\ snaps[n].parent = Chain(SubSeq(loc[t].chain, 1, Len(loc[t].chain) - 1))
              /\ snaps[n].diff = loc[t].layer
    BY <1>2 DEF CommittingFacts, Committing, OnBase
  <1>5. ASSUME Finish(t, TRUE)
        PROVE  Committing(content, pc'[t], req'[t], loc'[t], dir'[t], snaps')
    BY <1>1, <1>5, PartsLead, NotCommitting DEF DiffRest, LateCommit
  <1>6. CASE CommitMounts(t)
    <2>1. CASE MountsResult(snaps, n) = "ok" /\ Goto(t, "commit_apply") /\ UNCHANGED <<loc, snaps>>
      <3>1. n \in DOMAIN snaps /\ snaps[n].kind # "committed"
        BY <2>1 DEF MountsResult
      <3>2. n[1] # "chain"
        BY <3>1 DEF CommittingFacts, ChainsFaithful
      <3>3. n[1] = "key"
        BY <1>1, <1>2, <1>3, <3>2, ChosenName
      <3>4. pc'[t] = "commit_apply"
        BY <1>1, <2>1, PartsLead
      <3> HIDE DEF n
      <3>5. QED
        BY <1>1, <1>4, <2>1, <3>3, <3>4, LateCommitting DEF LateCommit, n
    <2>2. QED
      BY <1>5, <1>6, <2>1 DEF CommitMounts, store
  <1>7. CASE CommitApply(t)
    <2>1. CASE /\ dir[t] # Gone /\ snaps' = Written(snaps, dir[t], loc[t].layer)
               /\ Goto(t, "commit_snapshot") /\ UNCHANGED loc
      <3>1. pc[t] = "commit_apply" /\ n[1] = "key"
        BY <1>4, <1>7 DEF CommitApply, At
      <3>2. dir[t] = n
        BY <2>1, <3>1 DEF CommittingFacts, CommitsInv, CommitHeld
      <3>3. n \in DOMAIN snaps
        BY <2>1, <3>2 DEF CommittingFacts, TInv, StoreTyped, MountsFollow
      <3>4. SnapsTyped(snaps)
        BY DEF CommittingFacts, TInv, StoreTyped
      <3>5. snaps'[n].parent = snaps[n].parent /\ snaps'[n].diff = snaps[n].diff \cup loc[t].layer
        <4> DEFINE d == loc[t].layer
        <4> HIDE DEF n, d
        <4>1. QED
          BY <2>1, <3>2, <3>3, <3>4, WrittenFacts DEF d
      <3>6. /\ snaps'[n].parent = Chain(SubSeq(loc'[t].chain, 1, Len(loc'[t].chain) - 1))
            /\ snaps'[n].diff = loc'[t].layer
        BY <1>4, <2>1, <3>1, <3>3, <3>5
      <3>7. pc'[t] = "commit_snapshot"
        BY <1>1, <2>1, PartsLead
      <3> HIDE DEF n
      <3>8. QED
        BY <1>1, <1>4, <2>1, <3>1, <3>6, <3>7, LateCommitting DEF LateCommit, n
    <2>2. QED
      BY <1>5, <1>7, <2>1 DEF CommitApply
  <1>8. QED
    BY <1>6, <1>7

LEMMA OwnCommitting ==
    ASSUME NEW content, SoleCommits, NEW t \in Threads, CommittingFacts(content, t),
           Begin(t) \/ Step(t)
    PROVE  Committing(content, pc'[t], req'[t], loc'[t], dir'[t], snaps')
  <1>1. ThreadsFit
    BY DEF CommittingFacts, TInv
  <1>2. CASE CommitStart(t)
    <2>1. pc'[t] = "commit" /\ loc'[t].chain = << >>
      BY <1>1, <1>2, PartsLead, BlankFacts DEF CommitStart, Start, At, ThreadsFit, Fits
    <2>2. QED
      BY <2>1 DEF Committing, OnBase, DiffRest, LateCommit
  <1>3. CASE Begin(t) /\ ~ CommitStart(t)
    <2>1. pc'[t] # "commit"
      BY <1>1, <1>3, PartsLead
         DEF Begin, MountStart, UmountStart, FetchStart, RecordStart, UnpackStart, DeleteStart,
             LabelStart, LookStart, Start
    <2>2. pc'[t] \in {"mount_lease", "return", "umount_lease", "commit", "fetch", "put_create",
                      "put_update", "unpack", "delete", "label_stat", "label_write", "look"}
      BY <1>1, <1>3, BeginLeads
    <2>3. QED
      BY <2>1, <2>2, NotCommitting DEF DiffRest, LateCommit
  <1>4. CASE UnpackStep(t) \/ RemovalStep(t) \/ MountStep(t) \/ LabelStep(t) \/ ImportStep(t)
    BY <1>1, <1>4, NotCommitting, UnpackLeads, RemovalLeads, MountLeads, LabelLeads, ImportLeads
       DEF DiffRest, LateCommit, UnpackPart, LayerPart, WalkPart, MountPart
  <1>5. CASE Return(t)
    BY <1>1, <1>5, NotCommitting, PartsLead DEF Return, DiffRest, LateCommit
  <1>6. CASE ImageStep(t)
    <2>1. CASE DeleteCheck(t)
      <3>1. pc[t] # "idle"
        BY <2>1 DEF DeleteCheck, At
      <3>2. pc'[t] \in {"walk", "delete_image", "return", "unpacked", "deleted", "undone"}
        BY <1>1, <2>1, <3>1, PartsLead DEF DeleteCheck
      <3>3. QED
        BY <3>2, NotCommitting DEF DiffRest, LateCommit
    <2>2. QED
      BY <1>1, <1>6, <2>1, NotCommitting, ImageLeads DEF DiffRest, LateCommit, PutPart
  <1>7. CASE CommitActive(t) \/ CommitManifest(t) \/ CommitConfig(t)
    <2>1. pc'[t] \in {"commit_manifest", "commit_config", "put_update", "return"}
      BY <1>1, <1>7, PartsLead DEF CommitActive, CommitManifest, CommitConfig, WriteBlob
    <2>2. QED
      BY <2>1, NotCommitting DEF DiffRest, LateCommit
  <1>8. QED
    BY <1>2, <1>3, <1>4, <1>5, <1>6, <1>7, ReadsBase, MakesDiff, CleansDiff, AppliesDiff
       DEF Step, CommitStep

\* The step of another call takes the snapshot of a Commit away or leaves it.
LEMMA OtherCommitting ==
    ASSUME NEW content, Settled(content), SoleCommits, TInv, CommitsInv, ChainsFaithful,
           NEW u \in Threads, Begin(u) \/ Step(u), NEW t \in Threads \ {u},
           Committing(content, pc[t], req[t], loc[t], dir[t], snaps)
    PROVE  Committing(content, pc'[t], req'[t], loc'[t], dir'[t], snaps')
  <1> DEFINE n == req[t].name
  <1>1. ThreadsFit
    BY DEF TInv
  <1>2. pc'[t] = pc[t] /\ req'[t] = req[t] /\ loc'[t] = loc[t]
    BY <1>1, StepApart DEF Apart
  <1>3. CASE pc[t] \notin {"commit", "commit_base"} \cup DiffRest \cup LateCommit
    BY <1>2, <1>3, NotCommitting
  <1>4. CASE pc[t] \in {"commit", "commit_base"} \cup DiffRest \cup LateCommit
    <2>1. pc[t] # "idle" /\ pc[t] \in DiffPart \cup CommitPart
      BY <1>4 DEF DiffRest, LateCommit, DiffPart, CommitPart
    <2>2. req[t].op = "commit" /\ req[t] \in Requests[t]
      BY <1>1, <2>1, Busy DEF Reaches
    <2>3. n \in ChosenNames /\ \A s \in Requests[u] : s.op = "commit" => s.name # n
      BY <2>2 DEF SoleCommits
    <2>4. ASSUME n[1] = "key", n \in DOMAIN snaps'
          PROVE  /\ n \in DOMAIN snaps
                 /\ snaps'[n].parent = snaps[n].parent
                 /\ snaps'[n].diff = snaps[n].diff
      BY <2>1, <2>2, <2>4, OthersLeave
    <2>5. n[1] = "key" /\ n \in DOMAIN snaps' => OnBase(content, pc[t], loc[t], snaps'[n])
      BY <2>1, <2>4 DEF Committing, OnBase
    <2>6. ASSUME pc[t] = "compare", n[1] = "key"
          PROVE  dir'[t] \in {Gone, n}
      <3>1. dir[t] \in {Gone, n}
        BY <2>1, <2>6 DEF Committing
      <3> HIDE DEF n
      <3>2. dir'[t] \in {Gone, dir[t]}
        BY <2>3, <3>1, StepLetsGo
      <3>3. QED
        BY <3>1, <3>2
    <2>7. /\ pc[t] \in {"commit", "commit_base"} => loc[t].chain = << >>
          /\ pc[t] \in LateCommit => loc[t].layer = loc[t].chain[Len(loc[t].chain)]
          /\ pc[t] \in {"commit_apply", "commit_snapshot"} => n[1] = "key"
      BY <2>1 DEF Committing
    <2>8. QED
      BY <1>2, <2>5, <2>6, <2>7 DEF Committing
  <1>5. QED
    BY <1>3, <1>4

\* A snapshot that is to be committed keeps its base and its label; it is made
\* on the image that its label names.
LEMMA KeysStep ==
    ASSUME NEW content, Settled(content), TInv, NEW u \in Threads, Begin(u) \/ Step(u),
           KeysBased(content), ToMount(content, pc[u], req[u], loc[u])
    PROVE  KeysBased(content)'
  <1> SUFFICES ASSUME NEW n \in DOMAIN snaps', n \in CommitKeys
               PROVE  Based(content, snaps'[n])
    BY DEF KeysBased
  <1>1. ThreadsFit /\ Changed(u, n)
    BY StepChanges DEF TInv
  <1>2. n[1] = "key"
    BY DEF CommitKeys
  <1>3. CASE n \notin DOMAIN snaps
    <2>1. Made(u, n)
      BY <1>1, <1>3 DEF Changed
    <2>2. n \notin {Extract(u), Lower(u), Upper(u)} /\ n # UpTo(u) /\ n # Chain(loc[u].chain)
      BY <1>2 DEF Extract, Lower, Upper, Temp, UpTo, Chain
    <2>3. /\ MountCreate(u) /\ n = req[u].name
          /\ snaps'[n] = [kind |-> IF req[u].ro THEN "view" ELSE "active",
                          parent |-> Chain(loc[u].chain), label |-> req[u].ref, diff |-> {}]
      BY <2>1, <2>2 DEF Made
    <2>4. pc[u] # "idle" /\ pc[u] \in MountPart
      BY <2>3 DEF MountCreate, At, MountPart
    <2>5. req[u].op = "mount" /\ req[u] \in Requests[u]
      BY <1>1, <2>4, Busy DEF Reaches
    <2>6. loc[u].chain = Base(content, req[u].ref)
      BY <2>3, <2>4, <2>5 DEF ToMount
    <2>7. req[u].ref \in DOMAIN content \cup {NoRef}
      BY <2>3, <2>5 DEF Settled
    <2>8. QED
      BY <2>3, <2>6, <2>7 DEF Based
  <1>4. CASE n \in DOMAIN snaps
    <2>1. snaps'[n].parent = snaps[n].parent
      BY <1>1, <1>4 DEF Changed
    <2>2. ~ (LabelWrite(u) /\ n = req[u].name)
      <3> SUFFICES ASSUME LabelWrite(u), n = req[u].name
                   PROVE  FALSE
        OBVIOUS
      <3>1. pc[u] = "label_write" /\ pc[u] # "idle"
        BY DEF LabelWrite, At
      <3>2. req[u].op \in {"label", "update_labels"} /\ req[u] \in Requests[u]
        BY <1>1, <3>1, Busy DEF Reaches
      <3>3. QED
        BY <3>2 DEF Settled
    <2>3. snaps'[n].label = snaps[n].label
      BY <1>1, <1>4, <2>2 DEF Changed
    <2>4. QED
      BY <1>4, <2>1, <2>3 DEF KeysBased, Based
  <1>5. QED
    BY <1>3, <1>4

\* The chain ID n stands for what the store has under it.
Faithful(n, x) ==
    /\ x.kind = "committed"
    /\ x.parent = Chain(SubSeq(n[2], 1, Len(n[2]) - 1))
    /\ x.diff = n[2][Len(n[2])]

\* A Commit makes the chain that its image is.
LEMMA CommitsChain ==
    ASSUME NEW content, NEW t \in Threads, CommittingFacts(content, t), CommitActive(t),
           NEW n, n = Chain(loc[t].chain), CommitResult(snaps, req[t].name, n) = "ok",
           snaps'[n] = [snaps[req[t].name] EXCEPT !.kind = "committed", !.label = NoRef]
    PROVE  Faithful(n, snaps'[n])
  <1> DEFINE m == req[t].name
  <1>1. pc[t] = "commit_snapshot" /\ pc[t] \in CommitPart /\ pc[t] \in LateCommit
    BY DEF CommitActive, At, CommitPart, LateCommit
  <1>2. m \in DOMAIN snaps
    BY DEF CommitResult
  <1>3. /\ loc[t].layer = loc[t].chain[Len(loc[t].chain)]
        /\ snaps[m].parent = Chain(SubSeq(loc[t].chain, 1, Len(loc[t].chain) - 1))
        /\ snaps[m].diff = loc[t].layer
    BY <1>1, <1>2 DEF CommittingFacts, Committing, OnBase
  <1>4. snaps[m] \in Snapshots
    BY <1>2 DEF CommittingFacts, TInv, StoreTyped, SnapsTyped
  <1>5. /\ snaps'[n].kind = "committed"
        /\ snaps'[n].parent = snaps[m].parent
        /\ snaps'[n].diff = snaps[m].diff
    BY <1>4 DEF Snapshots
  <1>6. n[2] = loc[t].chain
    BY DEF Chain
  <1>7. QED
    BY <1>3, <1>5, <1>6 DEF Faithful

\* Callers mount under keys of their own.
LEMMA MountsKey ==
    ASSUME NEW content, Settled(content), ThreadsFit, NEW u \in Threads, MountCreate(u)
    PROVE  req[u].name[1] = "key"
  <1>1. pc[u] # "idle" /\ pc[u] \in MountPart
    BY DEF MountCreate, At, MountPart
  <1>2. req[u].op = "mount" /\ req[u] \in Requests[u]
    BY <1>1, Busy DEF Reaches
  <1>3. QED
    BY <1>2 DEF Settled

\* A step makes chains that are what their names say and keeps the others so.
LEMMA ChainsKept ==
    ASSUME NEW content, Settled(content), SoleCommits, NEW u \in Threads,
           CommittingFacts(content, u), Extracted(u), Begin(u) \/ Step(u)
    PROVE  ChainsFaithful'
  <1> SUFFICES ASSUME NEW n \in DOMAIN snaps', n[1] = "chain"
               PROVE  Faithful(n, snaps'[n])
    BY DEF ChainsFaithful, Faithful
  <1>1. TInv /\ CommitsInv /\ ChainsFaithful
    BY DEF CommittingFacts
  <1>2. Changed(u, n)
    BY <1>1, StepChanges
  <1>3. n \notin {Extract(u), Lower(u), Upper(u)}
    BY DEF Extract, Lower, Upper, Temp
  <1>4. CASE n \notin DOMAIN snaps
    <2>1. Made(u, n)
      BY <1>2, <1>4 DEF Changed
    <2>2. ~ (MountCreate(u) /\ n = req[u].name)
      BY <1>1, MountsKey DEF TInv
    <2>3. CASE CommitLayer(u) /\ n = UpTo(u) /\ CommitResult(snaps, Extract(u), n) = "ok"
      <3>1. Frozen(u, n)
        BY <2>3 DEF Frozen, CommitLayer
      <3>2. QED
        BY <1>1, <3>1, FrozenFaithful DEF Faithful
    <2>4. QED
      BY <1>3, <2>1, <2>2, <2>3, CommitsChain DEF Made
  <1>5. CASE n \in DOMAIN snaps
    <2>1. ~ Filled(u, n)
      BY <1>1, <1>3, WhoFills
    <2>2. /\ snaps'[n].kind = snaps[n].kind
          /\ snaps'[n].parent = snaps[n].parent
          /\ snaps'[n].diff = snaps[n].diff
      BY <1>2, <1>5, <2>1 DEF Changed
    <2>3. Faithful(n, snaps[n])
      BY <1>1, <1>5 DEF ChainsFaithful, Faithful
    <2>4. QED
      BY <2>2, <2>3 DEF Faithful
  <1>6. QED
    BY <1>4, <1>5

\* A call leaves the extractions of the others alone.
LEMMA OtherExtracted ==
    ASSUME NEW content, Settled(content), SoleCommits, TInv, CommitsInv, ChainsFaithful,
           NEW u \in Threads, Begin(u) \/ Step(u), NEW t \in Threads \ {u}, Extracted(t)
    PROVE  Extracted(t)'
  <1> DEFINE n == Extract(t)
  <1>1. ThreadsFit
    BY DEF TInv
  <1>2. /\ pc'[t] = pc[t] /\ loc'[t] = loc[t]
        /\ Extract(t)' = n /\ Below(t)' = Below(t)
    <2>1. Temp("extract", t)' = Temp("extract", t)
      BY NamesStay DEF TInv, TempKinds
    <2>2. QED
      BY <1>1, <2>1, StepApart DEF Apart, Extract, Below
  <1>3. n \notin {Extract(u), Lower(u), Upper(u)} /\ n[1] = "extract"
    BY DEF Extract, Lower, Upper, Temp
  <1>4. Changed(u, n)
    BY StepChanges
  <1>5. ~ Filled(u, n)
    BY <1>3, WhoFills
  <1>6. n # UpTo(u) /\ n # Chain(loc[u].chain)
    BY <1>3 DEF UpTo, Chain
  <1>7. ~ (MountCreate(u) /\ n = req[u].name)
    BY <1>1, <1>3, MountsKey
  <1>8. ~ Made(u, n)
    BY <1>3, <1>6, <1>7 DEF Made
  <1>9. n \in DOMAIN snaps' => /\ n \in DOMAIN snaps
                               /\ snaps'[n].kind = snaps[n].kind
                               /\ snaps'[n].parent = snaps[n].parent
                               /\ snaps'[n].diff = snaps[n].diff
    BY <1>4, <1>5, <1>8 DEF Changed
  <1> HIDE DEF n
  <1>10. Extracted(t)
    OBVIOUS
  <1>11. QED
    BY <1>2, <1>9, <1>10 DEF Extracted, n

\* The invariant of a store where names keep their content.
SettledInv(content) ==
    /\ RecordsInv(content)
    /\ ChainsFaithful
    /\ \A t \in Threads : Extracted(t)
    /\ ChosenMounted
    /\ KeysBased(content)
    /\ \A t \in Threads : Committing(content, pc[t], req[t], loc[t], dir[t], snaps)

\* Something running in a mount changes what nobody is committing.
LEMMA WriteSettled ==
    ASSUME NEW content, SoleCommits, ~ LiveWrites, TInv, SettledInv(content), UserWrite
    PROVE  /\ ChainsFaithful'
           /\ \A t \in Threads : Extracted(t)'
           /\ ChosenMounted'
           /\ KeysBased(content)'
           /\ \A t \in Threads : Committing(content, pc'[t], req'[t], loc'[t], dir'[t], snaps')
  <1>1. PICK m \in mounts, x \in UserChanges :
            /\ snaps[m.snap].kind = "active"
            /\ \A t \in Threads :
                  req[t] # NoReq => ~ (req[t].op = "commit" /\ req[t].name = m.snap)
            /\ snaps' = Written(snaps, m.snap, {x})
    BY DEF UserWrite
  <1>2. UNCHANGED <<mounts, serial, pc, req, loc, dir>>
    BY DEF UserWrite, thread
  <1> DEFINE k == m.snap
             d == {x}
  <1>3. ThreadsFit /\ SnapsTyped(snaps) /\ k \in DOMAIN snaps /\ k[1] \in {"key", "chain"}
    BY DEF TInv, StoreTyped, MountsFollow, SettledInv, ChosenMounted
  <1>4. k[1] # "chain"
    BY <1>1, <1>3 DEF SettledInv, ChainsFaithful
  <1>5. /\ DOMAIN snaps' = DOMAIN snaps
        /\ \A n \in DOMAIN snaps : /\ snaps'[n].kind = snaps[n].kind
                                   /\ snaps'[n].parent = snaps[n].parent
                                   /\ snaps'[n].label = snaps[n].label
        /\ \A n \in DOMAIN snaps \ {k} : snaps'[n] = snaps[n]
    <2>1. snaps' = Written(snaps, k, d)
      BY <1>1
    <2> HIDE DEF k, d
    <2>2. QED
      BY <1>3, <2>1, WrittenFacts
  <1>6. ChainsFaithful'
    BY <1>4, <1>5 DEF SettledInv, ChainsFaithful
  <1>7. ASSUME NEW t \in Threads
        PROVE  Extracted(t)'
    <2>1. Extract(t) # k
      BY <1>3 DEF Extract, Temp
    <2>2. Extracted(t) /\ Extract(t)' = Extract(t) /\ Below(t)' = Below(t)
      BY <1>2 DEF SettledInv, Extract, Temp, Below
    <2>3. QED
      BY <1>2, <1>5, <2>1, <2>2 DEF Extracted
  <1>8. ChosenMounted'
    BY <1>2 DEF SettledInv, ChosenMounted
  <1>9. KeysBased(content)'
    BY <1>5 DEF SettledInv, KeysBased, Based
  <1>10. ASSUME NEW t \in Threads
         PROVE  Committing(content, pc[t], req[t], loc[t], dir[t], snaps')
    <2>1. CASE pc[t] \notin DiffPart \cup CommitPart
      BY <2>1 DEF Committing
    <2>2. CASE pc[t] \in DiffPart \cup CommitPart
      <3>1. pc[t] # "idle"
        BY <2>2 DEF DiffPart, CommitPart
      <3>2. req[t].op = "commit" \/ pc[t] \notin {"commit", "commit_base"} \cup DiffRest \cup LateCommit
        BY <1>3, <2>2, <3>1, Busy DEF Reaches
      <3>3. req[t] # NoReq
        BY <1>3, <3>1, Busy, RequestsAssumption
      <3>4. CASE req[t].op = "commit"
        <4>1. req[t].name # k
          BY <1>1, <3>3, <3>4
        <4>2. req[t].name \in DOMAIN snaps' =>
                  req[t].name \in DOMAIN snaps /\ snaps'[req[t].name] = snaps[req[t].name]
          BY <1>5, <4>1
        <4>3. QED
          BY <4>2 DEF SettledInv, Committing
      <3>5. QED
        BY <3>2, <3>4, NotCommitting
    <2>3. QED
      BY <2>1, <2>2
  <1>11. QED
    BY <1>2, <1>6, <1>7, <1>8, <1>9, <1>10

LEMMA SettledStep ==
    ASSUME NEW content, Settled(content), SoleCommits, ~ LiveWrites, TInv, IInv, CommitsInv,
           SettledInv(content), [Next]_vars
    PROVE  SettledInv(content)'
  <1>1. RecordsInv(content)'
    BY RecordsStep DEF SettledInv, TInv
  <1>2. CASE \E t \in Threads : Begin(t) \/ Step(t)
    <2>1. PICK t \in Threads : Begin(t) \/ Step(t)
      BY <1>2
    <2>2. ChainsFaithful /\ Extracted(t) /\ CommittingFacts(content, t)
      BY DEF SettledInv, RecordsInv, CommittingFacts
    <2>3. ChainsFaithful'
      BY <2>1, <2>2, ChainsKept
    <2>4. ASSUME NEW u \in Threads
          PROVE  Extracted(u)'
      <3>1. Extracted(u)
        BY DEF SettledInv
      <3>2. QED
        BY <2>1, <2>2, <3>1, OwnExtracted, OtherExtracted
    <2>5. ChosenMounted'
      BY <2>1, StepChosen DEF SettledInv
    <2>6. KeysBased(content)'
      <3>1. KeysBased(content) /\ ToMount(content, pc[t], req[t], loc[t])
        BY DEF SettledInv, RecordsInv
      <3>2. QED
        BY <2>1, <3>1, KeysStep
    <2>7. ASSUME NEW u \in Threads
          PROVE  Committing(content, pc'[u], req'[u], loc'[u], dir'[u], snaps')
      <3>1. Committing(content, pc[u], req[u], loc[u], dir[u], snaps)
        BY DEF SettledInv
      <3>2. CASE u = t
        BY <2>1, <2>2, <3>2, OwnCommitting
      <3>3. CASE u # t
        BY <2>1, <2>2, <3>1, <3>3, OtherCommitting
      <3>4. QED
        BY <3>2, <3>3
    <2>8. QED
      BY <1>1, <2>3, <2>4, <2>5, <2>6, <2>7 DEF SettledInv
  <1>3. CASE UserWrite
    BY <1>1, <1>3, WriteSettled DEF SettledInv
  <1>4. CASE UNCHANGED vars
    BY <1>1, <1>4 DEF vars, SettledInv, ChainsFaithful, Extracted, Extract, Temp, Below,
                      ChosenMounted, KeysBased
  <1>5. CASE Kill \/ Reboot \/ \E t \in Threads : MountPanic(t)
    <2>1. /\ UNCHANGED snaps /\ mounts' \subseteq mounts
          /\ \A t \in Threads : pc'[t] = "idle" /\ dir'[t] = Gone
      BY <1>5 DEF Kill, Reboot, MountPanic, ProcessEnds
    <2>2. \A t \in Threads : Committing(content, pc'[t], req'[t], loc'[t], dir'[t], snaps')
      BY <2>1, NotCommitting DEF DiffRest, LateCommit
    <2>3. \A t \in Threads : Extracted(t)'
      BY <2>1 DEF Extracted
    <2>4. ChainsFaithful' /\ ChosenMounted' /\ KeysBased(content)'
      BY <2>1 DEF SettledInv, ChainsFaithful, ChosenMounted, KeysBased
    <2>5. QED
      BY <1>1, <2>2, <2>3, <2>4 DEF SettledInv
  <1>6. QED
    BY <1>2, <1>3, <1>4, <1>5 DEF Next

LEMMA SettledInvariant ==
    ASSUME NEW content, Settled(content), SoleCommits, ~ LiveWrites
    PROVE  Spec => [](TInv /\ IInv /\ CommitsInv /\ SettledInv(content))
  <1>1. Init => SettledInv(content)
    <2> SUFFICES ASSUME Init
                 PROVE  SettledInv(content)
      OBVIOUS
    <2>1. /\ snaps = << >> /\ images = << >> /\ mounts = {}
          /\ \A t \in Threads : pc[t] = "idle" /\ dir[t] = Gone
      BY DEF Init
    <2>2. RecordsInv(content)
      BY <2>1, NothingToRecord, NothingToMount
         DEF RecordsInv, ImagesSettled, FetchPart, PutPart, MountPart, UnpackPart, LayerPart
    <2>3. \A t \in Threads : Committing(content, pc[t], req[t], loc[t], dir[t], snaps)
      BY <2>1, NotCommitting DEF DiffRest, LateCommit
    <2>4. QED
      BY <2>1, <2>2, <2>3 DEF SettledInv, ChainsFaithful, Extracted, ChosenMounted, KeysBased
  <1>2. TInv /\ IInv /\ CommitsInv /\ SettledInv(content) /\ [Next]_vars => SettledInv(content)'
    BY SettledStep
  <1>3. QED
    BY <1>1, <1>2, CommitsInvariant, PTL DEF Spec

\* Where the names of images that snapshots are made on keep their content and
\* every snapshot is committed by the thread that made it, while the mounts
\* are quiet: a snapshot named by a chain ID holds the layers the chain ID is
\* the digest of, the images that Commit makes included.  The layer that a
\* Commit adds to the base it reads is what its snapshot has on top of its
\* parent.
THEOREM StoreChainsFaithful ==
    ASSUME NEW content, Settled(content), SoleCommits, ~ LiveWrites
    PROVE  Spec => []ChainsFaithful
  <1>1. SettledInv(content) => ChainsFaithful
    BY DEF SettledInv
  <1>2. QED
    BY <1>1, SettledInvariant, PTL

-----------------------------------------------------------------------------
(* Images whose snapshots are all there.                                    *)

\* An image of which the last snapshot is there is unpacked down to the first.
LEMMA ChainsWhole ==
    ASSUME ParentsCommitted, Acyclic, ChainsFaithful, NEW c \in Seq(Layers),
           Chain(c) \in DOMAIN snaps, NEW k \in 1..Len(c)
    PROVE  Chain(SubSeq(c, 1, k)) \in DOMAIN snaps
  <1> SUFFICES ASSUME Chain(SubSeq(c, 1, k)) \notin DOMAIN snaps
               PROVE  FALSE
    OBVIOUS
  <1> DEFINE S == {Chain(SubSeq(c, 1, i)) : i \in k..Len(c)} \cap DOMAIN snaps
  <1>1. Len(c) \in Nat /\ Len(c) \in k..Len(c)
    BY LenProperties
  <1>2. Chain(c) \in S
    BY <1>1, WholeChain
  <1>3. PICK n \in S : snaps[n].parent \notin S
    BY <1>2 DEF Acyclic, AcyclicIn
  <1>4. PICK i \in k..Len(c) : n = Chain(SubSeq(c, 1, i))
    OBVIOUS
  <1>5. i # k /\ i \in 1..Len(c) /\ i - 1 \in k..Len(c) /\ i - 1 \in 1..Len(c)
    <2>1. i # k
      BY <1>4
    <2>2. QED
      BY <1>1, <2>1
  <1>6. n[1] = "chain" /\ n[2] = SubSeq(c, 1, i)
    BY <1>4 DEF Chain
  <1>7. snaps[n].parent = Chain(SubSeq(c, 1, i - 1))
    <2>1. snaps[n].parent = Chain(SubSeq(n[2], 1, Len(n[2]) - 1))
      BY <1>6 DEF ChainsFaithful
    <2>2. SubSeq(n[2], 1, Len(n[2]) - 1) = SubSeq(c, 1, i - 1)
      BY <1>5, <1>6, UpToFacts
    <2>3. QED
      BY <2>1, <2>2
  <1>8. snaps[n].parent # NoParent
    <2>1. Len(SubSeq(c, 1, i - 1)) = i - 1
      BY <1>5, UpToFacts
    <2>2. SubSeq(c, 1, i - 1) # << >>
      BY <1>5, <2>1
    <2>3. Chain(SubSeq(c, 1, i - 1)) # Chain(<< >>)
      <3> DEFINE d == SubSeq(c, 1, i - 1)
      <3>1. d # << >>
        BY <2>2
      <3> HIDE DEF d
      <3>2. <<"chain", d>> # <<"chain", << >>>>
        BY <3>1
      <3>3. QED
        BY <3>2 DEF Chain, d
    <2>4. QED
      BY <1>7, <2>3, NoParentAssumption
  <1>9. snaps[n].parent \in DOMAIN snaps
    BY <1>8 DEF ParentsCommitted, ParentsCommittedIn, IsCommitted
  <1>10. QED
    BY <1>3, <1>5, <1>7, <1>9

\* Records go by the deletion of one image.
LEMMA StepDeletes ==
    ASSUME NEW t \in Threads, Begin(t) \/ Step(t), NEW q \in DOMAIN images \ DOMAIN images'
    PROVE  pc[t] = "delete_image" /\ q = Image(t).ref
  <1>1. CASE UNCHANGED images
    BY <1>1
  <1>2. CASE PutUpdate(t) \/ PutCreate(t)
    <2> DEFINE r == Image(t).ref
               c == Image(t).chain
    <2>1. \/ images' = [images EXCEPT ![r] = c]
          \/ images' = Put(images, r, c)
          \/ UNCHANGED images
      BY <1>2 DEF PutUpdate, PutCreate
    <2> HIDE DEF r, c
    <2>2. QED
      BY <2>1 DEF Put
  <1>3. CASE DeleteImage(t)
    BY <1>3 DEF DeleteImage, Restrict, At
  <1>4. CASE FetchManifest(t) \/ FetchChildren(t) \/ DeleteGet(t) \/ DeleteCheck(t)
    BY <1>1, <1>4 DEF FetchManifest, FetchChildren, DeleteGet, DeleteCheck, store
  <1>5. CASE Begin(t)
    BY <1>1, <1>5 DEF Begin, MountStart, UmountStart, CommitStart, FetchStart, RecordStart,
                      UnpackStart, DeleteStart, LabelStart, LookStart, store
  <1>6. CASE UnpackStep(t) \/ RemovalStep(t) \/ MountStep(t)
    BY <1>1, <1>6 DEF UnpackStep, CheckUnpacked, PrepareLayer, ApplyLayer, CommitLayer, AbortLayer,
                      RemovalStep, StatLink, RemoveLink,
                      MountStep, MountLease, MountCreate, MountExisting, MountAll, MountUndo,
                      MountFailed, UmountLease, UmountUnlease, store
  <1>7. CASE CommitStep(t)
    BY <1>1, <1>7 DEF CommitStep, CommitStat, CommitBase, DiffStat, DiffLower, DiffMounts,
                      DiffView, Compare, CleanUpper, CleanLower, CommitMounts, CommitApply,
                      CommitActive, CommitManifest, CommitConfig, WriteBlob, store
  <1>8. CASE ImportStep(t) \/ LabelStep(t) \/ Return(t)
    BY <1>1, <1>8 DEF ImportStep, Unpacked, Deleted, Undone,
                      LabelStep, LabelStat, LabelWrite, Look, Return, store
  <1>9. QED
    BY <1>2, <1>3, <1>4, <1>5, <1>6, <1>7, <1>8 DEF Step, ImageStep

\* n is a snapshot of the image c, or no snapshot.
OnChain(c, n) == \E m \in 0..Len(c) : n = Chain(SubSeq(c, 1, m))

LEMMA ChainTop ==
    ASSUME NEW c \in Seq(Layers)
    PROVE  OnChain(c, Chain(c))
  <1>1. Len(c) \in 0..Len(c)
    BY LenProperties
  <1>2. QED
    BY <1>1, WholeChain DEF OnChain

\* The parent of a snapshot of an image is one too, or none.
LEMMA ChainParent ==
    ASSUME TInv, ChainsFaithful, NEW c \in Seq(Layers), NEW n \in DOMAIN snaps, OnChain(c, n)
    PROVE  OnChain(c, snaps[n].parent)
  <1>1. PICK m \in 0..Len(c) : n = Chain(SubSeq(c, 1, m))
    BY DEF OnChain
  <1>2. Len(c) \in Nat
    BY LenProperties
  <1>3. m # 0
    <2>1. Chain(<< >>) \notin DOMAIN snaps
      BY NameFacts, NoParentAssumption DEF TInv, StoreTyped, SnapsTyped
    <2>2. SubSeq(c, 1, 0) = << >>
      BY SubSeqProperties, EmptySeq
    <2>3. QED
      BY <1>1, <2>1, <2>2
  <1>4. m \in 1..Len(c) /\ m - 1 \in 0..Len(c)
    BY <1>2, <1>3
  <1>5. n[1] = "chain" /\ n[2] = SubSeq(c, 1, m)
    BY <1>1 DEF Chain
  <1>6. snaps[n].parent = Chain(SubSeq(c, 1, m - 1))
    <2>1. snaps[n].parent = Chain(SubSeq(n[2], 1, Len(n[2]) - 1))
      BY <1>5 DEF ChainsFaithful
    <2>2. SubSeq(n[2], 1, Len(n[2]) - 1) = SubSeq(c, 1, m - 1)
      BY <1>4, <1>5, UpToFacts
    <2>3. QED
      BY <2>1, <2>2
  <1>7. QED
    BY <1>4, <1>6 DEF OnChain

-----------------------------------------------------------------------------
(* Calls that leave an image and the chains alone.                          *)

\* The calls of u store no image named q; they also remove no snapshot and no
\* image.
StoresNone(u, q) ==
    \A s \in Requests[u] :
        /\ s.op \in {"commit", "create", "update"} => s.ref # q
        /\ s.op \in Fetchers => \A i \in DOMAIN s.archive : s.archive[i].ref # q

LeavesBe(u, q) ==
    /\ StoresNone(u, q)
    /\ \A s \in Requests[u] : s.op \notin {"umount", "delete", "single"}

\* Who stores nothing but this under q stores nothing: no image has no layers.
Never(q) == [p \in {q} |-> << >>]

\* Whose calls never store an image is not about to store it.
SparedInv ==
    \A u \in Threads : \A q : StoresNone(u, q) => ToRecord(Never(q), pc[u], req[u], loc[u])

LEMMA StoresNever ==
    ASSUME NEW u \in Threads, NEW q, StoresNone(u, q)
    PROVE  Stores(Never(q), u)
  BY DEF StoresNone, Stores, Settles, Never, Fetchers, Importers

LEMMA SparedStep ==
    ASSUME TInv, SparedInv, [Next]_vars
    PROVE  SparedInv'
  <1> SUFFICES ASSUME NEW u \in Threads, NEW q, StoresNone(u, q)
               PROVE  ToRecord(Never(q), pc'[u], req'[u], loc'[u])
    BY DEF SparedInv
  <1> DEFINE none == Never(q)
  <1>1. ToRecord(none, pc[u], req[u], loc[u]) /\ Stores(none, u) /\ ThreadsFit
    BY StoresNever DEF SparedInv, TInv
  <1> HIDE DEF none
  <1>2. ToRecord(none, pc'[u], req'[u], loc'[u])
    <2>1. CASE \E t \in Threads : Begin(t) \/ Step(t)
      <3>1. PICK t \in Threads : Begin(t) \/ Step(t)
        BY <2>1
      <3>2. CASE u = t
        BY <1>1, <3>1, <3>2, OwnToRecord
      <3>3. CASE u # t
        <4>1. pc'[u] = pc[u] /\ req'[u] = req[u] /\ loc'[u] = loc[u]
          BY <1>1, <3>1, <3>3, StepApart DEF Apart
        <4>2. QED
          BY <1>1, <4>1
      <3>4. QED
        BY <3>2, <3>3
    <2>2. CASE UserWrite \/ UNCHANGED vars
      BY <1>1, <2>2 DEF UserWrite, thread, vars
    <2>3. CASE Kill \/ Reboot \/ \E t \in Threads : MountPanic(t)
      <3>1. pc'[u] = "idle"
        BY <2>3 DEF Kill, Reboot, MountPanic, ProcessEnds
      <3>2. QED
        BY <3>1, NothingToRecord DEF FetchPart, PutPart
    <2>4. QED
      BY <2>1, <2>2, <2>3 DEF Next
  <1>3. QED
    BY <1>2 DEF none

LEMMA SparedInit ==
    ASSUME Init
    PROVE  SparedInv
  <1>1. \A t \in Threads : pc[t] = "idle"
    BY DEF Init
  <1>2. QED
    BY <1>1, NothingToRecord DEF SparedInv, FetchPart, PutPart

\* The image that a call stores is not one that it never stores.
LEMMA SparedImage ==
    ASSUME TInv, SparedInv, NEW u \in Threads, NEW q, StoresNone(u, q), pc[u] \in PutPart
    PROVE  Image(u).ref # q
  <1>1. /\ ThreadsFit /\ pc[u] # "idle" /\ pc[u] \notin FetchPart \cup WalkPart
        /\ ToRecord(Never(q), pc[u], req[u], loc[u])
    BY DEF PutPart, FetchPart, WalkPart, TInv, SparedInv
  <1>2. /\ req[u].op \in Fetchers \cup {"commit", "create", "update"}
        /\ req[u] \in Requests[u]
        /\ loc[u].todo \in Seq(Images)
        /\ req[u].op \in Fetchers => loc[u].todo # << >>
        /\ req[u].op \notin Fetchers => loc[u].todo = << >>
    <2>1. req[u].op \in Fetchers \cup {"commit", "create", "update"}
      BY <1>1, Busy DEF Reaches
    <2>2. QED
      BY <1>1, <2>1, Busy DEF Locals, Works
  <1>3. CASE req[u].op \in Fetchers
    <2>1. 1 \in DOMAIN loc[u].todo /\ Image(u) = loc[u].todo[1] /\ loc[u].todo[1] \in Images
      BY <1>2, <1>3, HeadTailProperties, EmptySeq, LenProperties DEF Image
    <2>2. Settles(Never(q), Image(u).ref, Image(u).chain)
      BY <1>1, <1>3, <2>1 DEF ToRecord
    <2>3. Image(u).chain # << >>
      BY <2>1 DEF Images, Chains
    <2>4. QED
      BY <2>2, <2>3 DEF Settles, Never
  <1>4. CASE req[u].op \notin Fetchers
    <2>1. Image(u).ref = req[u].ref
      BY <1>2, <1>4 DEF Image
    <2>2. req[u].ref # q
      BY <1>2, <1>4 DEF StoresNone
    <2>3. QED
      BY <2>1, <2>2
  <1>5. QED
    BY <1>3, <1>4

\* An image that u spares stays as it is, or away.
LEMMA SparesImage ==
    ASSUME TInv, SparedInv, NEW u \in Threads, Begin(u) \/ Step(u), NEW q, LeavesBe(u, q)
    PROVE  /\ q \in DOMAIN images <=> q \in DOMAIN images'
           /\ q \in DOMAIN images => images'[q] = images[q]
  <1>1. ASSUME q \in DOMAIN images, q \notin DOMAIN images'
        PROVE  FALSE
    <2>1. pc[u] = "delete_image" /\ pc[u] # "idle" /\ pc[u] \in DeletePart
      BY <1>1, StepDeletes DEF DeletePart
    <2>2. req[u].op \in {"delete", "single"} /\ req[u] \in Requests[u]
      BY <2>1, Busy DEF Reaches, TInv
    <2>3. QED
      BY <2>2 DEF LeavesBe
  <1>2. ~ (pc[u] \in PutPart /\ q = Image(u).ref)
    BY SparedImage DEF LeavesBe
  <1>3. QED
    BY <1>1, <1>2, StepRecords

\* A call that spares any image removes no chain: nobody mounts one, and none
\* is active, so that none is committed.
LEMMA SparesChain ==
    ASSUME NEW content, Settled(content), TInv, ChainsFaithful,
           NEW u \in Threads, Begin(u) \/ Step(u), NEW q, LeavesBe(u, q),
           NEW n \in DOMAIN snaps, n[1] = "chain"
    PROVE  n \in DOMAIN snaps'
  <1> SUFFICES ASSUME n \notin DOMAIN snaps'
               PROVE  FALSE
    OBVIOUS
  <1>1. Taken(u, n) /\ ThreadsFit
    BY StepChanges DEF Changed, TInv
  <1>2. n \notin {Extract(u), Lower(u), Upper(u)}
    BY DEF Extract, Lower, Upper, Temp
  <1>3. ~ RemoveLink(u)
    <2> SUFFICES ASSUME RemoveLink(u)
                 PROVE  FALSE
      OBVIOUS
    <2>1. pc[u] # "idle" /\ pc[u] \in WalkPart
      BY DEF RemoveLink, At, WalkPart
    <2>2. req[u].op \in {"umount", "delete", "single"} /\ req[u] \in Requests[u]
      BY <1>1, <2>1, Busy DEF Reaches
    <2>3. QED
      BY <2>2 DEF LeavesBe
  <1>4. ~ (MountUndo(u) /\ n = req[u].name)
    <2> SUFFICES ASSUME MountUndo(u), n = req[u].name
                 PROVE  FALSE
      OBVIOUS
    <2>1. pc[u] # "idle" /\ pc[u] \in MountPart
      BY DEF MountUndo, At, MountPart
    <2>2. req[u].op = "mount" /\ req[u] \in Requests[u]
      BY <1>1, <2>1, Busy DEF Reaches
    <2>3. req[u].name \in {"key"} \X Keys
      BY <2>2 DEF Settled
    <2>4. QED
      BY <2>3
  <1>5. ~ (CommitActive(u) /\ n = req[u].name)
    <2> SUFFICES ASSUME CommitActive(u), n = req[u].name
                 PROVE  FALSE
      OBVIOUS
    <2>1. snaps[n].kind = "committed"
      BY DEF ChainsFaithful
    <2>2. CommitResult(snaps, n, Chain(loc[u].chain)) # "ok"
      BY <2>1 DEF CommitResult
    <2>3. UNCHANGED snaps
      BY <2>2 DEF CommitActive
    <2>4. QED
      BY <2>3
  <1>6. QED
    BY <1>1, <1>2, <1>3, <1>4, <1>5 DEF Taken

-----------------------------------------------------------------------------
(* Commit.                                                                  *)

\* Nobody else removes snapshots or images, or stores an image under the name
\* that a call commits to.
CommitsKept ==
    \A t \in Threads : \A r \in Requests[t] :
        r.op = "commit" => \A u \in Threads \ {t} : LeavesBe(u, r.ref)

\* A Commit r at p: it has stored the image that it unpacks, and when it is
\* over that is unpacked.
CommitKept(p, r, l, is, s) ==
    p # "idle" /\ r.op = "commit" =>
        /\ p \in UnpackPart => r.ref \in DOMAIN is /\ is[r.ref] = l.chain
        /\ p = "abort_layer" /\ ~ l.err => Chain(SubSeq(l.chain, 1, l.i)) \in DOMAIN s
        /\ p = "return" /\ ~ l.err => r.ref \in DOMAIN is /\ Chain(is[r.ref]) \in DOMAIN s

KeptInv == \A t \in Threads : CommitKept(pc[t], req[t], loc[t], images, snaps)

\* The steps of the others leave the image and the chains of a Commit.
LEMMA OtherKept ==
    ASSUME NEW content, Settled(content), CommitsKept, TInv, ChainsFaithful, SparedInv, KeptInv,
           NEW u \in Threads, Begin(u) \/ Step(u), NEW t \in Threads \ {u}
    PROVE  CommitKept(pc'[t], req'[t], loc'[t], images', snaps')
  <1>1. ThreadsFit /\ pc'[t] = pc[t] /\ req'[t] = req[t] /\ loc'[t] = loc[t]
    BY StepApart DEF Apart, TInv
  <1> SUFFICES ASSUME pc[t] # "idle", req[t].op = "commit"
               PROVE  CommitKept(pc[t], req[t], loc[t], images', snaps')
    BY <1>1 DEF CommitKept
  <1> DEFINE q == req[t].ref
  <1>2. req[t] \in Requests[t]
    BY <1>1, Busy
  <1>3. LeavesBe(u, q)
    BY <1>2 DEF CommitsKept
  <1>4. q \in DOMAIN images => q \in DOMAIN images' /\ images'[q] = images[q]
    BY <1>3, SparesImage
  <1>5. \A n \in DOMAIN snaps : n[1] = "chain" => n \in DOMAIN snaps'
    BY <1>3, SparesChain
  <1>6. \A c : Chain(c)[1] = "chain"
    BY DEF Chain
  <1>7. CASE pc[t] \in UnpackPart
    <2>1. q \in DOMAIN images /\ images[q] = loc[t].chain
      BY <1>7 DEF KeptInv, CommitKept
    <2>2. pc[t] # "return"
      BY <1>7 DEF UnpackPart, LayerPart
    <2>3. pc[t] = "abort_layer" /\ ~ loc[t].err =>
              Chain(SubSeq(loc[t].chain, 1, loc[t].i)) \in DOMAIN snaps'
      BY <1>5, <1>6 DEF KeptInv, CommitKept
    <2>4. QED
      BY <1>4, <2>1, <2>2, <2>3 DEF CommitKept
  <1>8. CASE pc[t] = "return"
    <2>1. ~ loc[t].err => q \in DOMAIN images /\ Chain(images[q]) \in DOMAIN snaps
      BY <1>8 DEF KeptInv, CommitKept
    <2>2. ~ loc[t].err => q \in DOMAIN images' /\ Chain(images'[q]) \in DOMAIN snaps'
      BY <1>4, <1>5, <1>6, <2>1
    <2>3. QED
      BY <1>8, <2>2 DEF CommitKept, UnpackPart, LayerPart
  <1>9. CASE pc[t] \notin UnpackPart \cup {"return"}
    BY <1>9 DEF CommitKept, UnpackPart, LayerPart
  <1>10. QED
    BY <1>7, <1>8, <1>9

LEMMA FailedKept ==
    ASSUME ThreadsFit, NEW t \in Threads, pc[t] # "idle", req[t].op = "commit", UNCHANGED req,
           Finish(t, TRUE)
    PROVE  CommitKept(pc'[t], req'[t], loc'[t], images', snaps')
  <1>1. pc'[t] = "return" /\ loc'[t].err
    BY FinishFails
  <1>2. QED
    BY <1>1 DEF CommitKept, UnpackPart, LayerPart

\* The unpacking ends with the last snapshot of the image, or the call fails.
LEMMA UnpackKept ==
    ASSUME ThreadsFit, NEW t \in Threads, UnpackStep(t), req[t].op = "commit",
           CommitKept(pc[t], req[t], loc[t], images, snaps)
    PROVE  CommitKept(pc'[t], req'[t], loc'[t], images', snaps')
  <1> DEFINE q == req[t].ref
             c == loc[t].chain
  <1>1. pc[t] \in UnpackPart /\ pc[t] # "idle" /\ UNCHANGED <<req, images>>
    BY DEF UnpackStep, CheckUnpacked, PrepareLayer, ApplyLayer, CommitLayer, AbortLayer, At,
           UnpackPart, LayerPart, store
  <1>2. /\ loc[t] \in Locals /\ loc = [u \in Threads |-> loc[u]]
        /\ loc[t].loop = "none" /\ loc[t].next = "return"
    <2>1. pc[t] # "diff_lower"
      BY <1>1 DEF UnpackPart, LayerPart
    <2>2. QED
      BY <1>1, <2>1, Busy DEF Follows, Importers, ThreadsFit
  <1>3. q \in DOMAIN images /\ images[q] = c
    BY <1>1 DEF CommitKept
  <1>4. ASSUME Continue(t), Chain(c) \in DOMAIN snaps'
        PROVE  CommitKept(pc'[t], req'[t], loc'[t], images', snaps')
    <2>1. pc'[t] = "return"
      BY <1>2, <1>4, PartsLead
    <2>2. QED
      BY <1>1, <1>3, <1>4, <2>1 DEF CommitKept, UnpackPart, LayerPart
  <1>5. ASSUME pc'[t] \in LayerPart, loc'[t].chain = c,
               pc'[t] = "abort_layer" /\ ~ loc'[t].err =>
                   Chain(SubSeq(loc'[t].chain, 1, loc'[t].i)) \in DOMAIN snaps'
        PROVE  CommitKept(pc'[t], req'[t], loc'[t], images', snaps')
    <2>1. pc'[t] # "return" /\ pc'[t] \in UnpackPart
      BY <1>5 DEF UnpackPart, LayerPart
    <2>2. QED
      BY <1>1, <1>3, <1>5, <2>1 DEF CommitKept
  <1>6. ASSUME EndPart(t, TRUE)
        PROVE  CommitKept(pc'[t], req'[t], loc'[t], images', snaps')
    <2>1. Finish(t, TRUE)
      BY <1>2, <1>6, Zenon DEF EndPart
    <2>2. QED
      BY <1>1, <2>1, FailedKept
  <1>7. ASSUME NextLayer(t), pc[t] \in {"commit_layer", "abort_layer"}, UpTo(t) \in DOMAIN snaps'
        PROVE  CommitKept(pc'[t], req'[t], loc'[t], images', snaps')
    <2>1. CASE loc[t].i = Len(c) /\ Continue(t)
      <3>1. c \in Seq(Layers)
        BY <1>2 DEF Locals
      <3>2. UpTo(t) = Chain(c)
        BY <2>1, <3>1, WholeChain DEF UpTo
      <3>3. QED
        BY <1>4, <1>7, <2>1, <3>2
    <2>2. CASE Goto(t, "extract") /\ loc' = [loc EXCEPT ![t].i = @ + 1]
      <3>1. pc'[t] = "extract" /\ loc'[t].chain = c
        BY <1>2, <2>2, PartsLead DEF Locals
      <3>2. QED
        BY <1>5, <3>1 DEF LayerPart
    <2>3. QED
      BY <1>7, <2>1, <2>2 DEF NextLayer
  <1>8. CASE CheckUnpacked(t)
    <2>1. CASE Chain(c) \in DOMAIN snaps /\ Continue(t)
      BY <1>4, <1>8, <2>1 DEF CheckUnpacked, store
    <2>2. CASE Goto(t, "extract") /\ loc' = [loc EXCEPT ![t].i = 1]
      <3>1. pc'[t] = "extract" /\ loc'[t].chain = c
        BY <1>2, <2>2, PartsLead DEF Locals
      <3>2. QED
        BY <1>5, <3>1 DEF LayerPart
    <2>3. QED
      BY <1>6, <1>8, <2>1, <2>2 DEF CheckUnpacked
  <1>9. CASE PrepareLayer(t)
    <2>1. CASE Goto(t, "apply") /\ UNCHANGED loc
      <3>1. pc'[t] = "apply"
        BY <2>1, PartsLead
      <3>2. QED
        BY <1>5, <2>1, <3>1 DEF LayerPart
    <2>2. QED
      BY <1>6, <1>9, <2>1 DEF PrepareLayer
  <1>10. CASE ApplyLayer(t)
    <2>1. CASE Goto(t, "commit_layer") /\ UNCHANGED loc
      <3>1. pc'[t] = "commit_layer"
        BY <2>1, PartsLead
      <3>2. QED
        BY <1>5, <2>1, <3>1 DEF LayerPart
    <2>2. CASE Goto(t, "abort_layer") /\ loc' = [loc EXCEPT ![t].err = TRUE]
      <3>1. pc'[t] = "abort_layer" /\ loc'[t].chain = c /\ loc'[t].err
        BY <1>2, <2>2, PartsLead DEF Locals
      <3>2. QED
        BY <1>5, <3>1 DEF LayerPart
    <2>3. QED
      BY <1>10, <2>1, <2>2 DEF ApplyLayer
  <1>11. CASE CommitLayer(t)
    <2>1. CASE CommitSnapshot(Extract(t), UpTo(t)) /\ NextLayer(t)
      <3>1. UpTo(t) \in DOMAIN snaps'
        BY <2>1 DEF CommitSnapshot, Committed, Put
      <3>2. QED
        BY <1>7, <1>11, <2>1, <3>1 DEF CommitLayer, At
    <2>2. CASE /\ Goto(t, "abort_layer") /\ UNCHANGED snaps
               /\ loc' = [loc EXCEPT ![t].err =
                             CommitResult(snaps, Extract(t), UpTo(t)) # "exists"]
      <3> DEFINE e == CommitResult(snaps, Extract(t), UpTo(t)) # "exists"
      <3>1. ~ e => UpTo(t) \in DOMAIN snaps
        BY DEF CommitResult
      <3> HIDE DEF e
      <3>2. loc' = [loc EXCEPT ![t].err = e]
        BY <2>2 DEF e
      <3>3. /\ pc'[t] = "abort_layer" /\ loc'[t].chain = c
            /\ loc'[t].err = e /\ loc'[t].i = loc[t].i
        BY <1>2, <2>2, <3>2, PartsLead DEF Locals
      <3>4. ~ e => Chain(SubSeq(loc'[t].chain, 1, loc'[t].i)) \in DOMAIN snaps'
        BY <2>2, <3>1, <3>3 DEF UpTo
      <3>5. QED
        BY <1>5, <3>3, <3>4 DEF LayerPart
    <2>3. QED
      BY <1>11, <2>1, <2>2 DEF CommitLayer
  <1>12. CASE AbortLayer(t)
    <2>1. CASE ~ loc[t].err /\ NextLayer(t)
      <3>1. pc[t] = "abort_layer" /\ (RemoveSnapshot(Extract(t)) \/ UNCHANGED snaps)
        BY <1>12 DEF AbortLayer, At
      <3>2. UpTo(t) \in DOMAIN snaps
        BY <1>1, <2>1, <3>1 DEF CommitKept, UpTo
      <3>3. UpTo(t) # Extract(t)
        BY DEF UpTo, Chain, Extract, Temp
      <3>4. UNCHANGED snaps \/ snaps' = Removed(snaps, Extract(t))
        BY <3>1 DEF RemoveSnapshot
      <3>5. UpTo(t) \in DOMAIN snaps'
        BY <3>2, <3>3, <3>4 DEF Removed, Restrict
      <3>6. QED
        BY <1>7, <2>1, <3>1, <3>5
    <2>2. QED
      BY <1>6, <1>12, <2>1 DEF AbortLayer
  <1>13. QED
    BY <1>8, <1>9, <1>10, <1>11, <1>12 DEF UnpackStep

\* What a Commit does up to storing its image promises nothing yet.
LEMMA CommitPartKept ==
    ASSUME ThreadsFit, NEW t \in Threads, CommitStep(t)
    PROVE  CommitKept(pc'[t], req'[t], loc'[t], images', snaps')
  <1>1. /\ pc[t] \in DiffPart \cup CommitPart /\ pc[t] # "idle" /\ UNCHANGED req
        /\ DiffLower(t) => pc[t] = "diff_lower"
    BY DEF CommitStep, CommitStat, CommitBase, DiffStat, DiffLower, DiffMounts, DiffView, Compare,
           CleanUpper, CleanLower, CommitMounts, CommitApply, CommitActive, CommitManifest,
           CommitConfig, WriteBlob, At, DiffPart, CommitPart
  <1>2. req[t].op = "commit"
    BY <1>1, Busy DEF Reaches
  <1>3. ASSUME pc'[t] \notin UnpackPart \cup {"return"}
        PROVE  CommitKept(pc'[t], req'[t], loc'[t], images', snaps')
    BY <1>3 DEF CommitKept, UnpackPart, LayerPart
  <1>4. Finish(t, TRUE) \/ pc'[t] \in DiffPart \cup CommitPart \cup {"put_update"}
    <2>1. CASE CommitStat(t) \/ CommitBase(t) \/ DiffStat(t)
      BY <2>1, PartsLead DEF CommitStat, CommitBase, DiffStat, DiffPart
    <2>2. CASE DiffLower(t)
      <3>1. loc[t].next \in {"diff_mounts", "diff_view"}
        BY <1>1, <2>2, Busy DEF Follows
      <3>2. QED
        BY <2>2, <3>1, PartsLead DEF DiffLower, DiffPart
    <2>3. CASE DiffMounts(t) \/ DiffView(t) \/ Compare(t)
      BY <2>3, PartsLead DEF DiffMounts, DiffView, Compare, DiffFail, DiffPart
    <2>4. CASE CleanUpper(t) \/ CleanLower(t) \/ CommitMounts(t) \/ CommitApply(t)
      BY <2>4, PartsLead DEF CleanUpper, CleanLower, CommitMounts, CommitApply, DiffPart, CommitPart
    <2>5. CASE CommitActive(t) \/ CommitManifest(t) \/ CommitConfig(t)
      BY <2>5, PartsLead DEF CommitActive, CommitManifest, CommitConfig, WriteBlob, CommitPart
    <2>6. QED
      BY <2>1, <2>2, <2>3, <2>4, <2>5 DEF CommitStep
  <1>5. CASE Finish(t, TRUE)
    BY <1>1, <1>2, <1>5, FailedKept
  <1>6. CASE pc'[t] \in DiffPart \cup CommitPart \cup {"put_update"}
    BY <1>3, <1>6 DEF DiffPart, CommitPart, UnpackPart, LayerPart
  <1>7. QED
    BY <1>4, <1>5, <1>6

\* Once the image is stored, it is the one that the call unpacks.
LEMMA StoringKept ==
    ASSUME ThreadsFit, ImagesTyped(images), NEW t \in Threads, ImageStep(t), req[t].op = "commit"
    PROVE  CommitKept(pc'[t], req'[t], loc'[t], images', snaps')
  <1>1. pc[t] \in PutPart /\ pc[t] # "idle" /\ UNCHANGED req /\ (PutUpdate(t) \/ PutCreate(t))
    <2>1. /\ pc[t] # "idle" /\ UNCHANGED req
          /\ \/ pc[t] \in PutPart /\ (PutUpdate(t) \/ PutCreate(t))
             \/ pc[t] \in FetchPart \cup DeletePart
      BY DEF ImageStep, FetchManifest, FetchChildren, PutUpdate, PutCreate, DeleteGet, DeleteCheck,
             DeleteImage, At, PutPart, FetchPart, DeletePart
    <2>2. pc[t] \notin FetchPart \cup DeletePart
      BY <2>1, Busy DEF Reaches, Fetchers, Importers
    <2>3. QED
      BY <2>1, <2>2
  <1>2. Image(t).ref = req[t].ref /\ Image(t).chain = loc[t].chain
    <2>1. loc[t].todo = << >>
      BY <1>1, Busy DEF Works
    <2>2. QED
      BY <2>1 DEF Image
  <1>3. ASSUME AfterPut(t), req[t].ref \in DOMAIN images', images'[req[t].ref] = loc[t].chain
        PROVE  CommitKept(pc'[t], req'[t], loc'[t], images', snaps')
    <2>1. Goto(t, "unpack") /\ UNCHANGED loc
      BY <1>3 DEF AfterPut
    <2>2. pc'[t] = "unpack"
      BY <2>1, PartsLead
    <2>3. QED
      BY <1>1, <1>3, <2>1, <2>2 DEF CommitKept
  <1>4. CASE Finish(t, TRUE)
    BY <1>1, <1>4, FailedKept
  <1>5. CASE Goto(t, "put_create")
    <2>1. pc'[t] = "put_create"
      BY <1>5, PartsLead
    <2>2. QED
      BY <2>1 DEF CommitKept, UnpackPart, LayerPart
  <1>6. CASE PutUpdate(t)
    <2>1. CASE /\ Image(t).ref \in DOMAIN images
               /\ images' = [images EXCEPT ![Image(t).ref] = Image(t).chain]
               /\ AfterPut(t)
      BY <1>2, <1>3, <2>1
    <2>2. QED
      BY <1>4, <1>5, <1>6, <2>1 DEF PutUpdate
  <1>7. CASE PutCreate(t)
    <2>1. CASE images' = Put(images, Image(t).ref, Image(t).chain) /\ AfterPut(t)
      <3>1. req[t].ref \in DOMAIN images' /\ images'[req[t].ref] = loc[t].chain
        BY <1>2, <2>1 DEF Put
      <3>2. QED
        BY <1>3, <2>1, <3>1
    <2>2. QED
      BY <1>4, <1>7, <2>1 DEF PutCreate
  <1>8. QED
    BY <1>1, <1>6, <1>7

LEMMA OwnKept ==
    ASSUME TInv, NEW t \in Threads, Begin(t) \/ Step(t),
           CommitKept(pc[t], req[t], loc[t], images, snaps)
    PROVE  CommitKept(pc'[t], req'[t], loc'[t], images', snaps')
  <1>1. ThreadsFit /\ ImagesTyped(images)
    BY DEF TInv, StoreTyped
  <1>2. ASSUME pc'[t] \in {"idle", "commit"}
        PROVE  CommitKept(pc'[t], req'[t], loc'[t], images', snaps')
    BY <1>2 DEF CommitKept, UnpackPart, LayerPart
  <1>3. CASE Begin(t)
    <2>1. CASE CommitStart(t)
      BY <1>1, <1>2, <2>1, PartsLead DEF CommitStart, Start
    <2>2. CASE ~ CommitStart(t)
      <3>1. req'[t].op # "commit"
        BY <1>1, <1>3, <2>2
           DEF Begin, MountStart, UmountStart, FetchStart, RecordStart, UnpackStart, DeleteStart,
               LabelStart, LookStart, Start, ThreadsFit
      <3>2. QED
        BY <3>1 DEF CommitKept
    <2>3. QED
      BY <2>1, <2>2
  <1>4. CASE Return(t)
    BY <1>1, <1>2, <1>4, PartsLead DEF Return
  <1>5. CASE Step(t) /\ ~ Return(t) /\ ~ CommitStep(t)
    <2>1. pc[t] # "idle" /\ UNCHANGED req
      BY <1>5 DEF Step, UnpackStep, CheckUnpacked, PrepareLayer, ApplyLayer, CommitLayer, AbortLayer,
                  RemovalStep, StatLink, RemoveLink,
                  MountStep, MountLease, MountCreate, MountExisting, MountAll, MountUndo,
                  MountFailed, UmountLease, UmountUnlease,
                  ImageStep, FetchManifest, FetchChildren, PutUpdate, PutCreate, DeleteGet,
                  DeleteCheck, DeleteImage,
                  ImportStep, Unpacked, Deleted, Undone,
                  LabelStep, LabelStat, LabelWrite, Look, At
    <2>2. CASE req[t].op # "commit"
      BY <2>1, <2>2 DEF CommitKept
    <2>3. CASE req[t].op = "commit"
      <3>1. Reaches(pc[t], "commit")
        BY <1>1, <2>1, <2>3, Busy
      <3>2. pc[t] \notin MountPart \cup WalkPart \cup {"umount_lease", "umount_unlease", "unpacked",
                           "deleted", "undone", "label_stat", "label_write", "look"}
        BY <3>1 DEF Reaches, Importers
      <3>3. UnpackStep(t) \/ ImageStep(t)
        BY <1>5, <3>2
           DEF Step, RemovalStep, StatLink, RemoveLink, WalkPart,
               MountStep, MountLease, MountCreate, MountExisting, MountAll, MountUndo,
               MountFailed, UmountLease, UmountUnlease, MountPart,
               ImportStep, Unpacked, Deleted, Undone,
               LabelStep, LabelStat, LabelWrite, Look, At
      <3>4. QED
        BY <1>1, <2>3, <3>3, UnpackKept, StoringKept
    <2>4. QED
      BY <2>2, <2>3
  <1>6. QED
    BY <1>1, <1>3, <1>4, <1>5, CommitPartKept DEF Step

\* A write in a mount, or nothing at all.
LEMMA QuietFacts ==
    ASSUME TInv, UserWrite \/ UNCHANGED vars
    PROVE  UNCHANGED <<pc, req, loc, images, serial>> /\ DOMAIN snaps' = DOMAIN snaps
  <1>1. CASE UserWrite
    <2>1. PICK m \in mounts, x \in UserChanges : snaps' = Written(snaps, m.snap, {x})
      BY <1>1 DEF UserWrite
    <2>2. DOMAIN snaps' = DOMAIN snaps
      BY <2>1, WrittenFacts DEF TInv, StoreTyped
    <2>3. QED
      BY <1>1, <2>2 DEF UserWrite, thread
  <1>2. CASE UNCHANGED vars
    BY <1>2 DEF vars
  <1>3. QED
    BY <1>1, <1>2

LEMMA KeptStep ==
    ASSUME NEW content, Settled(content), CommitsKept, TInv, ChainsFaithful, SparedInv, KeptInv,
           [Next]_vars
    PROVE  KeptInv'
  <1>1. CASE \E t \in Threads : Begin(t) \/ Step(t)
    <2>1. PICK u \in Threads : Begin(u) \/ Step(u)
      BY <1>1
    <2>2. ASSUME NEW t \in Threads
          PROVE  CommitKept(pc'[t], req'[t], loc'[t], images', snaps')
      <3>1. CASE t = u
        <4>1. CommitKept(pc[t], req[t], loc[t], images, snaps)
          BY DEF KeptInv
        <4>2. QED
          BY <2>1, <3>1, <4>1, OwnKept
      <3>2. CASE t # u
        BY <2>1, <3>2, OtherKept
      <3>3. QED
        BY <3>1, <3>2
    <2>3. QED
      BY <2>2 DEF KeptInv
  <1>2. CASE UserWrite \/ UNCHANGED vars
    <2>1. UNCHANGED <<pc, req, loc, images>> /\ DOMAIN snaps' = DOMAIN snaps
      BY <1>2, QuietFacts
    <2>2. QED
      BY <2>1 DEF KeptInv, CommitKept
  <1>3. CASE Kill \/ Reboot \/ \E t \in Threads : MountPanic(t)
    BY <1>3 DEF Kill, Reboot, MountPanic, ProcessEnds, KeptInv, CommitKept
  <1>4. QED
    BY <1>1, <1>2, <1>3 DEF Next

LEMMA KeptInvariant ==
    ASSUME NEW content, Settled(content), SoleCommits, ~ LiveWrites, CommitsKept
    PROVE  Spec => [](TInv /\ IInv /\ SettledInv(content) /\ KeptInv)
  <1>1. Init => SparedInv /\ KeptInv
    BY SparedInit DEF Init, KeptInv, CommitKept
  <1>2. TInv /\ SettledInv(content) /\ SparedInv /\ KeptInv /\ [Next]_vars =>
            SparedInv' /\ KeptInv'
    BY KeptStep, SparedStep DEF SettledInv
  <1>3. QED
    BY <1>1, <1>2, SettledInvariant, PTL DEF Spec

\* Where, besides what StoreChainsFaithful supposes, no other call removes
\* snapshots or images, or stores an image under the name committed to: a
\* Commit that returns without error has stored its image, and every snapshot
\* of it is there and committed.  Commit itself looks at the last of them only.
THEOREM StoreCommitDurable ==
    ASSUME NEW content, Settled(content), SoleCommits, ~ LiveWrites, CommitsKept
    PROVE  Spec => []CommitDurable
  <1>1. ASSUME TInv, ParentsCommitted, Acyclic, ChainsFaithful, KeptInv
        PROVE  CommitDurable
    <2> SUFFICES ASSUME NEW t \in Threads, Succeeded(t, "commit")
                 PROVE  /\ req[t].ref \in DOMAIN images
                        /\ \A i \in 1..Len(images[req[t].ref]) :
                              IsCommitted(snaps, Chain(SubSeq(images[req[t].ref], 1, i)))
      BY DEF CommitDurable
    <2> DEFINE c == images[req[t].ref]
    <2>1. pc[t] = "return" /\ pc[t] # "idle" /\ req[t].op = "commit" /\ ~ loc[t].err
      BY DEF Succeeded, At
    <2>2. req[t].ref \in DOMAIN images /\ Chain(c) \in DOMAIN snaps
      BY <1>1, <2>1 DEF KeptInv, CommitKept
    <2>3. c \in Seq(Layers)
      BY <1>1, <2>2 DEF TInv, StoreTyped, ImagesTyped, Chains
    <2> HIDE DEF c
    <2>4. ASSUME NEW i \in 1..Len(c)
          PROVE  IsCommitted(snaps, Chain(SubSeq(c, 1, i)))
      <3>1. Chain(SubSeq(c, 1, i)) \in DOMAIN snaps
        BY <1>1, <2>2, <2>3, ChainsWhole
      <3>2. Chain(SubSeq(c, 1, i))[1] = "chain"
        BY DEF Chain
      <3>3. QED
        BY <1>1, <3>1, <3>2 DEF ChainsFaithful, IsCommitted
    <2>5. QED
      BY <2>2, <2>4 DEF c
  <1>2. SettledInv(content) => ChainsFaithful
    BY DEF SettledInv
  <1>3. QED
    BY <1>1, <1>2, KeptInvariant, StoreParentsCommitted, StoreAcyclic, PTL

-----------------------------------------------------------------------------
(* SingleImportFile.                                                        *)

Elements(s) == {s[i] : i \in DOMAIN s}

\* The image of the archive that is kept, and the others.
First(r)  == r.archive[1]
Others(r) == {r.archive[i] : i \in 2..Len(r.archive)}

\* n is a snapshot of one of the others, or no snapshot.
OnLine(r, n) == \E y \in Others(r) : OnChain(y.chain, n)

\* The others have other names and, if the first image is to be unpacked, none
\* of them is built on it; and no other thread stores an image under a name of
\* the archive, or removes images or snapshots.
SinglesKept ==
    \A t \in Threads : \A r \in Requests[t] :
        r.op = "single" =>
            /\ \A y \in Others(r) : y.ref # First(r).ref
            /\ r.unpack => ~ OnLine(r, Chain(First(r).chain))
            /\ \A u \in Threads \ {t} : \A y \in Elements(r.archive) : LeavesBe(u, y.ref)

\* The record of the first image; one of another image; the unpacking.
FirstStored(r, is)    == First(r).ref \in DOMAIN is /\ is[First(r).ref] = First(r).chain
OtherStored(r, is, y) == y.ref \in DOMAIN is => \E z \in Others(r) : is[y.ref] = z.chain
FirstUnpacked(r, s)   == ~ Faults /\ r.unpack => Chain(First(r).chain) \in DOMAIN s

Stored(r, is) == FirstStored(r, is) /\ \A y \in Others(r) : OtherStored(r, is, y)

\* A call r with only those images of the archive ahead of it: to be stored, to
\* be unpacked, to be deleted; and what it is for.
Storing(r, is, ahead) ==
    /\ ahead \subseteq Elements(r.archive)
    /\ First(r) \in ahead \/ FirstStored(r, is)
    /\ \A y \in Others(r) : y \in ahead \/ OtherStored(r, is, y)

Unpacking(r, is, s, ahead) ==
    /\ Stored(r, is)
    /\ First(r) \in ahead \/ FirstUnpacked(r, s)

Deleting(r, is, s, ahead, errs) ==
    /\ Stored(r, is)
    /\ FirstUnpacked(r, s)
    /\ ahead \subseteq Others(r)
    /\ \A y \in Others(r) : errs \/ y \in ahead \/ y.ref \notin DOMAIN is

Kept1(r, is, s) ==
    /\ FirstStored(r, is)
    /\ FirstUnpacked(r, s)
    /\ \A y \in Others(r) : y.ref \notin DOMAIN is

\* A call of SingleImportFile at p, with the extraction snapshot e.
Single(p, r, l, e, is, s) ==
    p # "idle" /\ r.op = "single" =>
        /\ p \in FetchPart => l.todo = r.archive
        /\ p \in PutPart => Storing(r, is, Elements(l.todo))
        /\ p \in UnpackPart =>
              /\ l.todo # << >> /\ l.chain = Head(l.todo).chain
              /\ Unpacking(r, is, s, Elements(l.todo))
              /\ ~ Faults => Rising(p, l, e, s)
              /\ p = "unpack" => ~ l.err
        /\ p = "unpacked" => l.todo # << >> /\ Unpacking(r, is, s, Elements(Tail(l.todo)))
        /\ p \in DeletePart \cup WalkPart /\ l.loop = "deleted" =>
              /\ Deleting(r, is, s, Elements(l.todo), l.errs)
              /\ p = "delete_check" => \E y \in Others(r) : l.chain = y.chain
              /\ p \in WalkPart => OnLine(r, l.cur)
              /\ p = "walk_remove" => OnLine(r, l.par)
        /\ p = "deleted" => l.todo # << >> /\ Deleting(r, is, s, Elements(Tail(l.todo)), l.errs)
        /\ p = "return" /\ ~ l.err => Kept1(r, is, s)

SinglesInv == \A t \in Threads : Single(pc[t], req[t], loc[t], Extract(t), images, snaps)

LEMMA ElementsFacts ==
    ASSUME NEW X, NEW s \in Seq(X), s # << >>
    PROVE  /\ Elements(s) = {Head(s)} \cup Elements(Tail(s))
           /\ Elements(Tail(s)) = {s[i] : i \in 2..Len(s)}
           /\ Head(s) = s[1]
           /\ Elements(s) \subseteq X
           /\ Len(s) <= 1 => Elements(Tail(s)) = {}
  <1>1. /\ Len(s) \in Nat /\ Len(s) # 0 /\ DOMAIN s = 1..Len(s)
        /\ DOMAIN Tail(s) = 1..(Len(s) - 1)
        /\ \A i \in 1..(Len(s) - 1) : Tail(s)[i] = s[i + 1]
        /\ \A i \in 1..Len(s) : s[i] \in X
    BY HeadTailProperties, LenProperties, EmptySeq
  <1>2. Head(s) = s[1]
    OBVIOUS
  <1>3. Elements(Tail(s)) = {s[i] : i \in 2..Len(s)}
    <2>1. ASSUME NEW i \in 2..Len(s)
          PROVE  \E j \in DOMAIN Tail(s) : Tail(s)[j] = s[i]
      <3>1. i - 1 \in 1..(Len(s) - 1) /\ (i - 1) + 1 = i
        BY <1>1
      <3>2. QED
        BY <1>1, <3>1
    <2>2. ASSUME NEW j \in DOMAIN Tail(s)
          PROVE  \E i \in 2..Len(s) : Tail(s)[j] = s[i]
      BY <1>1
    <2>3. Elements(Tail(s)) \subseteq {s[i] : i \in 2..Len(s)}
      BY <2>2 DEF Elements
    <2>4. {s[i] : i \in 2..Len(s)} \subseteq Elements(Tail(s))
      BY <2>1 DEF Elements
    <2>5. QED
      BY <2>3, <2>4
  <1>4. Elements(s) = {Head(s)} \cup {s[i] : i \in 2..Len(s)}
    <2>1. 1..Len(s) = {1} \cup 2..Len(s)
      BY <1>1
    <2>2. QED
      BY <1>1, <1>2, <2>1 DEF Elements
  <1>5. Len(s) <= 1 => 2..Len(s) = {}
    BY <1>1
  <1>6. Elements(s) \subseteq X
    BY <1>1 DEF Elements
  <1>7. QED
    BY <1>2, <1>3, <1>4, <1>5, <1>6

LEMMA ArchiveFacts ==
    ASSUME SinglesKept, NEW t \in Threads, NEW r \in Requests[t], r.op = "single"
    PROVE  /\ r.archive \in Seq(Images) /\ r.archive # << >>
           /\ First(r) = Head(r.archive)
           /\ Elements(r.archive) = Others(r) \cup {First(r)}
           /\ Elements(Tail(r.archive)) = Others(r)
           /\ Elements(r.archive) \subseteq Images
           /\ Len(r.archive) <= 1 => Others(r) = {}
           /\ \A y \in Others(r) : y.ref # First(r).ref
           /\ r.unpack => ~ OnLine(r, Chain(First(r).chain))
  <1>1. r.archive \in Seq(Images) /\ r.archive # << >>
    BY CallFacts DEF Fetchers, Importers
  <1>2. QED
    BY <1>1, ElementsFacts DEF SinglesKept, First, Others

\* The image at the head of the list has been stored.
LEMMA StoringGoesOn ==
    ASSUME NEW r, NEW is, NEW todo \in Seq(Images), todo # << >>,
           Storing(r, is, Elements(todo)),
           Elements(r.archive) = Others(r) \cup {First(r)},
           \A y \in Others(r) : y.ref # First(r).ref,
           NEW is2, DOMAIN is2 = DOMAIN is \cup {Head(todo).ref},
           is2[Head(todo).ref] = Head(todo).chain,
           \A q \in DOMAIN is \ {Head(todo).ref} : is2[q] = is[q]
    PROVE  Storing(r, is2, Elements(Tail(todo)))
  <1> DEFINE x == Head(todo)
  <1>1. Elements(todo) = {x} \cup Elements(Tail(todo)) /\ x \in Others(r) \cup {First(r)}
    BY ElementsFacts DEF Storing
  <1>2. Elements(Tail(todo)) \subseteq Elements(r.archive)
    BY <1>1 DEF Storing
  <1>3. First(r) \in Elements(Tail(todo)) \/ FirstStored(r, is2)
    <2>1. CASE x = First(r)
      BY <2>1 DEF FirstStored
    <2>2. CASE x \in Others(r)
      BY <1>1, <2>2 DEF Storing, FirstStored
    <2>3. QED
      BY <1>1, <2>1, <2>2
  <1>4. ASSUME NEW y \in Others(r)
        PROVE  y \in Elements(Tail(todo)) \/ OtherStored(r, is2, y)
    <2>1. CASE x.ref = y.ref
      <3>1. x \in Others(r)
        BY <1>1, <2>1
      <3>2. QED
        BY <2>1, <3>1 DEF OtherStored
    <2>2. CASE x.ref # y.ref
      <3>1. y \in Elements(Tail(todo)) \/ OtherStored(r, is, y)
        BY <1>1, <2>2 DEF Storing
      <3>2. QED
        BY <2>2, <3>1 DEF OtherStored
    <2>3. QED
      BY <2>1, <2>2
  <1>5. QED
    BY <1>2, <1>3, <1>4 DEF Storing

\* The image at the head of the list has been deleted.
LEMMA DeletingGoesOn ==
    ASSUME NEW r, NEW is, NEW s, NEW errs, NEW todo \in Seq(Images), todo # << >>,
           Deleting(r, is, s, Elements(todo), errs),
           \A y \in Others(r) : y.ref # First(r).ref,
           NEW is2, is2 = Restrict(is, DOMAIN is \ {Head(todo).ref})
    PROVE  Deleting(r, is2, s, Elements(Tail(todo)), errs)
  <1> DEFINE x == Head(todo)
  <1>1. Elements(todo) = {x} \cup Elements(Tail(todo)) /\ x \in Others(r)
    BY ElementsFacts DEF Deleting
  <1>2. DOMAIN is2 = DOMAIN is \ {x.ref} /\ \A q \in DOMAIN is2 : is2[q] = is[q]
    BY DEF Restrict
  <1>3. FirstStored(r, is2)
    BY <1>1, <1>2 DEF Deleting, Stored, FirstStored
  <1>4. \A y \in Others(r) : OtherStored(r, is2, y)
    BY <1>2 DEF Deleting, Stored, OtherStored
  <1>5. \A y \in Others(r) : errs \/ y \in Elements(Tail(todo)) \/ y.ref \notin DOMAIN is2
    BY <1>1, <1>2 DEF Deleting
  <1>6. QED
    BY <1>1, <1>3, <1>4, <1>5 DEF Deleting, Stored

\* What happens to other images and to snapshots that the call has no use for.
LEMMA SingleKept ==
    ASSUME NEW p, NEW r, NEW l, NEW e, NEW e2, NEW is, NEW is2, NEW s, NEW s2,
           p # "idle" /\ r.op = "single" =>
               /\ First(r) \in Elements(r.archive) /\ Others(r) \subseteq Elements(r.archive)
               /\ \A y \in Elements(r.archive) :
                     /\ y.ref \in DOMAIN is <=> y.ref \in DOMAIN is2
                     /\ y.ref \in DOMAIN is => is2[y.ref] = is[y.ref]
               /\ FirstUnpacked(r, s) => FirstUnpacked(r, s2)
               /\ p \in UnpackPart /\ ~ Faults /\ Rising(p, l, e, s) => Rising(p, l, e2, s2),
           Single(p, r, l, e, is, s)
    PROVE  Single(p, r, l, e2, is2, s2)
  <1> SUFFICES ASSUME p # "idle", r.op = "single"
               PROVE  Single(p, r, l, e2, is2, s2)
    BY DEF Single
  <1>1. FirstStored(r, is) => FirstStored(r, is2)
    BY DEF FirstStored
  <1>2. \A y \in Others(r) : OtherStored(r, is, y) => OtherStored(r, is2, y)
    BY DEF OtherStored
  <1>3. \A y \in Others(r) : y.ref \notin DOMAIN is => y.ref \notin DOMAIN is2
    OBVIOUS
  <1>4. FirstUnpacked(r, s) => FirstUnpacked(r, s2)
    OBVIOUS
  <1>5. Stored(r, is) => Stored(r, is2)
    BY <1>1, <1>2 DEF Stored
  <1>6. \A ahead : Storing(r, is, ahead) => Storing(r, is2, ahead)
    BY <1>1, <1>2 DEF Storing
  <1>7. \A ahead : Unpacking(r, is, s, ahead) => Unpacking(r, is2, s2, ahead)
    BY <1>4, <1>5 DEF Unpacking
  <1>8. \A ahead, errs : Deleting(r, is, s, ahead, errs) => Deleting(r, is2, s2, ahead, errs)
    BY <1>3, <1>4, <1>5 DEF Deleting
  <1>9. Kept1(r, is, s) => Kept1(r, is2, s2)
    BY <1>1, <1>3, <1>4 DEF Kept1
  <1>10. p \in UnpackPart /\ ~ Faults /\ Rising(p, l, e, s) => Rising(p, l, e2, s2)
    OBVIOUS
  <1>11. QED
    BY <1>6, <1>7, <1>8, <1>9, <1>10 DEF Single

\* The moves of a call between the images.
LEMMA SingleMoves ==
    ASSUME ThreadsFit, NEW t \in Threads, pc[t] # "idle"
    PROVE  /\ \A todo, errs : UnpackFirst(t, todo, errs) =>
                 /\ pc'[t] = "unpack"
                 /\ loc'[t].todo = todo /\ loc'[t].chain = Head(todo).chain /\ ~ loc'[t].err
           /\ \A todo, errs, loop : DeleteFirst(t, todo, errs, loop) =>
                 /\ pc'[t] = "delete"
                 /\ loc'[t].todo = todo /\ loc'[t].errs = errs /\ loc'[t].loop = loop
           /\ \A failed : loc[t].loop # "none" /\ EndPart(t, failed) =>
                 /\ pc'[t] = loc[t].loop
                 /\ loc'[t].todo = loc[t].todo /\ loc'[t].errs = (loc[t].errs \/ failed)
  <1>1. loc = [u \in Threads |-> loc[u]]
    BY DEF ThreadsFit
  <1>2. ASSUME NEW todo, NEW errs, UnpackFirst(t, todo, errs)
        PROVE  /\ pc'[t] = "unpack"
               /\ loc'[t].todo = todo /\ loc'[t].chain = Head(todo).chain /\ ~ loc'[t].err
    <2> DEFINE c == Head(todo).chain
               l == [Blank EXCEPT !.chain = c, !.todo = todo, !.errs = errs,
                                  !.loop = "unpacked", !.next = "unpacked"]
    <2>1. Goto(t, "unpack") /\ loc' = [loc EXCEPT ![t] = l]
      BY <1>2 DEF UnpackFirst
    <2> HIDE DEF c
    <2>2. l.todo = todo /\ l.chain = c /\ ~ l.err
      BY DEF Blank
    <2> HIDE DEF l
    <2>3. loc'[t] = l
      BY <1>1, <2>1
    <2>4. QED
      BY <2>1, <2>2, <2>3, PartsLead DEF c
  <1>3. ASSUME NEW todo, NEW errs, NEW loop, DeleteFirst(t, todo, errs, loop)
        PROVE  /\ pc'[t] = "delete"
               /\ loc'[t].todo = todo /\ loc'[t].errs = errs /\ loc'[t].loop = loop
    <2> DEFINE l == [Blank EXCEPT !.todo = todo, !.errs = errs, !.loop = loop]
    <2>1. Goto(t, "delete") /\ loc' = [loc EXCEPT ![t] = l]
      BY <1>3 DEF DeleteFirst
    <2>2. l.todo = todo /\ l.errs = errs /\ l.loop = loop
      BY DEF Blank
    <2> HIDE DEF l
    <2>3. loc'[t] = l
      BY <1>1, <2>1
    <2>4. QED
      BY <2>1, <2>2, <2>3, PartsLead
  <1>4. ASSUME NEW failed, loc[t].loop # "none", EndPart(t, failed)
        PROVE  /\ pc'[t] = loc[t].loop
               /\ loc'[t].todo = loc[t].todo /\ loc'[t].errs = (loc[t].errs \/ failed)
    <2> DEFINE todo == loc[t].todo
               errs == loc[t].errs \/ failed
               l == [Blank EXCEPT !.todo = todo, !.errs = errs]
    <2>1. Goto(t, loc[t].loop) /\ loc' = [loc EXCEPT ![t] = l]
      BY <1>4 DEF EndPart
    <2> HIDE DEF todo, errs
    <2>2. l.todo = todo /\ l.errs = errs
      BY DEF Blank
    <2> HIDE DEF l
    <2>3. loc'[t] = l
      BY <1>1, <2>1
    <2>4. QED
      BY <2>1, <2>2, <2>3, PartsLead DEF todo, errs
  <1>5. QED
    BY <1>2, <1>3, <1>4

LEMMA SingleAt ==
    ASSUME NEW p, NEW r, NEW l, NEW e, NEW is, NEW s
    PROVE  /\ p \in {"idle", "undone"} => Single(p, r, l, e, is, s)
           /\ p \in FetchPart /\ l.todo = r.archive => Single(p, r, l, e, is, s)
           /\ p \in PutPart /\ Storing(r, is, Elements(l.todo)) => Single(p, r, l, e, is, s)
           /\ /\ p \in UnpackPart
              /\ l.todo # << >> /\ l.chain = Head(l.todo).chain
              /\ Unpacking(r, is, s, Elements(l.todo))
              /\ ~ Faults => Rising(p, l, e, s)
              /\ p = "unpack" => ~ l.err
              => Single(p, r, l, e, is, s)
           /\ p = "unpacked" /\ l.todo # << >> /\ Unpacking(r, is, s, Elements(Tail(l.todo)))
              => Single(p, r, l, e, is, s)
           /\ p \in DeletePart \cup WalkPart /\ l.loop # "deleted" => Single(p, r, l, e, is, s)
           /\ /\ p \in DeletePart \cup WalkPart
              /\ Deleting(r, is, s, Elements(l.todo), l.errs)
              /\ p = "delete_check" => \E y \in Others(r) : l.chain = y.chain
              /\ p \in WalkPart => OnLine(r, l.cur)
              /\ p = "walk_remove" => OnLine(r, l.par)
              => Single(p, r, l, e, is, s)
           /\ p = "deleted" /\ l.todo # << >>
              /\ Deleting(r, is, s, Elements(Tail(l.todo)), l.errs) => Single(p, r, l, e, is, s)
           /\ p = "return" /\ (l.err \/ Kept1(r, is, s)) => Single(p, r, l, e, is, s)
  BY DEF Single, FetchPart, PutPart, UnpackPart, LayerPart, DeletePart, WalkPart

LEMMA SingleFails ==
    ASSUME ThreadsFit, NEW t \in Threads, req[t].op = "single", Finish(t, TRUE), UNCHANGED req,
           NEW e, NEW is, NEW s
    PROVE  Single(pc'[t], req'[t], loc'[t], e, is, s)
  BY FinishFails, SingleAt

\* All are stored, and the first one is unpacked: the others go.
LEMMA FetchedSingle ==
    ASSUME SinglesKept, ThreadsFit, NEW t \in Threads, pc[t] # "idle", req[t].op = "single",
           Fetched(t), UNCHANGED req, NEW e, NEW is, NEW s,
           Stored(req[t], is), FirstUnpacked(req[t], s)
    PROVE  Single(pc'[t], req'[t], loc'[t], e, is, s)
  <1> DEFINE r == req[t]
  <1>1. /\ r \in Requests[t] /\ r.archive \in Seq(Images)
        /\ Elements(Tail(r.archive)) = Others(r)
        /\ Len(r.archive) <= 1 => Others(r) = {}
    BY Busy, ArchiveFacts
  <1>2. CASE Len(r.archive) > 1
    <2>1. DeleteFirst(t, Tail(r.archive), FALSE, "deleted")
      BY <1>2 DEF Fetched
    <2>2. pc'[t] = "delete" /\ loc'[t].todo = Tail(r.archive) /\ loc'[t].errs = FALSE
      BY <2>1, SingleMoves
    <2>3. Deleting(r, is, s, Elements(Tail(r.archive)), FALSE)
      BY <1>1 DEF Deleting
    <2>4. QED
      BY <2>2, <2>3, SingleAt DEF DeletePart, WalkPart
  <1>3. CASE ~ (Len(r.archive) > 1)
    <2>1. Finish(t, FALSE)
      BY <1>3 DEF Fetched
    <2>2. Len(r.archive) <= 1
      BY <1>1, <1>3, LenProperties
    <2>3. Kept1(r, is, s)
      BY <1>1, <2>2 DEF Kept1, Stored
    <2>4. QED
      BY <2>1, <2>3, PartsLead, SingleAt
  <1>4. QED
    BY <1>2, <1>3

LEMMA FetchSingle ==
    ASSUME SinglesKept, ThreadsFit, NEW t \in Threads, FetchManifest(t) \/ FetchChildren(t),
           req[t].op = "single", Single(pc[t], req[t], loc[t], Extract(t), images, snaps),
           NEW e
    PROVE  Single(pc'[t], req'[t], loc'[t], e, images', snaps')
  <1>1. pc[t] \in FetchPart /\ pc[t] # "idle" /\ UNCHANGED <<req, images, snaps>>
    BY DEF FetchManifest, FetchChildren, At, FetchPart
  <1>2. loc[t].todo = req[t].archive
    BY <1>1 DEF Single
  <1>3. CASE Finish(t, TRUE)
    BY <1>1, <1>3, SingleFails
  <1>4. CASE Goto(t, "fetch_children") /\ UNCHANGED loc
    BY <1>1, <1>2, <1>4, PartsLead, SingleAt DEF FetchPart
  <1>5. CASE Goto(t, "put_update") /\ UNCHANGED loc
    <2>1. Storing(req[t], images, Elements(loc[t].todo))
      <3>1. req[t] \in Requests[t]
        BY <1>1, Busy
      <3>2. Elements(req[t].archive) = Others(req[t]) \cup {First(req[t])}
        BY <3>1, ArchiveFacts
      <3>3. QED
        BY <1>2, <3>2 DEF Storing
    <2>2. QED
      BY <1>1, <1>5, <2>1, PartsLead, SingleAt DEF PutPart
  <1>6. QED
    BY <1>3, <1>4, <1>5 DEF FetchManifest, FetchChildren

LEMMA StoreSingle ==
    ASSUME SinglesKept, ThreadsFit, NEW t \in Threads, PutUpdate(t) \/ PutCreate(t),
           req[t].op = "single", Single(pc[t], req[t], loc[t], Extract(t), images, snaps),
           NEW e
    PROVE  Single(pc'[t], req'[t], loc'[t], e, images', snaps')
  <1> DEFINE r == req[t]
             todo == loc[t].todo
  <1>1. pc[t] \in PutPart /\ pc[t] # "idle" /\ UNCHANGED <<req, snaps>>
    BY DEF PutUpdate, PutCreate, At, PutPart
  <1>2. r \in Requests[t] /\ todo \in Seq(Images) /\ todo # << >> /\ loc = [u \in Threads |-> loc[u]]
        /\ loc[t] \in Locals
    BY <1>1, Busy DEF Works, Fetchers, Importers, Locals, ThreadsFit
  <1>3. Storing(r, images, Elements(todo))
    BY <1>1 DEF Single
  <1>4. Image(t) = Head(todo)
    BY <1>2 DEF Image
  <1>5. ASSUME AfterPut(t), DOMAIN images' = DOMAIN images \cup {Head(todo).ref},
               images'[Head(todo).ref] = Head(todo).chain,
               \A q \in DOMAIN images \ {Head(todo).ref} : images'[q] = images[q]
        PROVE  Single(pc'[t], req'[t], loc'[t], e, images', snaps')
    <2>1. /\ Elements(r.archive) = Others(r) \cup {First(r)}
          /\ \A y \in Others(r) : y.ref # First(r).ref
          /\ r.archive # << >> /\ First(r) = Head(r.archive)
      BY <1>2, ArchiveFacts
    <2>2. Storing(r, images', Elements(Tail(todo)))
      <3> HIDE DEF r, todo
      <3>1. QED
        BY <1>2, <1>3, <1>5, <2>1, StoringGoesOn
    <2>3. AfterImported(t)
      BY <1>5 DEF AfterPut
    <2>4. CASE Len(todo) > 1
      <3>1. Goto(t, "put_update") /\ loc' = [loc EXCEPT ![t].todo = Tail(@)]
        BY <2>3, <2>4 DEF AfterImported
      <3>2. pc'[t] = "put_update" /\ loc'[t].todo = Tail(todo)
        BY <1>2, <3>1, PartsLead DEF Locals
      <3>3. QED
        BY <1>1, <2>2, <3>2, SingleAt DEF PutPart
    <2>5. CASE ~ (Len(todo) > 1)
      <3>1. Elements(Tail(todo)) = {}
        <4>1. Len(todo) <= 1
          BY <1>2, <2>5, LenProperties
        <4>2. QED
          BY <1>2, <4>1, ElementsFacts
      <3>2. Stored(r, images')
        BY <2>2, <3>1 DEF Storing, Stored
      <3>3. CASE r.unpack
        <4>1. UnpackFirst(t, r.archive, FALSE)
          BY <2>3, <2>5, <3>3 DEF AfterImported
        <4>2. /\ pc'[t] = "unpack"
              /\ loc'[t].todo = r.archive /\ loc'[t].chain = Head(r.archive).chain /\ ~ loc'[t].err
          BY <1>1, <4>1, SingleMoves
        <4>3. Unpacking(r, images', snaps', Elements(r.archive))
          BY <2>1, <3>2 DEF Unpacking
        <4>4. Rising("unpack", loc'[t], e, snaps')
          BY DEF Rising, LayerPart
        <4>5. QED
          BY <1>1, <2>1, <4>2, <4>3, <4>4, SingleAt DEF UnpackPart
      <3>4. CASE ~ r.unpack
        <4>1. Fetched(t)
          BY <2>3, <2>5, <3>4 DEF AfterImported
        <4>2. FirstUnpacked(r, snaps')
          BY <3>4 DEF FirstUnpacked
        <4>3. QED
          BY <1>1, <3>2, <4>1, <4>2, FetchedSingle
      <3>5. QED
        BY <3>3, <3>4
    <2>6. QED
      BY <2>4, <2>5
  <1>6. ASSUME NEW p \in PutPart, Goto(t, p), UNCHANGED <<images, loc>>
        PROVE  Single(pc'[t], req'[t], loc'[t], e, images', snaps')
    BY <1>1, <1>3, <1>6, PartsLead, SingleAt
  <1>7. CASE PutUpdate(t)
    <2>1. CASE /\ Image(t).ref \in DOMAIN images
               /\ images' = [images EXCEPT ![Image(t).ref] = Image(t).chain]
               /\ AfterPut(t)
      BY <1>4, <1>5, <2>1
    <2>2. CASE Goto(t, "put_create") /\ UNCHANGED <<images, loc>>
      BY <1>6, <2>2 DEF PutPart
    <2>3. QED
      BY <1>1, <1>7, <2>1, <2>2, SingleFails DEF PutUpdate
  <1>8. CASE PutCreate(t)
    <2>1. CASE images' = Put(images, Image(t).ref, Image(t).chain) /\ AfterPut(t)
      BY <1>4, <1>5, <2>1 DEF Put
    <2>2. CASE Goto(t, "put_update") /\ UNCHANGED <<images, loc>>
      BY <1>6, <2>2 DEF PutPart
    <2>3. QED
      BY <1>1, <1>8, <2>1, <2>2, SingleFails DEF PutCreate
  <1>9. QED
    BY <1>7, <1>8

\* An extraction keeps the list, and the image while it goes on.
LEMMA UnpackKeepsList ==
    ASSUME ThreadsFit, NEW t \in Threads, UnpackStep(t), req[t].op = "single"
    PROVE  /\ pc[t] \in UnpackPart /\ pc[t] # "idle" /\ UNCHANGED <<req, images>>
           /\ loc'[t].todo = loc[t].todo
           /\ \/ pc'[t] = "unpacked"
              \/ pc'[t] \in LayerPart /\ loc'[t].chain = loc[t].chain
  <1>1. pc[t] \in UnpackPart /\ pc[t] # "idle" /\ UNCHANGED <<req, images>>
    BY DEF UnpackStep, CheckUnpacked, PrepareLayer, ApplyLayer, CommitLayer, AbortLayer, At,
           UnpackPart, LayerPart, store
  <1>2. /\ loc[t] \in Locals /\ loc = [u \in Threads |-> loc[u]]
        /\ loc[t].loop = "unpacked" /\ loc[t].next = "unpacked"
    BY <1>1, Busy DEF Follows, Importers, ThreadsFit
  <1> DEFINE Goal == /\ loc'[t].todo = loc[t].todo
                     /\ \/ pc'[t] = "unpacked"
                        \/ pc'[t] \in LayerPart /\ loc'[t].chain = loc[t].chain
  <1>3. EndPart(t, TRUE) => Goal
    BY <1>1, <1>2, SingleMoves
  <1>4. Continue(t) => Goal
    BY <1>1, <1>2, Continued
  <1>5. ASSUME NEW p \in LayerPart, Goto(t, p),
               \/ UNCHANGED loc
               \/ \E n : loc' = [loc EXCEPT ![t].i = n]
               \/ \E b : loc' = [loc EXCEPT ![t].err = b]
        PROVE  Goal
    <2>1. loc'[t].todo = loc[t].todo /\ loc'[t].chain = loc[t].chain
      BY <1>2, <1>5 DEF Locals
    <2>2. QED
      BY <1>5, <2>1, PartsLead
  <1>6. {"extract", "apply", "commit_layer", "abort_layer"} \subseteq LayerPart
    BY DEF LayerPart
  <1> HIDE DEF Goal
  <1>7. NextLayer(t) => Goal
    BY <1>4, <1>5, <1>6 DEF NextLayer
  <1>8. CheckUnpacked(t) => Goal
    BY <1>3, <1>4, <1>5, <1>6 DEF CheckUnpacked
  <1>9. PrepareLayer(t) \/ ApplyLayer(t) => Goal
    BY <1>3, <1>5, <1>6 DEF PrepareLayer, ApplyLayer
  <1>10. CommitLayer(t) => Goal
    BY <1>5, <1>6, <1>7 DEF CommitLayer
  <1>11. AbortLayer(t) => Goal
    BY <1>3, <1>7 DEF AbortLayer
  <1>12. Goal
    BY <1>8, <1>9, <1>10, <1>11 DEF UnpackStep
  <1>13. QED
    BY <1>1, <1>12 DEF Goal

LEMMA UnpackSingle ==
    ASSUME SinglesKept, TInv, TempsInv, ContentInv, ChainsFaithful, NEW t \in Threads, Extracted(t),
           UnpackStep(t), req[t].op = "single",
           Single(pc[t], req[t], loc[t], Extract(t), images, snaps)
    PROVE  Single(pc'[t], req'[t], loc'[t], Extract(t), images', snaps')
  <1> DEFINE r == req[t]
             todo == loc[t].todo
             e == Extract(t)
  <1>1. ThreadsFit
    BY DEF TInv
  <1>2. /\ pc[t] \in UnpackPart /\ pc[t] # "idle" /\ UNCHANGED <<req, images>>
        /\ loc'[t].todo = todo
        /\ \/ pc'[t] = "unpacked"
           \/ pc'[t] \in LayerPart /\ loc'[t].chain = loc[t].chain
    BY <1>1, UnpackKeepsList
  <1>3. /\ todo # << >> /\ loc[t].chain = Head(todo).chain
        /\ Unpacking(r, images, snaps, Elements(todo))
        /\ ~ Faults => Rising(pc[t], loc[t], e, snaps)
        /\ pc[t] = "unpack" => ~ loc[t].err
    BY <1>2 DEF Single
  <1>4. ~ Faults => Rises(t)
    <2>1. todo \in Seq(Images)
      BY <1>1, <1>2, Busy DEF Locals
    <2>2. ContentOf(loc[t].chain) \subseteq blobs
      <3>1. Have(todo, blobs)
        BY <1>2 DEF ContentInv, Stocked, Fetchers, Importers
      <3>2. QED
        BY <1>3, <2>1, <3>1, HaveFirst
    <2>3. QED
      BY <1>3, <2>2, OwnRises
  <1>5. FirstUnpacked(r, snaps) => FirstUnpacked(r, snaps')
    <2>1. ASSUME NEW n \in DOMAIN snaps, n[1] = "chain"
          PROVE  n \in DOMAIN snaps'
      <3> SUFFICES ASSUME n \notin DOMAIN snaps'
                   PROVE  FALSE
        OBVIOUS
      <3>1. Taken(t, n)
        BY UnpackChanges DEF Changed
      <3>2. n \notin {Extract(t), Lower(t), Upper(t)}
        BY <2>1 DEF Extract, Lower, Upper, Temp
      <3>3. pc[t] \notin {"walk_remove", "mount_undo", "commit_snapshot"}
        BY <1>2 DEF UnpackPart, LayerPart
      <3>4. QED
        BY <3>1, <3>2, <3>3 DEF Taken, RemoveLink, MountUndo, CommitActive, At
    <2>2. Chain(First(r).chain)[1] = "chain"
      BY DEF Chain
    <2>3. QED
      BY <2>1, <2>2 DEF FirstUnpacked
  <1>6. Unpacking(r, images', snaps', Elements(todo))
    BY <1>2, <1>3, <1>5 DEF Unpacking
  <1>7. CASE pc'[t] \in LayerPart
    <2>1. pc'[t] \in UnpackPart /\ pc'[t] # "unpack" /\ pc'[t] # "unpacked"
      BY <1>7 DEF UnpackPart, LayerPart
    <2>2. ASSUME ~ Faults
          PROVE  Rising(pc'[t], loc'[t], e, snaps')
      <3>1. CASE Continue(t)
        <4>1. pc'[t] = "unpacked"
          BY <1>1, <1>2, <3>1, Continued, Busy DEF Follows, Importers
        <4>2. QED
          BY <2>1, <4>1
      <3>2. QED
        BY <1>4, <2>2, <3>1 DEF Rises
    <2>3. QED
      BY <1>2, <1>3, <1>6, <2>1, <2>2, SingleAt
  <1>8. CASE pc'[t] = "unpacked"
    <2>1. pc'[t] \notin LayerPart
      BY <1>8 DEF LayerPart
    <2>2. ~ Faults => Chain(loc[t].chain) \in DOMAIN snaps'
      BY <1>4, <2>1 DEF Rises
    <2>3. Elements(todo) = {Head(todo)} \cup Elements(Tail(todo))
      <3>1. todo \in Seq(Images)
        BY <1>1, <1>2, Busy DEF Locals
      <3>2. QED
        BY <1>3, <3>1, ElementsFacts
    <2>4. Head(todo) = First(r) => FirstUnpacked(r, snaps')
      BY <1>3, <2>2 DEF FirstUnpacked
    <2>5. Unpacking(r, images', snaps', Elements(Tail(todo)))
      BY <1>6, <2>3, <2>4 DEF Unpacking
    <2>6. QED
      BY <1>2, <1>3, <1>8, <2>5, SingleAt
  <1>9. QED
    BY <1>2, <1>7, <1>8

LEMMA LoopSingle ==
    ASSUME SinglesKept, ThreadsFit, NEW t \in Threads, ImportStep(t),
           req[t].op = "single", Single(pc[t], req[t], loc[t], Extract(t), images, snaps),
           NEW e
    PROVE  Single(pc'[t], req'[t], loc'[t], e, images', snaps')
  <1> DEFINE r == req[t]
             todo == loc[t].todo
  <1>1. /\ pc[t] # "idle" /\ UNCHANGED <<req, images, snaps>>
        /\ Unpacked(t) => pc[t] = "unpacked"
        /\ Deleted(t) => pc[t] = "deleted"
    BY DEF ImportStep, Unpacked, Deleted, Undone, At, store
  <1>2. todo \in Seq(Images)
    BY <1>1, Busy DEF Locals
  <1>3. todo # << >> => /\ Tail(todo) \in Seq(Images)
                        /\ Len(todo) > 1 => Tail(todo) # << >>
                        /\ ~ (Len(todo) > 1) => Elements(Tail(todo)) = {}
    <2>1. Len(todo) \in Nat
      BY <1>2, LenProperties
    <2>2. ~ (Len(todo) > 1) => Len(todo) <= 1
      BY <2>1
    <2>3. todo # << >> => Tail(todo) \in Seq(Images) /\ (Len(todo) > 1 => Tail(todo) # << >>)
      BY <1>2, ImageFacts
    <2>4. todo # << >> /\ Len(todo) <= 1 => Elements(Tail(todo)) = {}
      BY <1>2, ElementsFacts
    <2>5. QED
      BY <2>2, <2>3, <2>4
  <1>4. CASE Unpacked(t)
    <2>1. todo # << >> /\ Unpacking(r, images, snaps, Elements(Tail(todo)))
      BY <1>1, <1>4 DEF Single
    <2>2. CASE Len(todo) > 1
      <3>1. UnpackFirst(t, Tail(todo), loc[t].errs)
        BY <1>4, <2>2 DEF Unpacked
      <3>2. /\ pc'[t] = "unpack" /\ loc'[t].todo = Tail(todo)
            /\ loc'[t].chain = Head(Tail(todo)).chain /\ ~ loc'[t].err
        BY <1>1, <3>1, SingleMoves
      <3>3. Rising("unpack", loc'[t], e, snaps')
        BY DEF Rising, LayerPart
      <3>4. QED
        BY <1>1, <1>3, <2>1, <2>2, <3>2, <3>3, SingleAt DEF UnpackPart
    <2>3. CASE ~ (Len(todo) > 1)
      <3>1. Fetched(t)
        BY <1>4, <2>3 DEF Unpacked
      <3>2. Stored(r, images) /\ FirstUnpacked(r, snaps)
        BY <1>3, <2>1, <2>3 DEF Unpacking
      <3>3. QED
        BY <1>1, <3>1, <3>2, FetchedSingle
    <2>4. QED
      BY <2>2, <2>3
  <1>5. CASE Deleted(t)
    <2>1. todo # << >> /\ Deleting(r, images, snaps, Elements(Tail(todo)), loc[t].errs)
      BY <1>1, <1>5 DEF Single
    <2>2. CASE Len(todo) > 1
      <3>1. DeleteFirst(t, Tail(todo), loc[t].errs, "deleted")
        BY <1>5, <2>2 DEF Deleted
      <3>2. pc'[t] = "delete" /\ loc'[t].todo = Tail(todo) /\ loc'[t].errs = loc[t].errs
        BY <1>1, <3>1, SingleMoves
      <3>3. QED
        BY <1>1, <2>1, <3>2, SingleAt DEF DeletePart, WalkPart
    <2>3. CASE ~ (Len(todo) > 1) /\ loc[t].errs
      <3>1. DeleteFirst(t, << Head(req[t].archive) >>, TRUE, "undone")
        BY <1>5, <2>3 DEF Deleted
      <3>2. \E b \in BOOLEAN : DeleteFirst(t, << Head(req[t].archive) >>, b, "undone")
        BY <3>1
      <3>3. pc'[t] = "delete" /\ loc'[t].loop = "undone"
        BY <1>1, <3>2, SingleMoves
      <3>4. QED
        BY <3>3, SingleAt DEF DeletePart
    <2>4. CASE ~ (Len(todo) > 1) /\ ~ loc[t].errs
      <3>1. Finish(t, FALSE)
        BY <1>5, <2>4 DEF Deleted
      <3>2. Kept1(r, images, snaps)
        BY <1>3, <2>1, <2>4 DEF Deleting, Stored, Kept1
      <3>3. QED
        BY <1>1, <3>1, <3>2, PartsLead, SingleAt
    <2>5. QED
      BY <2>2, <2>3, <2>4
  <1>6. CASE Undone(t)
    BY <1>1, <1>6, SingleFails DEF Undone
  <1>7. QED
    BY <1>4, <1>5, <1>6 DEF ImportStep

\* An image of the archive is passed over, with an error.
LEMMA DeletingPasses ==
    ASSUME NEW r, NEW is, NEW s, NEW errs, NEW todo \in Seq(Images), todo # << >>,
           Deleting(r, is, s, Elements(todo), errs)
    PROVE  Deleting(r, is, s, Elements(Tail(todo)), TRUE)
  <1>1. Elements(Tail(todo)) \subseteq Elements(todo)
    BY ElementsFacts
  <1>2. QED
    BY <1>1 DEF Deleting

\* The parent of a snapshot of one of the others is one too, or none.
LEMMA LineParent ==
    ASSUME TInv, ChainsFaithful, NEW r, Others(r) \subseteq Images,
           NEW n \in DOMAIN snaps, OnLine(r, n)
    PROVE  OnLine(r, snaps[n].parent)
  <1>1. PICK y \in Others(r) : OnChain(y.chain, n)
    BY DEF OnLine
  <1>2. y.chain \in Seq(Layers)
    BY <1>1 DEF Images, Chains
  <1>3. OnChain(y.chain, snaps[n].parent)
    BY <1>1, <1>2, ChainParent
  <1>4. QED
    BY <1>1, <1>3 DEF OnLine

LEMMA PassedSingle ==
    ASSUME ThreadsFit, NEW t \in Threads, pc[t] \in DeletePart \cup WalkPart,
           req[t].op = "single", EndPart(t, TRUE), UNCHANGED req, NEW e, NEW is, NEW s,
           loc[t].loop = "deleted" =>
               Deleting(req[t], is, s, Elements(loc[t].todo), loc[t].errs)
    PROVE  Single(pc'[t], req'[t], loc'[t], e, is, s)
  <1> DEFINE todo == loc[t].todo
  <1>1. pc[t] # "idle" /\ pc[t] \in WalkPart \cup DeletePart
    BY DEF DeletePart, WalkPart
  <1>2. todo # << >> /\ todo \in Seq(Images) /\ loc[t].loop \in {"deleted", "undone"}
    BY <1>1, Busy DEF Follows, Works, Locals
  <1>3. \E b \in BOOLEAN : b /\ EndPart(t, b)
    OBVIOUS
  <1>4. pc'[t] = loc[t].loop /\ loc'[t].todo = todo /\ loc'[t].errs
    BY <1>1, <1>2, <1>3, SingleMoves
  <1>5. CASE loc[t].loop = "undone"
    BY <1>4, <1>5, SingleAt
  <1>6. CASE loc[t].loop = "deleted"
    <2>1. Deleting(req[t], is, s, Elements(Tail(todo)), loc'[t].errs)
      BY <1>2, <1>4, <1>6, DeletingPasses DEF Deleting
    <2>2. QED
      BY <1>2, <1>4, <1>6, <2>1, SingleAt
  <1>7. QED
    BY <1>2, <1>5, <1>6

\* A walk that removes one of the others keeps off the first image: none of the
\* others is built on it.
LEMMA WalkSingle ==
    ASSUME SinglesKept, TInv, ChainsFaithful, NEW t \in Threads, RemovalStep(t),
           req[t].op = "single", Single(pc[t], req[t], loc[t], Extract(t), images, snaps),
           NEW e
    PROVE  Single(pc'[t], req'[t], loc'[t], e, images', snaps')
  <1> DEFINE r == req[t]
             todo == loc[t].todo
             errs == loc[t].errs
             cur == loc[t].cur
             undone == loc[t].loop # "deleted"
  <1>1. /\ ThreadsFit /\ pc[t] \in WalkPart /\ pc[t] # "idle" /\ UNCHANGED <<req, images>>
        /\ StatLink(t) => UNCHANGED snaps
        /\ RemoveLink(t) => pc[t] = "walk_remove"
    BY DEF RemovalStep, StatLink, RemoveLink, At, WalkPart, store, TInv
  <1>2. /\ r \in Requests[t] /\ todo # << >> /\ todo \in Seq(Images)
        /\ loc[t].loop \in {"deleted", "undone"} /\ loc[t].next = "delete_image"
        /\ loc[t] \in Locals /\ loc = [u \in Threads |-> loc[u]]
    BY <1>1, Busy DEF Follows, Works, Locals, ThreadsFit
  <1>3. /\ Others(r) \subseteq Images
        /\ r.unpack => ~ OnLine(r, Chain(First(r).chain))
    BY <1>2, ArchiveFacts
  <1>4. ~ undone => /\ Deleting(r, images, snaps, Elements(todo), errs)
                    /\ OnLine(r, cur)
                    /\ pc[t] = "walk_remove" => OnLine(r, loc[t].par)
    BY <1>1 DEF Single
  <1>5. ~ undone /\ FirstUnpacked(r, snaps) => FirstUnpacked(r, snaps')
    <2>1. CASE StatLink(t)
      BY <1>1, <2>1
    <2>2. CASE RemoveLink(t)
      <3>1. UNCHANGED snaps \/ snaps' = Removed(snaps, cur)
        BY <2>2 DEF RemoveLink, RemoveSnapshot
      <3>2. ~ undone /\ r.unpack => cur # Chain(First(r).chain)
        BY <1>3, <1>4
      <3>3. QED
        BY <3>1, <3>2 DEF FirstUnpacked, Removed, Restrict
    <2>3. QED
      BY <2>1, <2>2 DEF RemovalStep
  <1>6. ~ undone => Deleting(r, images', snaps', Elements(todo), errs)
    BY <1>1, <1>4, <1>5 DEF Deleting
  <1> DEFINE goal == Single(pc'[t], req'[t], loc'[t], e, images', snaps')
  <1>7. ASSUME pc'[t] \in {"walk", "walk_remove", "delete_image"},
               loc'[t].todo = todo, loc'[t].errs = errs, loc'[t].loop = loc[t].loop,
               ~ undone => /\ pc'[t] # "delete_image" => OnLine(r, loc'[t].cur)
                           /\ pc'[t] = "walk_remove" => OnLine(r, loc'[t].par)
        PROVE  goal
    <2>1. pc'[t] \in DeletePart \cup WalkPart /\ pc'[t] # "delete_check"
      BY <1>7 DEF DeletePart, WalkPart
    <2>2. CASE undone
      BY <1>7, <2>1, <2>2, SingleAt
    <2>3. CASE ~ undone
      <3>1. pc'[t] \in WalkPart => pc'[t] # "delete_image"
        BY DEF WalkPart
      <3>2. QED
        BY <1>1, <1>6, <1>7, <2>1, <2>3, <3>1, SingleAt
    <2>4. QED
      BY <2>2, <2>3
  <1>8. Continue(t) => goal
    BY <1>1, <1>2, <1>7, Continued
  <1>9. EndPart(t, TRUE) => goal
    BY <1>1, <1>6, PassedSingle
  <1> HIDE DEF goal
  <1>10. CASE StatLink(t)
    <2>1. CASE /\ cur \in DOMAIN snaps /\ Goto(t, "walk_remove")
               /\ loc' = [loc EXCEPT ![t].par = snaps[cur].parent]
      <3>1. /\ pc'[t] = "walk_remove" /\ loc'[t].par = snaps[cur].parent
            /\ loc'[t].cur = cur /\ loc'[t].todo = todo
            /\ loc'[t].errs = errs /\ loc'[t].loop = loc[t].loop
        BY <1>1, <1>2, <2>1, PartsLead DEF Locals
      <3>2. ~ undone => OnLine(r, snaps[cur].parent)
        BY <1>3, <1>4, <2>1, LineParent
      <3>3. goal
        BY <1>4, <1>7, <3>1, <3>2
      <3>4. QED
        BY <3>3 DEF goal
    <2>2. CASE Continue(t)
      BY <1>8, <2>2 DEF goal
    <2>3. QED
      BY <1>10, <2>1, <2>2 DEF StatLink
  <1>11. CASE RemoveLink(t)
    <2>1. CASE Climb(t)
      <3>1. CASE Continue(t)
        BY <1>8, <3>1 DEF goal
      <3>2. CASE ~ Continue(t)
        <4>1. pc'[t] = "walk" /\ loc' = [loc EXCEPT ![t] =
                      [@ EXCEPT !.cur = loc[t].par,
                                !.depth = IF loc[t].depth > 0 THEN loc[t].depth - 1
                                          ELSE loc[t].depth]]
          BY <1>1, <2>1, <3>2, PartsLead DEF Climb
        <4>2. /\ loc'[t].cur = loc[t].par /\ loc'[t].todo = todo
              /\ loc'[t].errs = errs /\ loc'[t].loop = loc[t].loop
          BY <1>2, <4>1 DEF Locals
        <4>3. goal
          BY <1>1, <1>4, <1>7, <1>11, <4>1, <4>2
        <4>4. QED
          BY <4>3 DEF goal
      <3>3. QED
        BY <3>1, <3>2
    <2>2. CASE Continue(t) \/ EndPart(t, TRUE)
      BY <1>8, <1>9, <2>2 DEF goal
    <2>3. QED
      BY <1>11, <2>1, <2>2 DEF RemoveLink
  <1>12. QED
    BY <1>10, <1>11 DEF RemovalStep

LEMMA DeleteSingle ==
    ASSUME SinglesKept, ThreadsFit, NEW t \in Threads,
           DeleteGet(t) \/ DeleteCheck(t) \/ DeleteImage(t),
           req[t].op = "single", Single(pc[t], req[t], loc[t], Extract(t), images, snaps),
           NEW e
    PROVE  Single(pc'[t], req'[t], loc'[t], e, images', snaps')
  <1> DEFINE r == req[t]
             todo == loc[t].todo
             errs == loc[t].errs
             undone == loc[t].loop # "deleted"
  <1>1. /\ pc[t] \in DeletePart /\ pc[t] \notin WalkPart /\ pc[t] # "idle"
        /\ UNCHANGED <<req, snaps>>
        /\ DeleteGet(t) \/ DeleteCheck(t) => UNCHANGED images
    BY DEF DeleteGet, DeleteCheck, DeleteImage, At, DeletePart, WalkPart, store
  <1>2. /\ r \in Requests[t] /\ todo # << >> /\ todo \in Seq(Images)
        /\ loc[t].loop \in {"deleted", "undone"} /\ Image(t) = Head(todo)
        /\ loc[t] \in Locals /\ loc = [u \in Threads |-> loc[u]]
    BY <1>1, Busy DEF Follows, Works, Locals, ThreadsFit, Image
  <1>3. /\ Others(r) \subseteq Images
        /\ \A y \in Others(r) : y.ref # First(r).ref
    BY <1>2, ArchiveFacts
  <1>4. ~ undone => /\ Deleting(r, images, snaps, Elements(todo), errs)
                    /\ pc[t] = "delete_check" => \E y \in Others(r) : loc[t].chain = y.chain
    BY <1>1 DEF Single
  <1>5. ~ undone => Head(todo) \in Others(r)
    BY <1>2, <1>4, ElementsFacts DEF Deleting
  <1> DEFINE goal == Single(pc'[t], req'[t], loc'[t], e, images', snaps')
  <1>6. ASSUME UNCHANGED images, pc'[t] \in {"delete_check", "walk", "delete_image"},
               loc'[t].todo = todo, loc'[t].errs = errs, loc'[t].loop = loc[t].loop,
               ~ undone =>
                   /\ pc'[t] = "delete_check" => \E y \in Others(r) : loc'[t].chain = y.chain
                   /\ pc'[t] = "walk" => OnLine(r, loc'[t].cur)
        PROVE  goal
    <2>1. /\ pc'[t] \in DeletePart \cup WalkPart /\ pc'[t] # "walk_remove"
          /\ pc'[t] \in WalkPart => pc'[t] = "walk"
      BY <1>6 DEF DeletePart, WalkPart
    <2>2. CASE undone
      BY <1>6, <2>1, <2>2, SingleAt
    <2>3. CASE ~ undone
      BY <1>1, <1>4, <1>6, <2>1, <2>3, SingleAt
    <2>4. QED
      BY <2>2, <2>3
  <1>7. EndPart(t, TRUE) /\ UNCHANGED images => goal
    BY <1>1, <1>4, PassedSingle
  <1> HIDE DEF goal
  <1>8. CASE DeleteGet(t)
    <2>1. CASE /\ Image(t).ref \in DOMAIN images /\ Goto(t, "delete_check")
               /\ loc' = [loc EXCEPT ![t].chain = images[Image(t).ref]]
      <3>1. /\ pc'[t] = "delete_check" /\ loc'[t].chain = images[Head(todo).ref]
            /\ loc'[t].todo = todo /\ loc'[t].errs = errs /\ loc'[t].loop = loc[t].loop
        BY <1>2, <2>1, PartsLead DEF Locals
      <3>2. ~ undone => \E y \in Others(r) : images[Head(todo).ref] = y.chain
        BY <1>2, <1>4, <1>5, <2>1 DEF Deleting, Stored, OtherStored
      <3>3. goal
        BY <1>1, <1>6, <1>8, <3>1, <3>2
      <3>4. QED
        BY <3>3 DEF goal
    <2>2. CASE EndPart(t, TRUE)
      BY <1>1, <1>7, <1>8, <2>2 DEF goal
    <2>3. QED
      BY <1>8, <2>1, <2>2 DEF DeleteGet
  <1>9. CASE DeleteCheck(t)
    <2>1. CASE /\ Goto(t, "walk")
               /\ loc' = [loc EXCEPT ![t] = [@ EXCEPT !.cur = Chain(loc[t].chain),
                                                      !.depth = -1,
                                                      !.next = "delete_image"]]
      <3>1. /\ pc'[t] = "walk" /\ loc'[t].cur = Chain(loc[t].chain)
            /\ loc'[t].todo = todo /\ loc'[t].errs = errs /\ loc'[t].loop = loc[t].loop
        BY <1>2, <2>1, PartsLead DEF Locals
      <3>2. ~ undone => OnLine(r, Chain(loc[t].chain))
        <4> SUFFICES ASSUME ~ undone
                     PROVE  OnLine(r, Chain(loc[t].chain))
          OBVIOUS
        <4>1. pc[t] = "delete_check"
          BY <1>9 DEF DeleteCheck, At
        <4>2. PICK y \in Others(r) : loc[t].chain = y.chain
          BY <1>4, <4>1
        <4>3. y.chain \in Seq(Layers)
          BY <1>3, <4>2 DEF Images, Chains
        <4>4. QED
          BY <4>2, <4>3, ChainTop DEF OnLine
      <3>3. goal
        BY <1>1, <1>6, <1>9, <3>1, <3>2
      <3>4. QED
        BY <3>3 DEF goal
    <2>2. CASE Goto(t, "delete_image") /\ UNCHANGED loc
      <3>1. pc'[t] = "delete_image"
        BY <2>2, PartsLead
      <3>2. goal
        BY <1>1, <1>6, <1>9, <2>2, <3>1
      <3>3. QED
        BY <3>2 DEF goal
    <2>3. CASE EndPart(t, TRUE) /\ UNCHANGED images
      BY <1>7, <2>3 DEF goal
    <2>4. QED
      BY <1>9, <2>1, <2>2, <2>3 DEF DeleteCheck, store
  <1>10. CASE DeleteImage(t)
    <2>1. CASE /\ images' = Restrict(images, DOMAIN images \ {Image(t).ref})
               /\ EndPart(t, FALSE)
      <3>1. \E b \in BOOLEAN : ~ b /\ EndPart(t, b)
        BY <2>1
      <3>2. pc'[t] = loc[t].loop /\ loc'[t].todo = todo /\ (loc'[t].errs <=> errs)
        BY <1>1, <1>2, <3>1, SingleMoves
      <3>3. CASE undone
        BY <1>2, <3>2, <3>3, SingleAt
      <3>4. CASE ~ undone
        <4>1. Deleting(r, images', snaps, Elements(Tail(todo)), errs)
          BY <1>2, <1>3, <1>4, <2>1, <3>4, DeletingGoesOn
        <4>2. Deleting(r, images', snaps', Elements(Tail(todo)), loc'[t].errs)
          BY <1>1, <3>2, <4>1 DEF Deleting
        <4>3. QED
          BY <1>1, <1>2, <3>2, <3>4, <4>2, SingleAt
      <3>5. QED
        BY <3>3, <3>4
    <2>2. CASE EndPart(t, TRUE) /\ UNCHANGED images
      BY <1>7, <2>2 DEF goal
    <2>3. QED
      BY <1>10, <2>1, <2>2 DEF DeleteImage
  <1>11. QED
    BY <1>8, <1>9, <1>10

\* A call of SingleImportFile at each of its steps.
LEMMA OwnSingle ==
    ASSUME SinglesKept, TInv, TempsInv, ContentInv, ChainsFaithful, NEW t \in Threads, Extracted(t),
           Begin(t) \/ Step(t), Single(pc[t], req[t], loc[t], Extract(t), images, snaps)
    PROVE  Single(pc'[t], req'[t], loc'[t], Extract(t), images', snaps')
  <1>1. ThreadsFit
    BY DEF TInv
  <1>2. CASE FetchStart(t)
    <2>1. PICK r \in Requests[t] :
              /\ Start(t, r, "fetch")
              /\ loc' = [loc EXCEPT ![t].todo = r.archive]
      BY <1>2 DEF FetchStart
    <2>2. loc[t] \in Locals
      BY <1>1 DEF ThreadsFit, Fits
    <2>3. pc'[t] = "fetch" /\ req'[t] = r /\ loc'[t].todo = r.archive
      BY <1>1, <2>1, <2>2, PartsLead DEF Start, Locals, ThreadsFit
    <2>4. QED
      BY <2>3, SingleAt DEF FetchPart
  <1>3. CASE Begin(t) /\ ~ FetchStart(t)
    <2>1. req'[t].op # "single"
      BY <1>1, <1>3
         DEF Begin, MountStart, UmountStart, CommitStart, RecordStart, UnpackStart, DeleteStart,
             LabelStart, LookStart, Start, ThreadsFit
    <2>2. QED
      BY <2>1 DEF Single
  <1>4. CASE Return(t)
    BY <1>1, <1>4, PartsLead, SingleAt DEF Return
  <1>5. CASE Step(t) /\ ~ Return(t)
    <2>1. UNCHANGED req /\ pc[t] # "idle"
      BY <1>5, StepCalls
    <2>2. CASE req[t].op # "single"
      BY <2>1, <2>2 DEF Single
    <2>3. CASE req[t].op = "single"
      <3>1. Reaches(pc[t], "single")
        BY <1>1, <2>1, <2>3, Busy
      <3>2. pc[t] \notin MountPart \cup DiffPart \cup CommitPart \cup
                         {"umount_lease", "umount_unlease", "label_stat", "label_write", "look"}
        BY <3>1 DEF Reaches
      <3>3. ~ MountStep(t)
        <4>1. pc[t] \notin MountPart \cup {"umount_lease", "umount_unlease"}
          BY <3>2
        <4>2. MountStep(t) => pc[t] \in MountPart \cup {"umount_lease", "umount_unlease"}
          BY DEF MountStep, MountLease, MountCreate, MountExisting, MountAll, MountUndo,
                 MountFailed, UmountLease, UmountUnlease, MountPart, At
        <4>3. QED
          BY <4>1, <4>2
      <3>4. ~ LabelStep(t)
        <4>1. pc[t] \notin {"label_stat", "label_write", "look"}
          BY <3>2
        <4>2. QED
          BY <4>1 DEF LabelStep, LabelStat, LabelWrite, Look, At
      <3>5. ~ CommitStep(t)
        <4>1. pc[t] \notin DiffPart \cup CommitPart
          BY <3>2
        <4>2. ASSUME CommitStep(t)
              PROVE  pc[t] \in DiffPart \cup CommitPart
          <5>1. CASE CommitStat(t) \/ CommitBase(t) \/ DiffStat(t) \/ DiffLower(t) \/ DiffMounts(t)
                     \/ DiffView(t) \/ Compare(t) \/ CleanUpper(t) \/ CleanLower(t)
            BY <5>1 DEF CommitStat, CommitBase, DiffStat, DiffLower, DiffMounts, DiffView, Compare,
                        CleanUpper, CleanLower, DiffPart, At
          <5>2. CASE CommitMounts(t) \/ CommitApply(t) \/ CommitActive(t) \/ CommitManifest(t)
                     \/ CommitConfig(t)
            BY <5>2 DEF CommitMounts, CommitApply, CommitActive, CommitManifest, CommitConfig,
                        WriteBlob, CommitPart, At
          <5>3. QED
            BY <4>2, <5>1, <5>2 DEF CommitStep
        <4>3. QED
          BY <4>1, <4>2
      <3>6. CASE ImageStep(t)
        BY <1>1, <2>3, <3>6, FetchSingle, StoreSingle, DeleteSingle DEF ImageStep
      <3>7. CASE UnpackStep(t)
        BY <2>3, <3>7, UnpackSingle
      <3>8. CASE RemovalStep(t)
        BY <2>3, <3>8, WalkSingle
      <3>9. CASE ImportStep(t)
        BY <1>1, <2>3, <3>9, LoopSingle
      <3>10. QED
        BY <1>5, <3>3, <3>4, <3>5, <3>6, <3>7, <3>8, <3>9 DEF Step
    <2>4. QED
      BY <2>2, <2>3
  <1>6. QED
    BY <1>2, <1>3, <1>4, <1>5

\* The steps of the others leave the images and the chains of the archive, and
\* the extraction snapshot.
LEMMA OthersSingle ==
    ASSUME NEW content, Settled(content), SoleCommits, SinglesKept,
           TInv, ChainsFaithful, SparedInv, SinglesInv,
           NEW u \in Threads, Begin(u) \/ Step(u), NEW t \in Threads \ {u}
    PROVE  Single(pc'[t], req'[t], loc'[t], Extract(t)', images', snaps')
  <1>1. ThreadsFit /\ pc'[t] = pc[t] /\ req'[t] = req[t] /\ loc'[t] = loc[t]
    BY StepApart DEF Apart, TInv
  <1> SUFFICES ASSUME pc[t] # "idle", req[t].op = "single"
               PROVE  Single(pc[t], req[t], loc[t], Extract(t)', images', snaps')
    BY <1>1 DEF Single
  <1> DEFINE r == req[t]
  <1>2. r \in Requests[t]
    BY <1>1, Busy
  <1>3. /\ First(r) \in Elements(r.archive) /\ Others(r) \subseteq Elements(r.archive)
        /\ \A y \in Elements(r.archive) : LeavesBe(u, y.ref)
    BY <1>2, ArchiveFacts DEF SinglesKept
  <1>4. \A y \in Elements(r.archive) :
            /\ y.ref \in DOMAIN images <=> y.ref \in DOMAIN images'
            /\ y.ref \in DOMAIN images => images'[y.ref] = images[y.ref]
    BY <1>3, SparesImage
  <1>5. \A n \in DOMAIN snaps : n[1] = "chain" => n \in DOMAIN snaps'
    BY <1>3, SparesChain
  <1>6. \A c : Chain(c)[1] = "chain"
    BY DEF Chain
  <1>7. Extract(t)' = Extract(t)
    <2>1. Temp("extract", t)' = Temp("extract", t)
      BY NamesStay DEF TInv, TempKinds
    <2>2. QED
      BY <2>1 DEF Extract
  <1>8. Extract(t) \in DOMAIN snaps => Extract(t) \in DOMAIN snaps'
    <2> SUFFICES ASSUME Extract(t) \in DOMAIN snaps, Extract(t) \notin DOMAIN snaps'
                 PROVE  FALSE
      OBVIOUS
    <2> DEFINE n == Extract(t)
    <2>1. Taken(u, n)
      BY StepChanges DEF Changed
    <2>2. n \notin {Extract(u), Lower(u), Upper(u)} /\ n \notin ChosenNames /\ n[1] = "extract"
      BY DEF Extract, Lower, Upper, Temp, ChosenNames
    <2> HIDE DEF n
    <2>3. ~ RemoveLink(u)
      <3> SUFFICES ASSUME RemoveLink(u)
                   PROVE  FALSE
        OBVIOUS
      <3>1. pc[u] # "idle" /\ pc[u] \in WalkPart
        BY DEF RemoveLink, At, WalkPart
      <3>2. req[u].op \in {"umount", "delete", "single"} /\ req[u] \in Requests[u]
        BY <1>1, <3>1, Busy DEF Reaches
      <3>3. QED
        BY <1>3, <3>2 DEF LeavesBe
    <2>4. ~ (MountUndo(u) /\ n = req[u].name)
      <3> SUFFICES ASSUME MountUndo(u), n = req[u].name
                   PROVE  FALSE
        OBVIOUS
      <3>1. pc[u] # "idle" /\ pc[u] \in MountPart
        BY DEF MountUndo, At, MountPart
      <3>2. req[u].op = "mount" /\ req[u] \in Requests[u]
        BY <1>1, <3>1, Busy DEF Reaches
      <3>3. req[u].name \in {"key"} \X Keys
        BY <3>2 DEF Settled
      <3>4. QED
        BY <2>2, <3>3 DEF ChosenNames
    <2>5. ~ (CommitActive(u) /\ n = req[u].name)
      <3> SUFFICES ASSUME CommitActive(u), n = req[u].name
                   PROVE  FALSE
        OBVIOUS
      <3>1. pc[u] # "idle" /\ pc[u] \in CommitPart
        BY DEF CommitActive, At, CommitPart
      <3>2. req[u].op = "commit" /\ req[u] \in Requests[u]
        BY <1>1, <3>1, Busy DEF Reaches
      <3>3. req[u].name \in ChosenNames
        BY <3>2 DEF SoleCommits
      <3>4. QED
        BY <2>2, <3>3
    <2>6. QED
      BY <2>1, <2>2, <2>3, <2>4, <2>5 DEF Taken
  <1>9. FirstUnpacked(r, snaps) => FirstUnpacked(r, snaps')
    BY <1>5, <1>6 DEF FirstUnpacked
  <1>10. Rising(pc[t], loc[t], Extract(t), snaps) =>
             Rising(pc[t], loc[t], Extract(t)', snaps')
    BY <1>5, <1>6, <1>7, <1>8 DEF Rising
  <1>11. Single(pc[t], r, loc[t], Extract(t), images, snaps)
    BY DEF SinglesInv
  <1>12. QED
    BY <1>3, <1>4, <1>9, <1>10, <1>11, SingleKept

LEMMA SinglesStep ==
    ASSUME NEW content, Settled(content), SoleCommits, SinglesKept,
           TInv, TempsInv, ContentInv, SettledInv(content), SparedInv, SinglesInv,
           [Next]_vars
    PROVE  SinglesInv'
  <1>1. ChainsFaithful /\ ThreadsFit /\ \A t \in Threads : Extracted(t)
    BY DEF SettledInv, TInv
  <1> SUFFICES ASSUME NEW t \in Threads
               PROVE  Single(pc'[t], req'[t], loc'[t], Extract(t)', images', snaps')
    BY DEF SinglesInv
  <1>2. Single(pc[t], req[t], loc[t], Extract(t), images, snaps)
    BY DEF SinglesInv
  <1>3. CASE \E u \in Threads : Begin(u) \/ Step(u)
    <2>1. PICK u \in Threads : Begin(u) \/ Step(u)
      BY <1>3
    <2>2. CASE t = u
      <3>1. Single(pc'[t], req'[t], loc'[t], Extract(t), images', snaps')
        BY <1>1, <1>2, <2>1, <2>2, OwnSingle
      <3>2. ~ Faults => Extract(t)' = Extract(t)
        BY <2>1, FaultlessNames
      <3>3. QED
        BY <3>1, <3>2 DEF Single
    <2>3. CASE t # u
      BY <1>1, <2>1, <2>3, OthersSingle
    <2>4. QED
      BY <2>2, <2>3
  <1>4. CASE UserWrite \/ UNCHANGED vars
    <2>1. UNCHANGED <<pc, req, loc, images, serial>> /\ DOMAIN snaps' = DOMAIN snaps
      BY <1>4, QuietFacts
    <2>2. Extract(t)' = Extract(t)
      BY <2>1 DEF Extract, Temp
    <2>3. pc[t] # "idle" /\ req[t].op = "single" =>
              /\ First(req[t]) \in Elements(req[t].archive)
              /\ Others(req[t]) \subseteq Elements(req[t].archive)
      BY <1>1, Busy, ArchiveFacts
    <2>4. /\ FirstUnpacked(req[t], snaps) => FirstUnpacked(req[t], snaps')
          /\ Rising(pc[t], loc[t], Extract(t), snaps) =>
                 Rising(pc[t], loc[t], Extract(t), snaps')
      BY <2>1 DEF FirstUnpacked, Rising
    <2>5. Single(pc[t], req[t], loc[t], Extract(t), images', snaps')
      BY <1>2, <2>1, <2>3, <2>4, SingleKept
    <2>6. QED
      BY <2>1, <2>2, <2>5
  <1>5. CASE Kill \/ Reboot \/ \E u \in Threads : MountPanic(u)
    <2>1. pc'[t] = "idle"
      BY <1>5 DEF Kill, Reboot, MountPanic, ProcessEnds
    <2>2. QED
      BY <2>1, SingleAt
  <1>6. QED
    BY <1>3, <1>4, <1>5 DEF Next

LEMMA SinglesInvariant ==
    ASSUME NEW content, Settled(content), SoleCommits, ~ LiveWrites, SinglesKept
    PROVE  Spec => [](TInv /\ SinglesInv)
  <1>1. Init => TempsInv /\ SparedInv /\ SinglesInv
    BY SparedInit DEF Init, TempsInv, TempsHeld, Temporary, SinglesInv, Single
  <1>2. /\ TInv /\ TempsInv /\ ContentInv /\ SettledInv(content)
        /\ SparedInv /\ SinglesInv /\ [Next]_vars
        => TempsInv' /\ SparedInv' /\ SinglesInv'
    BY SinglesStep, SparedStep, TempsStep
  <1>3. QED
    BY <1>1, <1>2, SettledInvariant, ContentInvariant, PTL DEF Spec

\* Where, besides what StoreChainsFaithful supposes, the images of an archive
\* have other names than its first one, none is built on it if that is to be
\* unpacked, and no other call stores under their names or removes images or
\* snapshots: a SingleImportFile that returns without error leaves the first
\* image stored, and unpacked if that was asked for, and none of the others.
THEOREM StoreSingleImportKeeps ==
    ASSUME NEW content, Settled(content), SoleCommits, ~ LiveWrites, SinglesKept
    PROVE  Spec => []SingleImportKeeps
  <1>1. ASSUME TInv, SinglesInv
        PROVE  SingleImportKeeps
    <2> SUFFICES ASSUME NEW t \in Threads, Succeeded(t, "single")
                 PROVE  LET archive == req[t].archive
                        IN  /\ archive[1].ref \in DOMAIN images
                            /\ images[archive[1].ref] = archive[1].chain
                            /\ \A i \in 2..Len(archive) : archive[i].ref \notin DOMAIN images
                            /\ req[t].unpack /\ ~ Faults => Chain(archive[1].chain) \in DOMAIN snaps
      BY DEF SingleImportKeeps
    <2>1. pc[t] = "return" /\ pc[t] # "idle" /\ req[t].op = "single" /\ ~ loc[t].err
      BY DEF Succeeded, At
    <2>2. Kept1(req[t], images, snaps)
      BY <1>1, <2>1 DEF SinglesInv, Single
    <2>3. QED
      BY <2>2 DEF Kept1, FirstStored, FirstUnpacked, First, Others
  <1>2. QED
    BY <1>1, SinglesInvariant, PTL

-----------------------------------------------------------------------------
(* The lease of a mounted snapshot.                                         *)

\* A key is mounted and unmounted by one thread.
PrivateKeys ==
    \A t \in Threads : \A r \in Requests[t] :
        r.op = "mount" =>
            /\ r.name \in {"key"} \X Keys
            /\ \A u \in Threads \ {t} : \A s \in Requests[u] :
                  s.op \in {"mount", "umount"} => s.name # r.name

\* A call of Mount has its lease from its first step to its last.
Leased(p, r, ls) == p \notin {"idle", "mount_lease"} /\ r.op = "mount" => r.name \in ls

LeasesInv == \A t \in Threads : Leased(pc[t], req[t], leases)

LEMMA OwnLeased ==
    ASSUME ThreadsFit, NEW t \in Threads, Begin(t) \/ Step(t), Leased(pc[t], req[t], leases)
    PROVE  Leased(pc'[t], req'[t], leases')
  <1>1. CASE MountStart(t)
    BY <1>1, PartsLead DEF MountStart, Start, Leased
  <1>2. CASE Begin(t) /\ ~ MountStart(t)
    <2>1. req'[t].op # "mount"
      BY <1>2 DEF Begin, UmountStart, CommitStart, FetchStart, RecordStart, UnpackStart, DeleteStart,
                  LabelStart, LookStart, Start, ThreadsFit
    <2>2. QED
      BY <2>1 DEF Leased
  <1>3. CASE Return(t)
    BY <1>3, PartsLead DEF Return, Leased
  <1>4. CASE Step(t) /\ ~ Return(t)
    <2>1. UNCHANGED req /\ pc[t] # "idle"
      BY <1>4, StepCalls
    <2> SUFFICES ASSUME req[t].op = "mount"
                 PROVE  req[t].name \in leases'
      BY <2>1 DEF Leased
    <2>2. Reaches(pc[t], "mount") /\ (pc[t] # "mount_lease" => req[t].name \in leases)
      BY <2>1, Busy DEF Leased
    <2>3. CASE MountStep(t)
      <3>1. ~ UmountUnlease(t)
        BY <2>2 DEF UmountUnlease, At, Reaches
      <3>2. QED
        BY <2>2, <2>3, <3>1
           DEF MountStep, MountLease, MountCreate, MountExisting, MountAll, MountUndo, MountFailed,
               UmountLease, TakeLease, store, At
    <2>4. CASE UnpackStep(t) \/ RemovalStep(t)
      BY <2>2, <2>4
         DEF UnpackStep, CheckUnpacked, PrepareLayer, ApplyLayer, CommitLayer, AbortLayer,
             RemovalStep, StatLink, RemoveLink, store, At
    <2>5. CASE CommitStep(t)
      BY <2>2, <2>5
         DEF CommitStep, CommitStat, CommitBase, DiffStat, DiffLower, DiffMounts, DiffView, Compare,
             CleanUpper, CleanLower, CommitMounts, CommitApply, CommitActive, CommitManifest,
             CommitConfig, WriteBlob, store, At
    <2>6. CASE ImageStep(t) \/ ImportStep(t) \/ LabelStep(t)
      BY <2>2, <2>6
         DEF ImageStep, FetchManifest, FetchChildren, PutUpdate, PutCreate, DeleteGet, DeleteCheck,
             DeleteImage, ImportStep, Unpacked, Deleted, Undone, LabelStep, LabelStat, LabelWrite,
             Look, store, At
    <2>7. QED
      BY <1>4, <2>3, <2>4, <2>5, <2>6 DEF Step
  <1>5. QED
    BY <1>1, <1>2, <1>3, <1>4

LEMMA LeasesStep ==
    ASSUME PrivateKeys, TInv, LeasesInv, [Next]_vars
    PROVE  LeasesInv'
  <1>1. ThreadsFit
    BY DEF TInv
  <1> SUFFICES ASSUME NEW t \in Threads
               PROVE  Leased(pc'[t], req'[t], leases')
    BY DEF LeasesInv
  <1>2. Leased(pc[t], req[t], leases)
    BY DEF LeasesInv
  <1>3. CASE \E u \in Threads : Begin(u) \/ Step(u)
    <2>1. PICK u \in Threads : Begin(u) \/ Step(u)
      BY <1>3
    <2>2. CASE t = u
      BY <1>1, <1>2, <2>1, <2>2, OwnLeased
    <2>3. CASE t # u
      <3>1. pc'[t] = pc[t] /\ req'[t] = req[t]
        BY <1>1, <2>1, <2>3, StepApart DEF Apart
      <3> SUFFICES ASSUME pc[t] \notin {"idle", "mount_lease"}, req[t].op = "mount"
                   PROVE  req[t].name \in leases'
        BY <3>1 DEF Leased
      <3> DEFINE n == req[t].name
      <3>2. n \in leases /\ req[t] \in Requests[t]
        BY <1>1, <1>2, Busy DEF Leased
      <3>3. /\ n \in {"key"} \X Keys
            /\ \A s \in Requests[u] : s.op \in {"mount", "umount"} => s.name # n
        BY <2>3, <3>2 DEF PrivateKeys
      <3>4. n[1] = "key"
        BY <3>3
      <3> HIDE DEF n
      <3>5. n \in leases'
        BY <1>1, <2>1, <3>2, <3>3, <3>4, StepLeases
      <3>6. QED
        BY <3>5 DEF n
    <2>4. QED
      BY <2>2, <2>3
  <1>4. CASE UserWrite \/ UNCHANGED vars
    <2>1. UNCHANGED <<pc, req, leases>>
      BY <1>4 DEF UserWrite, thread, vars
    <2>2. QED
      BY <1>2, <2>1
  <1>5. CASE Kill \/ Reboot \/ \E u \in Threads : MountPanic(u)
    BY <1>5 DEF Kill, Reboot, MountPanic, ProcessEnds, Leased
  <1>6. QED
    BY <1>3, <1>4, <1>5 DEF Next

\* The claim of lease.go, where no two threads mount or unmount one key: a
\* Mount that returns without error has its lease, whatever the other calls do
\* with targets and snapshots.  With one key for two threads it fails, as the
\* run lease_owner shows: the lease is its first owner's to delete.
THEOREM StoreMountLeased ==
    ASSUME PrivateKeys
    PROVE  Spec => []MountLeased
  <1>1. Init => LeasesInv
    BY DEF Init, LeasesInv, Leased
  <1>2. TInv /\ LeasesInv /\ [Next]_vars => LeasesInv'
    BY LeasesStep
  <1>3. LeasesInv => MountLeased
    BY DEF LeasesInv, Leased, MountLeased, Succeeded, At
  <1>4. QED
    BY <1>1, <1>2, <1>3, TypesInvariant, PTL DEF Spec

-----------------------------------------------------------------------------
(* What a deletion takes away.                                              *)

\* Each name that is stored is one of content, and no other image of it lies on
\* the way from one that is deleted down to its first layer.  Umount removes no
\* more than the snapshot of its key, and nobody commits or deletes the others
\* of an archive.
DeletesOwn(content) ==
    \A t \in Threads :
        /\ \A q : q \notin DOMAIN content => StoresNone(t, q)
        /\ \A r \in Requests[t] :
              /\ r.op \notin {"commit", "single"}
              /\ r.op = "umount" => r.name \in {"key"} \X Keys /\ r.rm \in {0, 1}
              /\ r.op = "delete" /\ r.ref \in DOMAIN content =>
                    \A q \in DOMAIN content \ {r.ref} :
                        ~ OnChain(content[r.ref], Chain(content[q]))

\* A call r at p that removes snapshots is at one that is its to remove.
Takes(content, p, r, l) ==
    /\ p # "idle" /\ r.op = "umount" =>
          /\ p \in {"umount_lease", "umount_unlease"} => r.rm = 1
          /\ p \in WalkPart => l.cur = r.name /\ l.depth = 0
    /\ p \in WalkPart \cup {"delete_check"} /\ r.op = "delete" =>
          /\ r.ref \in DOMAIN content /\ content[r.ref] \in Seq(Layers)
          /\ p = "delete_check" => l.chain = content[r.ref]
          /\ p \in WalkPart => OnChain(content[r.ref], l.cur)
          /\ p = "walk_remove" => OnChain(content[r.ref], l.par)

TakesInv(content) ==
    /\ DOMAIN images \subseteq DOMAIN content
    /\ \A t \in Threads : Takes(content, pc[t], req[t], loc[t])

LEMMA TakesNone ==
    ASSUME NEW content, NEW p, NEW r, NEW l,
           p \notin WalkPart \cup {"delete_check", "umount_lease", "umount_unlease"}
    PROVE  Takes(content, p, r, l)
  BY DEF Takes

\* Each step of a walk goes on to the parent, or ends it.
LEMMA WalkMoves ==
    ASSUME ThreadsFit, NEW t \in Threads, RemovalStep(t), req[t].op \in {"umount", "delete"}
    PROVE  \/ pc'[t] \in {"return", "delete_image"}
           \/ /\ pc[t] = "walk" /\ pc'[t] = "walk_remove"
              /\ loc[t].cur \in DOMAIN snaps
              /\ loc'[t].par = snaps[loc[t].cur].parent
              /\ loc'[t].cur = loc[t].cur /\ loc'[t].depth = loc[t].depth
           \/ /\ pc[t] = "walk_remove" /\ pc'[t] = "walk"
              /\ loc[t].depth # 0 /\ loc'[t].cur = loc[t].par
  <1>1. pc[t] \in WalkPart /\ pc[t] # "idle" /\ pc[t] # "diff_lower"
    BY DEF RemovalStep, StatLink, RemoveLink, At, WalkPart
  <1>2. /\ loc[t] \in Locals /\ loc = [u \in Threads |-> loc[u]]
        /\ loc[t].next \in {"return", "delete_image"} /\ loc[t].loop = "none"
    BY <1>1, Busy DEF Follows, Importers, ThreadsFit
  <1>3. Continue(t) => pc'[t] \in {"return", "delete_image"}
    BY <1>2, PartsLead
  <1>4. EndPart(t, TRUE) => pc'[t] = "return"
    <2>1. EndPart(t, TRUE) => Finish(t, TRUE)
      BY <1>2, Zenon DEF EndPart
    <2>2. QED
      BY <2>1, PartsLead
  <1>5. CASE StatLink(t)
    <2>1. CASE /\ loc[t].cur \in DOMAIN snaps /\ Goto(t, "walk_remove")
               /\ loc' = [loc EXCEPT ![t].par = snaps[loc[t].cur].parent]
      <3>1. /\ loc'[t].par = snaps[loc[t].cur].parent
            /\ loc'[t].cur = loc[t].cur /\ loc'[t].depth = loc[t].depth
        BY <1>2, <2>1 DEF Locals
      <3>2. QED
        BY <1>5, <2>1, <3>1, PartsLead DEF StatLink, At
    <2>2. QED
      BY <1>3, <1>5, <2>1 DEF StatLink
  <1>6. CASE RemoveLink(t)
    <2>1. pc[t] = "walk_remove" /\ (Climb(t) \/ Continue(t) \/ EndPart(t, TRUE))
      BY <1>6 DEF RemoveLink, At
    <2>2. CASE Climb(t) /\ ~ Continue(t)
      <3>1. /\ loc[t].depth # 0 /\ Goto(t, "walk")
            /\ loc' = [loc EXCEPT ![t] =
                      [@ EXCEPT !.cur = loc[t].par,
                                !.depth = IF loc[t].depth > 0 THEN loc[t].depth - 1
                                          ELSE loc[t].depth]]
        BY <2>2 DEF Climb
      <3>2. loc'[t].cur = loc[t].par
        BY <1>2, <3>1 DEF Locals
      <3>3. QED
        BY <2>1, <3>1, <3>2, PartsLead
    <2>3. QED
      BY <1>3, <1>4, <2>1, <2>2
  <1>7. QED
    BY <1>5, <1>6 DEF RemovalStep

LEMMA WalkTakes ==
    ASSUME NEW content, TInv, ChainsFaithful, NEW t \in Threads, RemovalStep(t),
           req[t].op \in {"umount", "delete"}, Takes(content, pc[t], req[t], loc[t])
    PROVE  Takes(content, pc'[t], req'[t], loc'[t])
  <1>1. /\ ThreadsFit /\ pc[t] \in WalkPart /\ pc[t] # "idle" /\ UNCHANGED req
    BY DEF RemovalStep, StatLink, RemoveLink, At, WalkPart, TInv
  <1> DEFINE r == req[t]
             c == content[r.ref]
  <1>2. CASE pc'[t] \in {"return", "delete_image"}
    BY <1>2, TakesNone DEF WalkPart
  <1>3. CASE /\ pc[t] = "walk" /\ pc'[t] = "walk_remove"
             /\ loc[t].cur \in DOMAIN snaps
             /\ loc'[t].par = snaps[loc[t].cur].parent
             /\ loc'[t].cur = loc[t].cur /\ loc'[t].depth = loc[t].depth
    <2>1. CASE r.op = "umount"
      BY <1>1, <1>3, <2>1 DEF Takes
    <2>2. CASE r.op = "delete"
      <3>1. r.ref \in DOMAIN content /\ c \in Seq(Layers) /\ OnChain(c, loc[t].cur)
        BY <1>1, <2>2 DEF Takes
      <3>2. OnChain(c, loc'[t].par)
        BY <1>3, <3>1, ChainParent
      <3>3. QED
        BY <1>1, <1>3, <2>2, <3>1, <3>2 DEF Takes
    <2>3. QED
      BY <2>1, <2>2
  <1>4. CASE /\ pc[t] = "walk_remove" /\ pc'[t] = "walk"
             /\ loc[t].depth # 0 /\ loc'[t].cur = loc[t].par
    BY <1>1, <1>4 DEF Takes
  <1>5. QED
    BY <1>1, <1>2, <1>3, <1>4, WalkMoves

LEMMA DeleteTakes ==
    ASSUME NEW content, TInv, RecordsInv(content), TakesInv(content),
           NEW t \in Threads, DeleteGet(t) \/ DeleteCheck(t) \/ DeleteImage(t),
           req[t].op = "delete"
    PROVE  Takes(content, pc'[t], req'[t], loc'[t])
  <1> DEFINE r == req[t]
             c == content[r.ref]
  <1>1. ThreadsFit /\ pc[t] \in DeletePart /\ pc[t] # "idle" /\ UNCHANGED req
    BY DEF DeleteGet, DeleteCheck, DeleteImage, At, DeletePart, TInv
  <1>2. /\ loc[t] \in Locals /\ loc = [u \in Threads |-> loc[u]]
        /\ loc[t].todo = << >>
    BY <1>1, Busy DEF Works, ThreadsFit
  <1>3. Image(t).ref = r.ref
    BY <1>2 DEF Image
  <1>4. \A failed : EndPart(t, failed) => Takes(content, pc'[t], req'[t], loc'[t])
    <2>1. \A failed : EndPart(t, failed) => pc'[t] \in {"return", "unpacked", "deleted", "undone"}
      BY <1>1, PartsLead
    <2>2. QED
      BY <2>1, TakesNone DEF WalkPart
  <1>5. CASE DeleteGet(t)
    <2>1. CASE /\ r.ref \in DOMAIN images /\ Goto(t, "delete_check")
               /\ loc' = [loc EXCEPT ![t].chain = images[r.ref]]
      <3>1. pc'[t] = "delete_check" /\ loc'[t].chain = images[r.ref]
        BY <1>1, <1>2, <2>1, PartsLead DEF Locals
      <3>2. r.ref \in DOMAIN content /\ images[r.ref] = c
        BY <2>1 DEF TakesInv, RecordsInv, ImagesSettled, Settles
      <3>3. c \in Seq(Layers)
        BY <2>1, <3>2 DEF TInv, StoreTyped, ImagesTyped, Chains
      <3>4. QED
        BY <1>1, <3>1, <3>2, <3>3 DEF Takes, WalkPart
    <2>2. QED
      BY <1>3, <1>4, <1>5, <2>1 DEF DeleteGet
  <1>6. CASE DeleteCheck(t)
    <2>1. CASE /\ Goto(t, "walk")
               /\ loc' = [loc EXCEPT ![t] = [@ EXCEPT !.cur = Chain(loc[t].chain),
                                                      !.depth = -1,
                                                      !.next = "delete_image"]]
      <3>1. pc'[t] = "walk" /\ loc'[t].cur = Chain(loc[t].chain)
        BY <1>1, <1>2, <2>1, PartsLead DEF Locals
      <3>2. r.ref \in DOMAIN content /\ c \in Seq(Layers) /\ loc[t].chain = c
        BY <1>6 DEF DeleteCheck, At, TakesInv, Takes
      <3>3. OnChain(c, loc'[t].cur)
        BY <3>1, <3>2, ChainTop
      <3>4. QED
        BY <1>1, <3>1, <3>2, <3>3 DEF Takes
    <2>2. CASE Goto(t, "delete_image")
      BY <1>1, <2>2, PartsLead, TakesNone DEF WalkPart
    <2>3. CASE EndPart(t, TRUE)
      BY <1>4, <2>3
    <2>4. QED
      BY <1>6, <2>1, <2>2, <2>3 DEF DeleteCheck
  <1>7. CASE DeleteImage(t)
    BY <1>4, <1>7 DEF DeleteImage
  <1>8. QED
    BY <1>5, <1>6, <1>7

LEMMA OwnTakes ==
    ASSUME NEW content, DeletesOwn(content), TInv, ChainsFaithful, RecordsInv(content),
           TakesInv(content), NEW t \in Threads, Begin(t) \/ Step(t)
    PROVE  Takes(content, pc'[t], req'[t], loc'[t])
  <1>1. ThreadsFit /\ Takes(content, pc[t], req[t], loc[t])
    BY DEF TInv, TakesInv
  <1>2. CASE UmountStart(t)
    <2>1. PICK r \in Requests[t] :
              /\ r.op = "umount" /\ req'[t] = r
              /\ pc'[t] = "return" \/ (r.rm # 0 /\ pc'[t] = "umount_lease")
      BY <1>1, <1>2, PartsLead DEF UmountStart, Start, ThreadsFit
    <2>2. r.rm \in {0, 1}
      BY <2>1 DEF DeletesOwn
    <2>3. QED
      BY <2>1, <2>2 DEF Takes, WalkPart
  <1>3. CASE Begin(t) /\ ~ UmountStart(t)
    <2>1. pc'[t] \notin WalkPart \cup {"delete_check", "umount_lease", "umount_unlease"}
      BY <1>1, <1>3, PartsLead
         DEF Begin, MountStart, CommitStart, FetchStart, RecordStart, UnpackStart, DeleteStart,
             LabelStart, LookStart, Start, WalkPart
    <2>2. QED
      BY <2>1, TakesNone
  <1>4. CASE Return(t)
    BY <1>1, <1>4, PartsLead, TakesNone DEF Return, WalkPart
  <1>5. CASE Step(t) /\ ~ Return(t)
    <2>1. UNCHANGED req /\ pc[t] # "idle"
      BY <1>5, StepCalls
    <2>2. CASE req[t].op \notin {"umount", "delete"}
      BY <2>1, <2>2 DEF Takes
    <2>3. CASE req[t].op \in {"umount", "delete"}
      <3>1. Reaches(pc[t], req[t].op)
        BY <1>1, <2>1, Busy
      <3>2. pc[t] \notin MountPart \cup DiffPart \cup CommitPart \cup UnpackPart \cup FetchPart
                         \cup PutPart
        BY <2>3, <3>1 DEF Reaches, Fetchers, Importers
      <3>3. pc[t] \notin {"unpacked", "deleted", "undone", "label_stat", "label_write", "look"}
        BY <2>3, <3>1 DEF Reaches, Importers
      <3>4. ~ CommitStep(t)
        <4>1. CommitStep(t) => pc[t] \in DiffPart \cup CommitPart
          BY DEF CommitStep, CommitStat, CommitBase, DiffStat, DiffLower, DiffMounts, DiffView,
                 Compare, CleanUpper, CleanLower, CommitMounts, CommitApply, CommitActive,
                 CommitManifest, CommitConfig, WriteBlob, DiffPart, CommitPart, At
        <4>2. QED
          BY <3>2, <4>1
      <3>5. ~ UnpackStep(t)
        <4>1. UnpackStep(t) => pc[t] \in UnpackPart
          BY DEF UnpackStep, CheckUnpacked, PrepareLayer, ApplyLayer, CommitLayer, AbortLayer,
                 UnpackPart, LayerPart, At
        <4>2. QED
          BY <3>2, <4>1
      <3>6. ~ ImportStep(t) /\ ~ LabelStep(t)
        BY <3>3 DEF ImportStep, Unpacked, Deleted, Undone, LabelStep, LabelStat, LabelWrite, Look,
                    At
      <3>7. CASE MountStep(t)
        <4>1. UmountLease(t) \/ UmountUnlease(t)
          <5>1. MountLease(t) \/ MountCreate(t) \/ MountExisting(t) \/ MountAll(t) \/ MountUndo(t)
                    \/ MountFailed(t) => pc[t] \in MountPart
            BY DEF MountLease, MountCreate, MountExisting, MountAll, MountUndo, MountFailed,
                   MountPart, At
          <5>2. QED
            BY <3>2, <3>7, <5>1 DEF MountStep
        <4>2. req[t].op = "umount" /\ req[t].rm = 1
          <5>1. pc[t] \in {"umount_lease", "umount_unlease"}
            BY <4>1 DEF UmountLease, UmountUnlease, At
          <5>2. req[t].op = "umount"
            BY <3>1, <5>1 DEF Reaches
          <5>3. QED
            BY <1>1, <2>1, <5>1, <5>2 DEF Takes
        <4>3. CASE UmountLease(t)
          <5>1. pc'[t] = "umount_unlease"
            BY <1>1, <4>3, PartsLead DEF UmountLease
          <5>2. QED
            BY <2>1, <4>2, <5>1 DEF Takes, WalkPart
        <4>4. CASE UmountUnlease(t)
          <5>1. loc[t] \in Locals /\ loc = [u \in Threads |-> loc[u]]
            BY <1>1, <2>1, Busy DEF ThreadsFit
          <5> DEFINE d == IF req[t].rm > 0 THEN req[t].rm - 1 ELSE -1
          <5>2. d = 0
            BY <4>2
          <5> HIDE DEF d
          <5>3. CASE /\ Goto(t, "walk")
                     /\ loc' = [loc EXCEPT ![t] = [@ EXCEPT !.cur = req[t].name, !.depth = d]]
            <6>1. pc'[t] = "walk" /\ loc'[t].cur = req[t].name /\ loc'[t].depth = 0
              BY <1>1, <5>1, <5>2, <5>3, PartsLead DEF Locals
            <6>2. QED
              BY <2>1, <4>2, <6>1 DEF Takes
          <5>4. CASE Finish(t, TRUE)
            BY <1>1, <5>4, PartsLead, TakesNone DEF WalkPart
          <5>5. QED
            BY <4>4, <5>3, <5>4 DEF UmountUnlease, d
        <4>5. QED
          BY <4>1, <4>3, <4>4
      <3>8. CASE RemovalStep(t)
        BY <1>1, <2>3, <3>8, WalkTakes
      <3>9. CASE ImageStep(t)
        <4>1. DeleteGet(t) \/ DeleteCheck(t) \/ DeleteImage(t)
          <5>1. FetchManifest(t) \/ FetchChildren(t) \/ PutUpdate(t) \/ PutCreate(t) =>
                    pc[t] \in FetchPart \cup PutPart
            BY DEF FetchManifest, FetchChildren, PutUpdate, PutCreate, FetchPart, PutPart, At
          <5>2. QED
            BY <3>2, <3>9, <5>1 DEF ImageStep
        <4>2. pc[t] \in DeletePart
          BY <4>1 DEF DeleteGet, DeleteCheck, DeleteImage, At, DeletePart
        <4>3. req[t].op = "delete"
          BY <2>3, <3>1, <4>2 DEF Reaches
        <4>4. QED
          BY <4>1, <4>3, DeleteTakes
      <3>10. QED
        BY <1>5, <3>4, <3>5, <3>6, <3>7, <3>8, <3>9 DEF Step
    <2>4. QED
      BY <2>2, <2>3
  <1>6. QED
    BY <1>2, <1>3, <1>4, <1>5

LEMMA TakesStep ==
    ASSUME NEW content, DeletesOwn(content), TInv, ChainsFaithful, RecordsInv(content), SparedInv,
           TakesInv(content), [Next]_vars
    PROVE  TakesInv(content)'
  <1>1. CASE \E u \in Threads : Begin(u) \/ Step(u)
    <2>1. PICK u \in Threads : Begin(u) \/ Step(u)
      BY <1>1
    <2>2. ASSUME NEW q \in DOMAIN images'
          PROVE  q \in DOMAIN content
      <3> SUFFICES ASSUME q \notin DOMAIN content
                   PROVE  FALSE
        OBVIOUS
      <3>1. StoresNone(u, q) /\ q \notin DOMAIN images
        BY DEF DeletesOwn, TakesInv
      <3>2. pc[u] \in PutPart /\ q = Image(u).ref
        BY <2>1, <3>1, StepRecords
      <3>3. QED
        BY <3>1, <3>2, SparedImage
    <2>3. ASSUME NEW t \in Threads
          PROVE  Takes(content, pc'[t], req'[t], loc'[t])
      <3>1. CASE t = u
        BY <2>1, <3>1, OwnTakes
      <3>2. CASE t # u
        <4>1. pc'[t] = pc[t] /\ req'[t] = req[t] /\ loc'[t] = loc[t]
          BY <2>1, <3>2, StepApart DEF Apart, TInv
        <4>2. QED
          BY <4>1 DEF TakesInv
      <3>3. QED
        BY <3>1, <3>2
    <2>4. QED
      BY <2>2, <2>3 DEF TakesInv
  <1>2. CASE UserWrite \/ UNCHANGED vars
    BY <1>2, QuietFacts DEF TakesInv
  <1>3. CASE Kill \/ Reboot \/ \E t \in Threads : MountPanic(t)
    <2>1. UNCHANGED images /\ \A t \in Threads : pc'[t] = "idle"
      BY <1>3 DEF Kill, Reboot, MountPanic, ProcessEnds
    <2>2. QED
      BY <2>1, TakesNone DEF TakesInv, WalkPart
  <1>4. QED
    BY <1>1, <1>2, <1>3 DEF Next

\* Where no image is built on another one that may be deleted, deleting an
\* image leaves the snapshots of the others, as cmd/delete.go has it; the run
\* shared_layers shows what happens where one is.  Umount is to remove no more
\* than the snapshot of its key: further up are those of its image.
THEOREM StoreDeleteSparesOthers ==
    ASSUME NEW content, Settled(content), DeletesOwn(content), ~ LiveWrites
    PROVE  Spec => DeleteSparesOthers
  <1>1. SoleCommits
    BY DEF DeletesOwn, SoleCommits
  <1>2. Init => SparedInv /\ TakesInv(content)
    BY SparedInit DEF Init, TakesInv, Takes, WalkPart
  <1>3. TInv /\ SettledInv(content) /\ SparedInv /\ TakesInv(content) /\ [Next]_vars =>
            SparedInv' /\ TakesInv(content)'
    BY SparedStep, TakesStep DEF SettledInv
  <1> DEFINE spares ==
        \A r \in DOMAIN images \cap DOMAIN images' :
            images'[r] = images[r] /\ Chain(images[r]) \in DOMAIN snaps =>
                \/ Chain(images[r]) \in DOMAIN snaps'
                \/ \E t \in Threads : req[t] # NoReq /\ req[t].op = "delete" /\ req[t].ref = r
  <1>4. ASSUME TInv, SettledInv(content), TakesInv(content), [Next]_vars
        PROVE  spares
    <2> SUFFICES ASSUME NEW r \in DOMAIN images, Chain(images[r]) \in DOMAIN snaps,
                        Chain(images[r]) \notin DOMAIN snaps'
                 PROVE  \E t \in Threads :
                            req[t] # NoReq /\ req[t].op = "delete" /\ req[t].ref = r
      OBVIOUS
    <2> DEFINE n == Chain(images[r])
    <2>1. n[1] = "chain"
      BY DEF Chain
    <2>2. r \in DOMAIN content /\ images[r] = content[r]
      BY <1>4 DEF TakesInv, SettledInv, RecordsInv, ImagesSettled, Settles
    <2> HIDE DEF n
    <2>3. n \in DOMAIN snaps /\ n \notin DOMAIN snaps' /\ n = Chain(content[r])
      BY <2>2 DEF n
    <2>4. \E u \in Threads : Begin(u) \/ Step(u)
      <3>1. ~ (UserWrite \/ UNCHANGED vars)
        BY <1>4, <2>3, QuietFacts
      <3>2. ~ (Kill \/ Reboot \/ \E t \in Threads : MountPanic(t))
        BY <2>3 DEF Kill, Reboot, MountPanic, ProcessEnds
      <3>3. QED
        BY <1>4, <3>1, <3>2 DEF Next
    <2>5. PICK u \in Threads : Begin(u) \/ Step(u)
      BY <2>4
    <2>6. ThreadsFit /\ Taken(u, n)
      BY <1>4, <2>3, <2>5, StepChanges DEF Changed, TInv
    <2>7. n \notin {Extract(u), Lower(u), Upper(u)}
      BY <2>1 DEF Extract, Lower, Upper, Temp
    <2>8. ~ (MountUndo(u) /\ n = req[u].name)
      <3> SUFFICES ASSUME MountUndo(u), n = req[u].name
                   PROVE  FALSE
        OBVIOUS
      <3>1. pc[u] # "idle" /\ pc[u] \in MountPart
        BY DEF MountUndo, At, MountPart
      <3>2. req[u].op = "mount" /\ req[u] \in Requests[u]
        BY <2>6, <3>1, Busy DEF Reaches
      <3>3. req[u].name \in {"key"} \X Keys
        BY <3>2 DEF Settled
      <3>4. QED
        BY <2>1, <3>3
    <2>9. ~ CommitActive(u)
      <3> SUFFICES ASSUME CommitActive(u)
                   PROVE  FALSE
        OBVIOUS
      <3>1. pc[u] # "idle" /\ pc[u] \in CommitPart
        BY DEF CommitActive, At, CommitPart
      <3>2. req[u].op = "commit" /\ req[u] \in Requests[u]
        BY <2>6, <3>1, Busy DEF Reaches
      <3>3. QED
        BY <3>2 DEF DeletesOwn
    <2>10. RemoveLink(u) /\ n = loc[u].cur
      BY <2>6, <2>7, <2>8, <2>9 DEF Taken
    <2>11. pc[u] # "idle" /\ pc[u] \in WalkPart
      BY <2>10 DEF RemoveLink, At, WalkPart
    <2>12. req[u] \in Requests[u] /\ req[u].op \in {"umount", "delete"}
      BY <2>6, <2>11, Busy DEF Reaches, DeletesOwn
    <2>13. Takes(content, pc[u], req[u], loc[u])
      BY <1>4 DEF TakesInv
    <2>14. req[u].op # "umount"
      <3> SUFFICES ASSUME req[u].op = "umount"
                   PROVE  FALSE
        OBVIOUS
      <3>1. n = req[u].name
        BY <2>10, <2>11, <2>13 DEF Takes
      <3>2. req[u].name \in {"key"} \X Keys
        BY <2>12 DEF DeletesOwn
      <3>3. QED
        BY <2>1, <3>1, <3>2
    <2>15. req[u].op = "delete" /\ req[u].ref \in DOMAIN content
           /\ OnChain(content[req[u].ref], Chain(content[r]))
      BY <2>3, <2>10, <2>11, <2>12, <2>13, <2>14 DEF Takes
    <2>16. req[u].ref = r
      BY <2>2, <2>12, <2>15 DEF DeletesOwn
    <2>17. req[u] # NoReq
      BY <2>12, RequestsAssumption
    <2>18. QED
      BY <2>15, <2>16, <2>17
  <1>5. TInv /\ SettledInv(content) /\ TakesInv(content) /\ [Next]_vars => [spares]_vars
    BY <1>4
  <1>6. QED
    BY <1>1, <1>2, <1>3, <1>5, SettledInvariant, PTL DEF Spec, DeleteSparesOthers

-----------------------------------------------------------------------------
(* Ancestors.                                                              *)

\* A store as it may be: finitely many snapshots, none without a name, whose
\* parents are there and of which none is its own ancestor.
Forest(s) ==
    /\ IsFiniteSet(DOMAIN s)
    /\ NoParent \notin DOMAIN s
    /\ \A n \in DOMAIN s : s[n].parent \in DOMAIN s \cup {NoParent}
    /\ AcyclicIn(s)

\* The line of a snapshot has it and goes on with parents.
LEMMA LineCloses ==
    ASSUME NEW s, Forest(s), NEW n \in DOMAIN s
    PROVE  /\ n \in Line(s, n)
           /\ Line(s, n) \subseteq DOMAIN s
           /\ \A m \in Line(s, n) : s[m].parent # NoParent => s[m].parent \in Line(s, n)
  <1>1. n \in Line(s, n) /\ Line(s, n) \subseteq DOMAIN s
    BY DEF Line
  <1>2. ASSUME NEW m \in Line(s, n), s[m].parent # NoParent
        PROVE  s[m].parent \in Line(s, n)
    <2>1. m \in DOMAIN s /\ s[m].parent \in DOMAIN s
      BY <1>2 DEF Line, Forest
    <2>2. ASSUME NEW S \in SUBSET DOMAIN s,
                 n \in S /\ \A x \in S : s[x].parent \in S \cup {NoParent}
          PROVE  s[m].parent \in S
      <3>1. m \in S
        BY <2>2 DEF Line
      <3>2. QED
        BY <1>2, <2>2, <3>1
    <2>3. QED
      BY <2>1, <2>2 DEF Line
  <1>3. QED
    BY <1>1, <1>2

\* It is the least such set.
LEMMA LineLeast ==
    ASSUME NEW s, NEW n \in DOMAIN s, NEW S \in SUBSET DOMAIN s, n \in S,
           \A x \in S : s[x].parent \in S \cup {NoParent}
    PROVE  Line(s, n) \subseteq S
  BY DEF Line

\* The line of an ancestor is a part of the line.
LEMMA LineGoesOn ==
    ASSUME NEW s, Forest(s), NEW n \in DOMAIN s, NEW m \in Line(s, n)
    PROVE  m \in DOMAIN s /\ Line(s, m) \subseteq Line(s, n)
  <1>1. m \in DOMAIN s
    BY DEF Line
  <1>2. QED
    BY <1>1, LineCloses, LineLeast

\* The line of a snapshot is that of its parent and itself.
LEMMA LineUp ==
    ASSUME NEW s, Forest(s), NEW n \in DOMAIN s
    PROVE  /\ s[n].parent = NoParent => Line(s, n) = {n}
           /\ s[n].parent # NoParent => /\ s[n].parent \in DOMAIN s
                                        /\ Line(s, n) = {n} \cup Line(s, s[n].parent)
  <1>1. CASE s[n].parent = NoParent
    <2>1. \A x \in {n} : s[x].parent \in {n} \cup {NoParent}
      BY <1>1
    <2>2. Line(s, n) \subseteq {n}
      BY <2>1 DEF Line
    <2>3. QED
      BY <1>1, <2>2, LineCloses
  <1>2. CASE s[n].parent # NoParent
    <2> DEFINE p == s[n].parent
    <2>1. p \in DOMAIN s
      BY <1>2 DEF Forest
    <2>2. p \in Line(s, n) /\ n \in Line(s, n)
      BY <1>2, LineCloses
    <2>3. Line(s, p) \subseteq Line(s, n)
      BY <2>2, LineGoesOn
    <2>4. /\ p \in Line(s, p) /\ Line(s, p) \subseteq DOMAIN s
          /\ \A m \in Line(s, p) : s[m].parent # NoParent => s[m].parent \in Line(s, p)
      BY <2>1, LineCloses
    <2>5. Line(s, n) \subseteq {n} \cup Line(s, p)
      <3>1. {n} \cup Line(s, p) \in SUBSET DOMAIN s
        BY <2>4
      <3>2. \A x \in {n} \cup Line(s, p) : s[x].parent \in {n} \cup Line(s, p) \cup {NoParent}
        BY <2>4
      <3>3. QED
        BY <3>1, <3>2 DEF Line
    <2>6. QED
      BY <1>2, <2>1, <2>2, <2>3, <2>5
  <1>3. QED
    BY <1>1, <1>2

\* No snapshot is on the line of its parent.
LEMMA LineEnds ==
    ASSUME NEW s, Forest(s), NEW n \in DOMAIN s, s[n].parent # NoParent
    PROVE  n \notin Line(s, s[n].parent)
  <1> DEFINE p == s[n].parent
             S == {x \in Line(s, p) : n \in Line(s, x)}
  <1> SUFFICES ASSUME n \in Line(s, p)
               PROVE  FALSE
    OBVIOUS
  <1>1. p \in DOMAIN s
    BY LineUp
  <1>2. Line(s, p) \subseteq DOMAIN s /\ p \in Line(s, p)
    BY <1>1, LineCloses
  <1>3. S \in SUBSET DOMAIN s /\ p \in S
    BY <1>2
  <1>4. PICK x \in S : s[x].parent \notin S
    <2> HIDE DEF S
    <2>1. QED
      BY <1>3 DEF Forest, AcyclicIn
  <1>5. x \in DOMAIN s /\ x \in Line(s, p) /\ n \in Line(s, x)
    BY <1>3
  <1>6. x # n
    BY <1>3, <1>4
  <1>7. s[x].parent # NoParent /\ n \in Line(s, s[x].parent)
    BY <1>5, <1>6, LineUp
  <1>8. s[x].parent \in Line(s, p)
    BY <1>1, <1>5, <1>7, LineCloses
  <1>9. QED
    BY <1>4, <1>7, <1>8

\* No two snapshots are on each other's lines.
LEMMA LineOrders ==
    ASSUME NEW s, Forest(s), NEW n \in DOMAIN s, NEW m \in Line(s, n), n \in Line(s, m)
    PROVE  m = n
  <1> SUFFICES ASSUME m # n
               PROVE  FALSE
    OBVIOUS
  <1>1. m \in DOMAIN s
    BY LineGoesOn
  <1>2. s[n].parent # NoParent /\ s[n].parent \in DOMAIN s /\ m \in Line(s, s[n].parent)
    BY LineUp
  <1>3. n \in Line(s, s[n].parent)
    BY <1>2, LineGoesOn
  <1>4. QED
    BY <1>2, <1>3, LineEnds

\* How many snapshots a line has.
LEMMA LineCounts ==
    ASSUME NEW s, Forest(s), NEW n \in DOMAIN s
    PROVE  /\ Cardinality(Line(s, n)) \in Nat
           /\ \A m \in Line(s, n) : Cardinality(Line(s, m)) <= Cardinality(Line(s, n))
           /\ s[n].parent # NoParent =>
                 Cardinality(Line(s, n)) = Cardinality(Line(s, s[n].parent)) + 1
  <1>1. IsFiniteSet(DOMAIN s)
    BY DEF Forest
  <1>2. \A m \in DOMAIN s : IsFiniteSet(Line(s, m))
    BY <1>1, LineCloses, FS_Subset
  <1>3. Cardinality(Line(s, n)) \in Nat
    BY <1>2, FS_CardinalityType
  <1>4. ASSUME NEW m \in Line(s, n)
        PROVE  Cardinality(Line(s, m)) <= Cardinality(Line(s, n))
    BY <1>2, LineGoesOn, FS_Subset
  <1>5. ASSUME s[n].parent # NoParent
        PROVE  Cardinality(Line(s, n)) = Cardinality(Line(s, s[n].parent)) + 1
    <2> DEFINE P == Line(s, s[n].parent)
    <2>1. s[n].parent \in DOMAIN s /\ Line(s, n) = P \cup {n}
      BY <1>5, LineUp
    <2>2. n \notin P
      BY <1>5, LineEnds
    <2>3. IsFiniteSet(P)
      BY <1>2, <2>1
    <2> HIDE DEF P
    <2>4. Cardinality(P \cup {n}) = Cardinality(P) + 1
      BY <2>2, <2>3, FS_AddElement
    <2>5. QED
      BY <2>1, <2>4 DEF P
  <1>6. QED
    BY <1>3, <1>4, <1>5

-----------------------------------------------------------------------------
(* The removal of a chain.                                                 *)

\* What is left of the store s0 in s is all but R, and still has its place.
Left(s0, s, R) ==
    /\ DOMAIN s = DOMAIN s0 \ R
    /\ \A n \in DOMAIN s : s[n].kind = s0[n].kind /\ s[n].parent = s0[n].parent

\* What is between n and c.
Passed(s0, n, c) == Line(s0, n) \ Line(s0, c)

\* A removal that began at n in s0 has come to c, with d levels to go: it has
\* removed what is in between, and rightly so.
Walked(s0, s, n, rm, c, d) ==
    /\ c \in Line(s0, n)
    /\ Left(s0, s, Passed(s0, n, c))
    /\ Passed(s0, n, c) \subseteq Removable(s0, n, rm)
    /\ rm > 0 => /\ d \in Nat
                 /\ Cardinality(Line(s0, n)) - Cardinality(Line(s0, c)) = rm - 1 - d
    /\ ~ rm > 0 => d = -1

LEMMA WalkBegins ==
    ASSUME NEW s0, Forest(s0), NEW s, Left(s0, s, {}), NEW n \in DOMAIN s0, NEW rm \in Int
    PROVE  Walked(s0, s, n, rm, n, IF rm > 0 THEN rm - 1 ELSE -1)
  <1>1. n \in Line(s0, n) /\ Passed(s0, n, n) = {}
    BY LineCloses DEF Passed
  <1>2. Cardinality(Line(s0, n)) \in Nat
    BY LineCounts
  <1>3. Left(s0, s, Passed(s0, n, n)) /\ Passed(s0, n, n) \subseteq Removable(s0, n, rm)
    BY <1>1
  <1> HIDE DEF Passed
  <1>4. QED
    BY <1>1, <1>2, <1>3 DEF Walked

\* What the walk knows at c.
LEMMA WalkFacts ==
    ASSUME NEW s0, Forest(s0), NEW s, NEW n \in DOMAIN s0, NEW rm, NEW c, NEW d,
           Walked(s0, s, n, rm, c, d)
    PROVE  /\ c \in DOMAIN s0 /\ c \in Line(s0, n) /\ c \in Line(s0, c)
           /\ Line(s0, c) \subseteq Line(s0, n)
           /\ c \in DOMAIN s /\ s[c].parent = s0[c].parent
  <1>1. c \in DOMAIN s0 /\ c \in Line(s0, n) /\ Line(s0, c) \subseteq Line(s0, n)
    BY LineGoesOn DEF Walked
  <1>2. c \in Line(s0, c)
    BY <1>1, LineCloses
  <1>3. c \in DOMAIN s
    BY <1>1, <1>2 DEF Walked, Left, Passed
  <1>4. QED
    BY <1>1, <1>2, <1>3 DEF Walked, Left

\* A child of c is not on the line of n: neither is what is above c to go.
LEMMA WalkStops ==
    ASSUME NEW s0, Forest(s0), NEW s, NEW n \in DOMAIN s0, NEW rm, NEW c, NEW d,
           Walked(s0, s, n, rm, c, d), HasChild(s, c)
    PROVE  Left(s0, s, Removable(s0, n, rm))
  <1>1. /\ c \in DOMAIN s0 /\ c \in Line(s0, n) /\ c \in Line(s0, c)
        /\ Line(s0, c) \subseteq Line(s0, n)
    BY WalkFacts
  <1>2. PICK y \in DOMAIN s : s[y].parent = c
    BY DEF HasChild
  <1>3. y \in DOMAIN s0 /\ s0[y].parent = c /\ y \notin Passed(s0, n, c)
    BY <1>2 DEF Walked, Left
  <1>4. c # NoParent
    BY <1>1 DEF Forest
  <1>5. y \notin Line(s0, c)
    BY <1>3, <1>4, LineEnds
  <1>6. y \notin Line(s0, n)
    BY <1>3, <1>5 DEF Passed
  <1>7. Line(s0, c) \subseteq Line(s0, y)
    BY <1>3, <1>4, LineUp
  <1>8. Removable(s0, n, rm) \subseteq Passed(s0, n, c)
    BY <1>3, <1>6, <1>7 DEF Removable, Passed
  <1>9. Removable(s0, n, rm) = Passed(s0, n, c)
    BY <1>8 DEF Walked
  <1>10. QED
    BY <1>9 DEF Walked

\* Without a child, c is to go: of what was built on it, nothing but the line
\* of n is left, and nothing else was built on that.
LEMMA WalkRemoves ==
    ASSUME NEW s0, Forest(s0), NEW s, NEW n \in DOMAIN s0, NEW rm \in Int, NEW c, NEW d,
           Walked(s0, s, n, rm, c, d), ~ HasChild(s, c)
    PROVE  c \in Removable(s0, n, rm)
  <1>1. /\ c \in DOMAIN s0 /\ c \in Line(s0, n) /\ c \in Line(s0, c)
        /\ Line(s0, c) \subseteq Line(s0, n)
    BY WalkFacts
  <1>2. rm > 0 => Cardinality(Line(s0, n)) - Cardinality(Line(s0, c)) < rm
    BY DEF Walked
  <1>3. ASSUME NEW x \in DOMAIN s0, c \in Line(s0, x), x \notin Line(s0, n)
        PROVE  FALSE
    <2> DEFINE S == {y \in Line(s0, x) : c \in Line(s0, y) /\ y \notin Line(s0, n)}
    <2>1. Line(s0, x) \subseteq DOMAIN s0 /\ x \in Line(s0, x)
      BY LineCloses
    <2>2. S \in SUBSET DOMAIN s0 /\ x \in S
      BY <1>3, <2>1
    <2>3. PICK y \in S : s0[y].parent \notin S
      <3> HIDE DEF S
      <3>1. QED
        BY <2>2 DEF Forest, AcyclicIn
    <2>4. /\ y \in DOMAIN s0 /\ y \in Line(s0, x) /\ c \in Line(s0, y)
          /\ y \notin Line(s0, n) /\ y # c
      BY <1>1, <2>2
    <2> DEFINE q == s0[y].parent
    <2>5. q # NoParent /\ q \in DOMAIN s0 /\ c \in Line(s0, q)
      BY <2>4, LineUp
    <2>6. q \in Line(s0, x)
      BY <2>4, <2>5, LineCloses
    <2>7. q \in Line(s0, n)
      BY <2>3, <2>5, <2>6
    <2>8. CASE q = c
      <3>1. y \in DOMAIN s /\ s[y].parent = c
        BY <2>4, <2>8 DEF Walked, Left, Passed
      <3>2. QED
        BY <3>1 DEF HasChild
    <2>9. CASE q # c
      <3>1. q \notin Line(s0, c)
        BY <1>1, <2>5, <2>9, LineOrders
      <3>2. q \in Removable(s0, n, rm)
        BY <2>7, <3>1 DEF Walked, Passed
      <3>3. q \in Line(s0, y)
        BY <2>4, <2>5, LineCloses
      <3>4. QED
        BY <2>4, <3>2, <3>3 DEF Removable
    <2>10. QED
      BY <2>8, <2>9
  <1>4. QED
    BY <1>1, <1>2, <1>3 DEF Removable

\* What has been passed with c.
LEMMA WalkPasses ==
    ASSUME NEW s0, Forest(s0), NEW n \in DOMAIN s0, NEW c \in Line(s0, n)
    PROVE  /\ s0[c].parent = NoParent => Passed(s0, n, c) \cup {c} = Line(s0, n)
           /\ s0[c].parent # NoParent =>
                 /\ s0[c].parent \in Line(s0, n)
                 /\ Passed(s0, n, c) \cup {c} = Passed(s0, n, s0[c].parent)
  <1>1. c \in DOMAIN s0 /\ Line(s0, c) \subseteq Line(s0, n)
    BY LineGoesOn
  <1>2. CASE s0[c].parent = NoParent
    BY <1>1, <1>2, LineUp DEF Passed
  <1>3. CASE s0[c].parent # NoParent
    BY <1>1, <1>3, LineUp, LineEnds, LineCloses DEF Passed
  <1>4. QED
    BY <1>2, <1>3

\* The walk removes c, which is the last one.
LEMMA WalkEnds ==
    ASSUME NEW s0, Forest(s0), NEW s, NEW n \in DOMAIN s0, NEW rm \in Int, NEW c, NEW d,
           Walked(s0, s, n, rm, c, d), ~ HasChild(s, c),
           s0[c].parent = NoParent \/ d = 0,
           NEW s2, Left(s0, s2, Passed(s0, n, c) \cup {c})
    PROVE  Left(s0, s2, Removable(s0, n, rm))
  <1> DEFINE P == Passed(s0, n, c) \cup {c}
  <1>1. c \in DOMAIN s0 /\ c \in Line(s0, n)
    BY WalkFacts
  <1>2. P \subseteq Removable(s0, n, rm)
    BY WalkRemoves DEF Walked
  <1>3. CASE s0[c].parent = NoParent
    <2>1. P = Line(s0, n)
      BY <1>1, <1>3, WalkPasses
    <2>2. P = Removable(s0, n, rm)
      BY <1>2, <2>1 DEF Removable
    <2>3. QED
      BY <2>2
  <1>4. CASE s0[c].parent # NoParent
    <2> DEFINE q == s0[c].parent
    <2>1. q \in Line(s0, n) /\ P = Line(s0, n) \ Line(s0, q)
      BY <1>1, <1>4, WalkPasses DEF Passed
    <2>2. rm > 0 /\ Cardinality(Line(s0, n)) - Cardinality(Line(s0, c)) = rm - 1
      BY <1>4 DEF Walked
    <2>3. /\ Cardinality(Line(s0, n)) \in Nat /\ Cardinality(Line(s0, c)) \in Nat
          /\ Cardinality(Line(s0, c)) = Cardinality(Line(s0, q)) + 1
      BY <1>1, <1>4, LineCounts
    <2>4. q \in DOMAIN s0
      BY <1>1, <1>4, LineUp
    <2>5. Cardinality(Line(s0, q)) \in Nat
      BY <2>4, LineCounts
    <2>6. ASSUME NEW m \in Line(s0, q)
          PROVE  m \notin Removable(s0, n, rm)
      <3>1. m \in DOMAIN s0 /\ Cardinality(Line(s0, m)) <= Cardinality(Line(s0, q))
        BY <2>4, LineCounts, LineGoesOn
      <3>2. Cardinality(Line(s0, m)) \in Nat
        BY <3>1, LineCounts
      <3>3. ~ Cardinality(Line(s0, n)) - Cardinality(Line(s0, m)) < rm
        BY <2>2, <2>3, <2>5, <3>1, <3>2
      <3>4. QED
        BY <2>2, <3>3 DEF Removable
    <2>7. Removable(s0, n, rm) \subseteq P
      BY <2>1, <2>6 DEF Removable
    <2>8. P = Removable(s0, n, rm)
      BY <1>2, <2>7
    <2>9. QED
      BY <2>8
  <1>5. QED
    BY <1>3, <1>4

\* The walk removes c and goes on to its parent.
LEMMA WalkClimbs ==
    ASSUME NEW s0, Forest(s0), NEW s, NEW n \in DOMAIN s0, NEW rm \in Int, NEW c, NEW d,
           Walked(s0, s, n, rm, c, d), ~ HasChild(s, c), s0[c].parent # NoParent, d # 0,
           NEW s2, Left(s0, s2, Passed(s0, n, c) \cup {c})
    PROVE  Walked(s0, s2, n, rm, s0[c].parent, IF d > 0 THEN d - 1 ELSE d)
  <1> DEFINE q == s0[c].parent
  <1>1. c \in DOMAIN s0 /\ c \in Line(s0, n)
    BY WalkFacts
  <1>2. q \in Line(s0, n) /\ Passed(s0, n, c) \cup {c} = Passed(s0, n, q)
    BY <1>1, WalkPasses
  <1>3. Passed(s0, n, q) \subseteq Removable(s0, n, rm)
    BY <1>2, WalkRemoves DEF Walked
  <1>4. /\ Cardinality(Line(s0, n)) \in Nat /\ Cardinality(Line(s0, c)) \in Nat
        /\ Cardinality(Line(s0, c)) = Cardinality(Line(s0, q)) + 1
    BY <1>1, LineCounts
  <1>5. Cardinality(Line(s0, q)) \in Nat
    BY <1>1, LineUp, LineCounts
  <1>6. Left(s0, s2, Passed(s0, n, q))
    BY <1>2
  <1>7. CASE rm > 0
    <2>1. d \in Nat /\ Cardinality(Line(s0, n)) - Cardinality(Line(s0, c)) = rm - 1 - d
      BY <1>7 DEF Walked
    <2>2. /\ d - 1 \in Nat
          /\ Cardinality(Line(s0, n)) - Cardinality(Line(s0, q)) = rm - 1 - (d - 1)
      BY <1>4, <1>5, <2>1
    <2>3. QED
      BY <1>2, <1>3, <1>6, <1>7, <2>1, <2>2 DEF Walked
  <1>8. CASE ~ rm > 0
    <2>1. d = -1
      BY <1>8 DEF Walked
    <2>2. QED
      BY <1>2, <1>3, <1>6, <1>8, <2>1 DEF Walked
  <1>9. QED
    BY <1>7, <1>8

\* The store when its call began is remembered for each thread.
VARIABLE before

HistoryInit == Init /\ before = [t \in Threads |-> snaps]

HistoryNext ==
    /\ Next
    /\ before' = [t \in Threads |-> IF req[t] = NoReq /\ req'[t] # NoReq THEN snaps
                                    ELSE before[t]]

HistorySpec == HistoryInit /\ [][HistoryNext]_<<vars, before>>

\* While a thread calls Umount, the others make records and labels, or look.
RemovalsAlone ==
    \A t \in Threads : \A r \in Requests[t] :
        r.op = "umount" =>
            \A u \in Threads \ {t} : \A s \in Requests[u] :
                s.op \in {"create", "update", "label", "update_labels", "look"}

\* What an Umount r is to remove from the store s0.
ToRemove(s0, r) == IF r.rm = 0 THEN {} ELSE Removable(s0, r.name, r.rm)

\* An Umount that succeeds has removed what it was to remove; what is left keeps
\* its kind and its parent.  MCOCIStore's RemovesLine says it of one thread and
\* of contents and labels, too, which others may change here.
ChainRemoved ==
    \A t \in Threads :
        Succeeded(t, "umount") => Left(before[t], snaps, ToRemove(before[t], req[t]))

\* An Umount r at p, which began in s0, and the snapshots s.
UmountRemoves(p, r, l, s0, s) ==
    p # "idle" /\ r.op = "umount" =>
        /\ Forest(s0)
        /\ p # "return" => r.rm # 0
        /\ p \in {"umount_lease", "umount_unlease"} => Left(s0, s, {})
        /\ p \in WalkPart =>
              /\ r.name \in DOMAIN s0 => Walked(s0, s, r.name, r.rm, l.cur, l.depth)
              /\ r.name \notin DOMAIN s0 => Left(s0, s, {}) /\ l.cur = r.name
        /\ p = "walk_remove" => l.cur \in DOMAIN s /\ l.par = s[l.cur].parent
        /\ p = "return" /\ ~ l.err => Left(s0, s, ToRemove(s0, r))

RemovingInv ==
    /\ IsFiniteSet(DOMAIN snaps)
    /\ \A t \in Threads : UmountRemoves(pc[t], req[t], loc[t], before[t], snaps)

LEMMA FiniteStep ==
    ASSUME IInv, IsFiniteSet(DOMAIN snaps), [Next]_vars
    PROVE  IsFiniteSet(DOMAIN snaps')
  <1>1. Effect(snaps, snaps')
    BY NextEffect
  <1>2. CASE Creates(snaps, snaps')
    <2>1. PICK kind, n, p, label : snaps' = Created(snaps, kind, n, p, label)
      BY <1>2 DEF Creates
    <2>2. DOMAIN snaps' = DOMAIN snaps \cup {n}
      BY <2>1 DEF Created, Put
    <2>3. QED
      BY <2>2, FS_AddElement
  <1>3. CASE Removes(snaps, snaps')
    <2>1. PICK n : snaps' = Removed(snaps, n)
      BY <1>3 DEF Removes
    <2>2. DOMAIN snaps' = DOMAIN snaps \ {n}
      BY <2>1, RemovedFacts
    <2>3. QED
      BY <2>2, FS_RemoveElement
  <1>4. CASE Commits(snaps, snaps')
    <2>1. PICK n, c, label : snaps' = Committed(snaps, n, c, label)
      BY <1>4 DEF Commits
    <2>2. DOMAIN snaps' = (DOMAIN snaps \ {n}) \cup {c}
      BY <2>1, RemovedFacts DEF Committed, Put
    <2>3. QED
      BY <2>2, FS_AddElement, FS_RemoveElement
  <1>5. CASE SameShape(snaps, snaps')
    BY <1>5 DEF SameShape
  <1>6. QED
    BY <1>1, <1>2, <1>3, <1>4, <1>5 DEF Effect

\* The store is a forest.
LEMMA StoreIsForest ==
    ASSUME TInv, IInv, Acyclic, IsFiniteSet(DOMAIN snaps)
    PROVE  Forest(snaps)
  <1>1. NoParent \notin DOMAIN snaps
    BY NameFacts DEF TInv, StoreTyped, SnapsTyped
  <1>2. \A n \in DOMAIN snaps : snaps[n].parent \in DOMAIN snaps \cup {NoParent}
    BY DEF IInv, IInvIn, ParentsCommittedIn, IsCommitted
  <1>3. QED
    BY <1>1, <1>2 DEF Forest, Acyclic

\* A call that makes records or labels, or looks, leaves the snapshots.
LEMMA PlainShape ==
    ASSUME TInv, NEW u \in Threads, Step(u),
           pc[u] # "idle" =>
               req[u].op \in {"create", "update", "label", "update_labels", "look"}
    PROVE  SameShape(snaps, snaps')
  <1>1. pc[u] # "idle" => Reaches(pc[u], req[u].op)
    BY Busy DEF TInv
  <1>2. pc[u] \notin UnpackPart \cup WalkPart \cup MountPart \cup DiffPart \cup CommitPart
                     \cup {"umount_lease", "umount_unlease"}
    BY <1>1 DEF Reaches, UnpackPart, LayerPart, WalkPart, MountPart, DiffPart, CommitPart,
                Fetchers, Importers
  <1>3. ~ UnpackStep(u) /\ ~ RemovalStep(u)
    BY <1>2 DEF UnpackStep, CheckUnpacked, PrepareLayer, ApplyLayer, CommitLayer, AbortLayer,
                RemovalStep, StatLink, RemoveLink, At, UnpackPart, LayerPart, WalkPart
  <1>4. ~ CommitStep(u)
    <2>1. /\ ~ CommitStat(u) /\ ~ CommitBase(u) /\ ~ DiffStat(u) /\ ~ DiffLower(u)
          /\ ~ DiffMounts(u) /\ ~ DiffView(u) /\ ~ Compare(u) /\ ~ CleanUpper(u)
          /\ ~ CleanLower(u)
      BY <1>2 DEF CommitStat, CommitBase, DiffStat, DiffLower, DiffMounts, DiffView, Compare,
                  CleanUpper, CleanLower, At, DiffPart
    <2>2. /\ ~ CommitMounts(u) /\ ~ CommitApply(u) /\ ~ CommitActive(u) /\ ~ CommitManifest(u)
          /\ ~ CommitConfig(u)
      BY <1>2 DEF CommitMounts, CommitApply, CommitActive, CommitManifest, CommitConfig,
                  WriteBlob, At, CommitPart
    <2>3. QED
      BY <2>1, <2>2 DEF CommitStep
  <1>5. ~ MountStep(u)
    BY <1>2 DEF MountStep, MountLease, MountCreate, MountExisting, MountAll, MountUndo,
                MountFailed, UmountLease, UmountUnlease, At, MountPart
  <1>6. UNCHANGED snaps => SameShape(snaps, snaps')
    BY DEF SameShape
  <1>7. CASE ImageStep(u) \/ ImportStep(u) \/ Return(u)
    BY <1>6, <1>7 DEF ImageStep, FetchManifest, FetchChildren, PutUpdate, PutCreate, DeleteGet,
                      DeleteCheck, DeleteImage, ImportStep, Unpacked, Deleted, Undone, Return,
                      store
  <1>8. CASE LabelStep(u)
    BY <1>6, <1>8, RelabelKeepsShape DEF LabelStep, LabelStat, LabelWrite, Look, store
  <1>9. QED
    BY <1>3, <1>4, <1>5, <1>7, <1>8 DEF Step

\* What leaves the shape of the store is no matter of a removal.
LEMMA ShapeRemoves ==
    ASSUME NEW s, NEW s2, SameShape(s, s2),
           NEW p, NEW r, NEW l, NEW s0, UmountRemoves(p, r, l, s0, s)
    PROVE  UmountRemoves(p, r, l, s0, s2)
  <1>1. \A R : Left(s0, s, R) => Left(s0, s2, R)
    BY DEF Left, SameShape
  <1>2. Walked(s0, s, r.name, r.rm, l.cur, l.depth) =>
            Walked(s0, s2, r.name, r.rm, l.cur, l.depth)
    BY <1>1 DEF Walked
  <1>3. l.cur \in DOMAIN s => l.cur \in DOMAIN s2 /\ s2[l.cur].parent = s[l.cur].parent
    BY DEF SameShape
  <1>4. QED
    BY <1>1, <1>2, <1>3 DEF UmountRemoves

\* The steps of the others.
LEMMA OtherRemoves ==
    ASSUME RemovalsAlone, TInv, NEW u \in Threads, Begin(u) \/ Step(u),
           NEW t \in Threads \ {u}, NEW s0, UmountRemoves(pc[t], req[t], loc[t], s0, snaps)
    PROVE  UmountRemoves(pc'[t], req'[t], loc'[t], s0, snaps')
  <1>1. ThreadsFit /\ pc'[t] = pc[t] /\ req'[t] = req[t] /\ loc'[t] = loc[t]
    BY StepApart DEF Apart, TInv
  <1> SUFFICES ASSUME pc[t] # "idle", req[t].op = "umount"
               PROVE  UmountRemoves(pc[t], req[t], loc[t], s0, snaps')
    BY <1>1 DEF UmountRemoves
  <1>2. req[t] \in Requests[t]
    BY <1>1, Busy
  <1>3. \A s \in Requests[u] : s.op \in {"create", "update", "label", "update_labels", "look"}
    BY <1>2 DEF RemovalsAlone
  <1>4. SameShape(snaps, snaps')
    <2>1. CASE Begin(u)
      <3>1. UNCHANGED snaps
        BY <2>1 DEF Begin, MountStart, UmountStart, CommitStart, FetchStart, RecordStart,
                    UnpackStart, DeleteStart, LabelStart, LookStart, store
      <3>2. QED
        BY <3>1 DEF SameShape
    <2>2. CASE Step(u)
      BY <1>1, <1>3, <2>2, Busy, PlainShape
    <2>3. QED
      BY <2>1, <2>2
  <1>5. QED
    BY <1>4, ShapeRemoves

\* The links of the chain.
LEMMA OwnRemoval ==
    ASSUME TInv, NEW t \in Threads, RemovalStep(t), req[t].op = "umount",
           NEW s0, UmountRemoves(pc[t], req[t], loc[t], s0, snaps)
    PROVE  UmountRemoves(pc'[t], req'[t], loc'[t], s0, snaps')
  <1> DEFINE n == req[t].name
             rm == req[t].rm
             c == loc[t].cur
             d == loc[t].depth
  <1>1. ThreadsFit
    BY DEF TInv
  <1>2. pc[t] \in WalkPart /\ pc[t] # "idle" /\ req'[t] = req[t]
    BY DEF RemovalStep, StatLink, RemoveLink, At, WalkPart, store
  <1>3. /\ req[t] \in Requests[t] /\ loc[t] \in Locals
        /\ loc[t].next = "return" /\ loc[t].loop = "none"
    BY <1>1, <1>2, Busy DEF Follows, Importers, WalkPart
  <1>4. rm \in Int
    BY <1>3, RequestsAssumption DEF Calls, MountCall, ScratchCall, UmountCall, CommitCall,
           ImageCall, FetchCall, RecordCall, LabelCall, LookCall
  <1>5. /\ Forest(s0) /\ rm # 0
        /\ n \in DOMAIN s0 => Walked(s0, snaps, n, rm, c, d)
        /\ n \notin DOMAIN s0 => Left(s0, snaps, {}) /\ c = n
    BY <1>2 DEF UmountRemoves, WalkPart
  <1>6. Continue(t) => pc'[t] = "return"
    BY <1>1, <1>3, PartsLead
  <1>7. ASSUME pc'[t] = "return", Left(s0, snaps', Removable(s0, n, rm))
        PROVE  UmountRemoves(pc'[t], req'[t], loc'[t], s0, snaps')
    BY <1>2, <1>5, <1>7 DEF UmountRemoves, WalkPart, ToRemove
  <1>8. ASSUME pc'[t] = "walk",
               n \in DOMAIN s0, Walked(s0, snaps', n, rm, loc'[t].cur, loc'[t].depth)
        PROVE  UmountRemoves(pc'[t], req'[t], loc'[t], s0, snaps')
    BY <1>2, <1>5, <1>8 DEF UmountRemoves, WalkPart
  <1>9. CASE StatLink(t)
    <2>1. snaps' = snaps
      BY <1>9 DEF StatLink, store
    <2>2. CASE c \notin DOMAIN snaps /\ Continue(t)
      <3>1. n \notin DOMAIN s0
        BY <1>5, <2>2, WalkFacts
      <3>2. Removable(s0, n, rm) = {}
        BY <3>1 DEF Removable
      <3>3. QED
        BY <1>5, <1>6, <1>7, <2>1, <2>2, <3>1, <3>2
    <2>3. CASE /\ c \in DOMAIN snaps
               /\ Goto(t, "walk_remove")
               /\ loc' = [loc EXCEPT ![t].par = snaps[loc[t].cur].parent]
      <3>1. /\ pc'[t] = "walk_remove" /\ loc'[t].cur = c /\ loc'[t].depth = d
            /\ loc'[t].par = snaps[c].parent
        BY <1>1, <1>3, <2>3, PartsLead DEF ThreadsFit, Locals
      <3>2. QED
        BY <1>2, <1>5, <2>1, <2>3, <3>1 DEF UmountRemoves, WalkPart
    <2>4. QED
      BY <1>9, <2>2, <2>3 DEF StatLink
  <1>10. CASE RemoveLink(t)
    <2>1. c \in DOMAIN snaps /\ loc[t].par = snaps[c].parent
      BY <1>2, <1>10 DEF RemoveLink, At, UmountRemoves
    <2>2. n \in DOMAIN s0
      BY <1>5, <2>1 DEF Left
    <2>3. Walked(s0, snaps, n, rm, c, d)
      BY <1>5, <2>2
    <2>4. snaps[c].parent = s0[c].parent
      BY <2>1, <2>3 DEF Walked, Left
    <2>5. CASE RemoveResult(snaps, c) = "ok" /\ RemoveSnapshot(c) /\ Climb(t)
      <3>1. ~ HasChild(snaps, c)
        BY <2>5 DEF RemoveResult
      <3>2. Left(s0, snaps', Passed(s0, n, c) \cup {c})
        <4>1. snaps' = Removed(snaps, c)
          BY <2>5 DEF RemoveSnapshot
        <4> HIDE DEF n, c
        <4>2. /\ DOMAIN snaps' = DOMAIN snaps \ {c}
              /\ \A m \in DOMAIN snaps \ {c} : snaps'[m] = snaps[m]
          BY <4>1, RemovedFacts
        <4>3. Left(s0, snaps, Passed(s0, n, c))
          BY <2>3, Zenon DEF Walked
        <4>4. QED
          BY <4>2, <4>3 DEF Left
      <3>3. CASE loc[t].par = NoParent \/ d = 0
        <4>1. pc'[t] = "return"
          BY <1>6, <2>5, <3>3 DEF Climb
        <4>2. Left(s0, snaps', Removable(s0, n, rm))
          BY <1>4, <1>5, <2>1, <2>2, <2>3, <2>4, <3>1, <3>2, <3>3, WalkEnds
        <4>3. QED
          BY <1>7, <4>1, <4>2
      <3>4. CASE loc[t].par # NoParent /\ d # 0
        <4> DEFINE e == IF d > 0 THEN d - 1 ELSE d
        <4>1. Walked(s0, snaps', n, rm, loc[t].par, e)
          BY <1>4, <1>5, <2>1, <2>2, <2>3, <2>4, <3>1, <3>2, <3>4, WalkClimbs
        <4>2. /\ Goto(t, "walk")
              /\ loc' = [loc EXCEPT ![t] = [@ EXCEPT !.cur = loc[t].par, !.depth = e]]
          BY <2>5, <3>4 DEF Climb
        <4> HIDE DEF e
        <4>3. pc'[t] = "walk" /\ loc'[t].cur = loc[t].par /\ loc'[t].depth = e
          BY <1>1, <1>3, <4>2, PartsLead DEF ThreadsFit, Locals
        <4>4. QED
          BY <1>8, <2>2, <4>1, <4>3
      <3>5. QED
        BY <3>3, <3>4
    <2>6. CASE RemoveResult(snaps, c) = "failed_precondition" /\ Continue(t) /\ UNCHANGED snaps
      <3>1. HasChild(snaps, c)
        BY <2>6 DEF RemoveResult
      <3>2. Left(s0, snaps, Removable(s0, n, rm))
        BY <1>5, <2>2, <2>3, <3>1, WalkStops
      <3>3. QED
        BY <1>6, <1>7, <2>6, <3>2
    <2>7. CASE EndPart(t, TRUE)
      <3>1. Finish(t, TRUE)
        BY <1>3, <2>7 DEF EndPart
      <3>2. pc'[t] = "return" /\ loc'[t].err
        BY <1>1, <3>1, FinishFails
      <3>3. QED
        BY <1>2, <1>5, <3>2 DEF UmountRemoves, WalkPart
    <2>8. QED
      BY <1>10, <2>5, <2>6, <2>7 DEF RemoveLink
  <1>11. QED
    BY <1>9, <1>10 DEF RemovalStep

\* The steps of the call itself.
LEMMA OwnRemoves ==
    ASSUME TInv, Forest(snaps), NEW t \in Threads, Begin(t) \/ Step(t),
           NEW s0, pc[t] = "idle" => s0 = snaps,
           UmountRemoves(pc[t], req[t], loc[t], s0, snaps)
    PROVE  UmountRemoves(pc'[t], req'[t], loc'[t], s0, snaps')
  <1>1. ThreadsFit
    BY DEF TInv
  <1>2. /\ req = [u \in Threads |-> req[u]] /\ loc = [u \in Threads |-> loc[u]]
        /\ loc[t] \in Locals /\ (pc[t] = "idle" => loc[t] = Blank)
    BY <1>1 DEF ThreadsFit, Fits
  <1>3. ASSUME UNCHANGED snaps, Left(s0, snaps, {}), Forest(s0),
               pc'[t] \in {"umount_lease", "umount_unlease"}, req'[t].rm # 0
        PROVE  UmountRemoves(pc'[t], req'[t], loc'[t], s0, snaps')
    BY <1>3 DEF UmountRemoves, WalkPart
  <1>4. CASE UmountStart(t)
    <2>1. PICK r \in Requests[t] :
             \/ Start(t, r, IF r.rm = 0 THEN "return" ELSE "umount_lease") /\ UNCHANGED loc
             \/ Start(t, r, "return") /\ loc' = [loc EXCEPT ![t].err = TRUE]
      BY <1>4 DEF UmountStart
    <2>2. req'[t] = r /\ UNCHANGED snaps /\ s0 = snaps /\ pc[t] = "idle"
      BY <1>2, <1>4, <2>1 DEF Start, UmountStart, At
    <2>3. Left(s0, snaps, {}) /\ Forest(s0)
      BY <2>2 DEF Left
    <2>4. CASE Start(t, r, "return") /\ loc' = [loc EXCEPT ![t].err = TRUE]
      <3>1. pc'[t] = "return"
        BY <1>1, <2>4, PartsLead DEF Start
      <3>2. loc'[t].err
        BY <1>2, <2>4 DEF Locals
      <3>3. QED
        BY <2>3, <3>1, <3>2 DEF UmountRemoves, WalkPart
    <2>5. CASE Start(t, r, "umount_lease") /\ r.rm # 0
      <3>1. pc'[t] = "umount_lease"
        BY <1>1, <2>5, PartsLead DEF Start
      <3>2. QED
        BY <1>3, <2>2, <2>3, <2>5, <3>1
    <2>6. CASE Start(t, r, "return") /\ r.rm = 0
      <3>1. pc'[t] = "return"
        BY <1>1, <2>6, PartsLead DEF Start
      <3>2. QED
        BY <2>2, <2>3, <2>6, <3>1 DEF UmountRemoves, WalkPart, ToRemove
    <2>7. QED
      BY <2>1, <2>4, <2>5, <2>6
  <1>5. CASE Begin(t) /\ ~ UmountStart(t)
    <2>1. req'[t].op # "umount"
      <3>1. CASE MountStart(t) \/ CommitStart(t) \/ UnpackStart(t) \/ DeleteStart(t)
        BY <1>2, <3>1 DEF MountStart, CommitStart, UnpackStart, DeleteStart, Start
      <3>2. CASE FetchStart(t) \/ RecordStart(t) \/ LabelStart(t) \/ LookStart(t)
        BY <1>2, <3>2 DEF FetchStart, RecordStart, LabelStart, LookStart, Start
      <3>3. QED
        BY <1>5, <3>1, <3>2 DEF Begin
    <2>2. QED
      BY <2>1 DEF UmountRemoves
  <1>6. CASE Return(t)
    <2>1. pc'[t] = "idle"
      BY <1>1, <1>6, PartsLead DEF Return
    <2>2. QED
      BY <2>1 DEF UmountRemoves
  <1>7. Step(t) /\ ~ Return(t) => UNCHANGED req /\ pc[t] # "idle"
    BY StepCalls
  <1>8. CASE Step(t) /\ ~ Return(t) /\ req[t].op # "umount"
    BY <1>7, <1>8 DEF UmountRemoves
  <1>9. CASE Step(t) /\ ~ Return(t) /\ req[t].op = "umount"
    <2>1. req'[t] = req[t] /\ pc[t] # "idle"
      BY <1>7, <1>9
    <2>2. CASE RemovalStep(t)
      BY <1>9, <2>2, OwnRemoval
    <2>3. CASE UmountLease(t)
      <3>1. /\ pc[t] = "umount_lease" /\ UNCHANGED snaps /\ pc'[t] = "umount_unlease"
        BY <1>1, <2>3, PartsLead DEF UmountLease, At
      <3>2. req[t].rm # 0 /\ Left(s0, snaps, {}) /\ Forest(s0)
        BY <1>9, <3>1 DEF UmountRemoves
      <3>3. QED
        BY <1>3, <2>1, <3>1, <3>2
    <2>4. CASE UmountUnlease(t)
      <3> DEFINE d == IF req[t].rm > 0 THEN req[t].rm - 1 ELSE -1
                 l == [loc[t] EXCEPT !.cur = req[t].name, !.depth = d]
      <3>1. /\ pc[t] = "umount_unlease" /\ UNCHANGED snaps
            /\ \/ Goto(t, "walk") /\ loc' = [loc EXCEPT ![t] = l]
               \/ Finish(t, TRUE)
        BY <2>4 DEF UmountUnlease, At
      <3>2. req[t].rm # 0 /\ Left(s0, snaps, {}) /\ Forest(s0)
        BY <1>9, <3>1 DEF UmountRemoves
      <3>3. req[t].rm \in Int
        <4>1. req[t] \in Requests[t]
          BY <1>1, <2>1, Busy
        <4>2. QED
          BY <1>9, <4>1, RequestsAssumption DEF Calls, MountCall, ScratchCall, UmountCall,
                 CommitCall, ImageCall, FetchCall, RecordCall, LabelCall, LookCall
      <3>4. ASSUME req[t].name \in DOMAIN s0
            PROVE  Walked(s0, snaps, req[t].name, req[t].rm, req[t].name, d)
        BY <3>2, <3>3, <3>4, WalkBegins
      <3> HIDE DEF d
      <3>5. CASE Goto(t, "walk") /\ loc' = [loc EXCEPT ![t] = l]
        <4>1. pc'[t] = "walk" /\ loc'[t].cur = req[t].name /\ loc'[t].depth = d
          BY <1>1, <1>2, <3>5, PartsLead DEF Locals
        <4>2. QED
          BY <2>1, <3>1, <3>2, <3>4, <4>1 DEF UmountRemoves, WalkPart
      <3>6. CASE Finish(t, TRUE)
        <4>1. pc'[t] = "return" /\ loc'[t].err
          BY <1>1, <3>6, FinishFails
        <4>2. QED
          BY <2>1, <3>2, <4>1 DEF UmountRemoves, WalkPart
      <3>7. QED
        BY <3>1, <3>5, <3>6
    <2>5. QED
      BY <1>1, <1>9, <2>2, <2>3, <2>4, UmountParts
  <1>10. QED
    BY <1>4, <1>5, <1>6, <1>8, <1>9

LEMMA RemovingStep ==
    ASSUME RemovalsAlone, TInv, IInv, Acyclic, RemovingInv, HistoryNext
    PROVE  RemovingInv'
  <1>1. Forest(snaps) /\ ThreadsFit
    BY StoreIsForest DEF RemovingInv, TInv
  <1>2. IsFiniteSet(DOMAIN snaps')
    BY FiniteStep DEF RemovingInv, HistoryNext
  <1> SUFFICES ASSUME NEW t \in Threads
               PROVE  UmountRemoves(pc'[t], req'[t], loc'[t], before'[t], snaps')
    BY <1>2 DEF RemovingInv
  <1>3. UmountRemoves(pc[t], req[t], loc[t], before[t], snaps)
    BY DEF RemovingInv
  <1>4. pc[t] # "idle" => req[t] # NoReq
    BY <1>1, Busy, RequestsAssumption
  <1>5. pc[t] = "idle" => req[t] = NoReq
    BY <1>1 DEF ThreadsFit, Fits
  <1>6. before'[t] = IF req[t] = NoReq /\ req'[t] # NoReq THEN snaps ELSE before[t]
    BY DEF HistoryNext
  <1>7. ASSUME NEW u \in Threads, Begin(u) \/ Step(u)
        PROVE  UmountRemoves(pc'[t], req'[t], loc'[t], before'[t], snaps')
    <2>1. CASE u = t /\ Begin(t)
      <3>1. pc[t] = "idle" /\ req'[t] \in Requests[t]
        <4>1. \A r, l : Start(t, r, l) => pc[t] = "idle" /\ req'[t] \in Requests[t]
          BY <1>1 DEF Start, At, ThreadsFit
        <4>2. QED
          BY <2>1, <4>1 DEF Begin, MountStart, UmountStart, CommitStart, FetchStart, RecordStart,
                            UnpackStart, DeleteStart, LabelStart, LookStart
      <3>2. before'[t] = snaps
        BY <1>5, <1>6, <3>1, RequestsAssumption
      <3>3. UmountRemoves(pc[t], req[t], loc[t], snaps, snaps)
        BY <3>1 DEF UmountRemoves
      <3>4. QED
        BY <1>1, <2>1, <3>1, <3>2, <3>3, OwnRemoves
    <2>2. CASE u = t /\ Step(t)
      <3>1. pc[t] # "idle"
        BY <2>2, StepCalls DEF Return, At
      <3>2. before'[t] = before[t]
        BY <1>4, <1>6, <3>1
      <3>3. QED
        BY <1>1, <1>3, <2>2, <3>1, <3>2, OwnRemoves
    <2>3. CASE u # t /\ pc[t] = "idle"
      <3>1. pc'[t] = "idle"
        BY <1>1, <1>7, <2>3, StepApart DEF Apart
      <3>2. QED
        BY <3>1 DEF UmountRemoves
    <2>4. CASE u # t /\ pc[t] # "idle"
      <3>1. before'[t] = before[t]
        BY <1>4, <1>6, <2>4
      <3>2. QED
        BY <1>3, <1>7, <2>4, <3>1, OtherRemoves
    <2>5. QED
      BY <1>7, <2>1, <2>2, <2>3, <2>4
  <1>8. CASE UserWrite
    <2>1. PICK m, x : snaps' = Written(snaps, m, {x})
      BY <1>8 DEF UserWrite
    <2>2. SameShape(snaps, snaps')
      BY <2>1, WriteKeepsShape
    <2>3. UNCHANGED <<pc, req, loc>>
      BY <1>8 DEF UserWrite, thread
    <2>4. pc[t] # "idle" => before'[t] = before[t]
      BY <1>4, <1>6
    <2>5. QED
      BY <1>3, <2>2, <2>3, <2>4, ShapeRemoves DEF UmountRemoves
  <1>9. CASE Kill \/ Reboot \/ \E u \in Threads : MountPanic(u)
    <2>1. pc'[t] = "idle"
      BY <1>9 DEF Kill, Reboot, MountPanic, ProcessEnds
    <2>2. QED
      BY <2>1 DEF UmountRemoves
  <1>10. QED
    BY <1>7, <1>8, <1>9 DEF HistoryNext, Next

\* Umount removes the snapshot of its key and as many of the ancestors as it
\* was asked to, less those that others are built on and what is below these,
\* and nothing else, whatever the shape of the store: the walk from parent to
\* parent, which reads and removes in transactions of their own, does what
\* Removable says without one.
THEOREM StoreRemovesLine ==
    ASSUME RemovalsAlone
    PROVE  HistorySpec => []ChainRemoved
  <1>1. Init => RemovingInv
    BY FS_EmptySet DEF Init, RemovingInv, UmountRemoves
  <1>2. TInv /\ IInv /\ Acyclic /\ RemovingInv /\ [HistoryNext]_<<vars, before>> => RemovingInv'
    <2>1. CASE HistoryNext
      BY <2>1, RemovingStep
    <2>2. CASE UNCHANGED <<vars, before>>
      BY <2>2 DEF vars, store, thread, RemovingInv
    <2>3. QED
      BY <2>1, <2>2
  <1>3. RemovingInv => ChainRemoved
    BY DEF RemovingInv, UmountRemoves, ChainRemoved, Succeeded, At
  <1>4. HistorySpec => Spec
    <2>1. [HistoryNext]_<<vars, before>> => [Next]_vars
      BY DEF HistoryNext
    <2>2. HistoryInit => Init
      BY DEF HistoryInit
    <2>3. QED
      BY <2>1, <2>2, PTL DEF HistorySpec, Spec
  <1>5. QED
    BY <1>1, <1>2, <1>3, <1>4, WalksInvariant, StoreAcyclic, PTL DEF HistorySpec, HistoryInit
=============================================================================
