------------------------------ MODULE OCIStore ------------------------------
(***************************************************************************)
(* The OCI store: calls of several threads interleaving on one store, the  *)
(* processes that run inside the mounts, and crashes of the process and of *)
(* the host.                                                               *)
(***************************************************************************)
EXTENDS UnpackSteps, RemovalSteps, MountSteps, CommitSteps, ImageSteps, LabelSteps

CONSTANTS UserChanges,  \* changes made inside the mounts
          LiveWrites    \* whether mounts are written during and after Commit

ASSUME UserAssumption == UserChanges \subseteq Changes

\* The deferred functions of a call: Commit, Unpack, Delete and the others
\* release their lease, Mount its own only if it failed.
Deferred(t) == IF req[t].op # "mount" THEN {Temp("lease", t)}
               ELSE IF loc[t].err /\ loc[t].owns THEN {req[t].name}
               ELSE {}

\* A lease that cannot be released is worth a warning, if that, and stays.
Return(t) ==
    /\ At(t, "return")
    /\ \/ leases' = leases \ Deferred(t) /\ UNCHANGED serial
       \/ req[t].op # "mount" /\ Lose("lease", t) /\ UNCHANGED leases
       \/ req[t].op = "mount" /\ Faults /\ UNCHANGED <<leases, serial>>
    /\ Goto(t, "idle")
    /\ req' = [req EXCEPT ![t] = NoReq]
    /\ loc' = [loc EXCEPT ![t] = Blank]
    /\ dir' = [dir EXCEPT ![t] = Gone]
    /\ UNCHANGED <<snaps, images, blobs, mounts>>

Begin(t) ==
    \/ MountStart(t)
    \/ UmountStart(t)
    \/ CommitStart(t)
    \/ FetchStart(t)
    \/ RecordStart(t)
    \/ UnpackStart(t)
    \/ DeleteStart(t)
    \/ LabelStart(t)
    \/ LookStart(t)

Step(t) ==
    \/ UnpackStep(t)
    \/ RemovalStep(t)
    \/ MountStep(t)
    \/ CommitStep(t)
    \/ ImageStep(t)
    \/ ImportStep(t)
    \/ LabelStep(t)
    \/ Return(t)

-----------------------------------------------------------------------------

\* The process is gone and with it every call; the files stay, and with them
\* what the calls had.
ProcessEnds ==
    /\ serial' = [k \in TempKinds \X Threads |-> serial[k] + 1]
    /\ pc' = [t \in Threads |-> "idle"]
    /\ req' = [t \in Threads |-> NoReq]
    /\ loc' = [t \in Threads |-> Blank]
    /\ dir' = [t \in Threads |-> Gone]
    /\ UNCHANGED <<snaps, images, leases, blobs>>

\* MountFromScratch has no image: img.Name() in the error path panics.
MountPanic(t) ==
    /\ At(t, "mount_failed")
    /\ Scratch(t)
    /\ ProcessEnds
    /\ UNCHANGED mounts

Kill == MayLose /\ ProcessEnds /\ UNCHANGED mounts

Reboot == MayLose /\ ProcessEnds /\ mounts' = {}

\* Something running in a mount changes a file.  Unless LiveWrites, the
\* mounts of a snapshot are quiet while it is being committed and after.
UserWrite ==
    \E m \in mounts, x \in UserChanges :
        /\ m.rw
        /\ \/ LiveWrites
           \/ /\ snaps[m.snap].kind = "active"
              /\ \A t \in Threads :
                    req[t] # NoReq =>
                        ~ (req[t].op = "commit" /\ req[t].name = m.snap)
        /\ snaps' = Written(snaps, m.snap, {x})
        /\ UNCHANGED <<images, leases, blobs, mounts, serial, thread>>

Next ==
    \/ \E t \in Threads : Begin(t) \/ Step(t) \/ MountPanic(t)
    \/ UserWrite
    \/ Kill
    \/ Reboot

Spec == Init /\ [][Next]_vars

\* A call that has begun is scheduled until it returns; callers need not
\* make another one, and nothing makes the process crash.
FairSpec == Spec /\ \A t \in Threads : WF_vars(Step(t) \/ MountPanic(t))

-----------------------------------------------------------------------------
(* Invariants of the store.                                                *)

Labels == {"idle", "unpack", "extract", "apply", "commit_layer", "abort_layer",
           "walk", "walk_remove", "mount_lease", "mount_create",
           "mount_existing", "mount_all", "mount_undo", "mount_failed",
           "umount_lease", "umount_unlease", "commit", "commit_base", "diff",
           "diff_lower", "diff_mounts", "diff_view", "compare", "clean_upper",
           "clean_lower", "commit_mounts", "commit_apply", "commit_snapshot",
           "commit_manifest", "commit_config", "fetch", "fetch_children",
           "put_update", "put_create", "delete", "delete_check",
           "delete_image", "unpacked", "deleted", "undone", "label_stat",
           "label_write", "look", "return"}

Mounted == [target : Targets, snap : Names, rw : BOOLEAN]

\* Types, and that a mount and the mounts a call holds are of snapshots
\* that exist unless their directories are gone.
TypeOK ==
    /\ DOMAIN snaps \subseteq Names
    /\ \A n \in DOMAIN snaps :
          snaps[n] \in [kind : Kinds, parent : Names \cup {NoParent},
                        label : Refs \cup {NoRef}, diff : Layers]
    /\ DOMAIN images \subseteq Refs /\ \A r \in DOMAIN images : images[r] \in Chains
    /\ leases \subseteq Names
    /\ mounts \subseteq Mounted
    /\ \A m \in mounts : m.snap \in DOMAIN snaps
    /\ \A t \in Threads :
          /\ pc[t] \in Labels
          /\ req[t] = NoReq \/ req[t] \in Requests[t]
          /\ pc[t] = "idle" <=> req[t] = NoReq
          /\ dir[t] = Gone \/ dir[t] \in DOMAIN snaps

\* Whatever the calls, their interleaving and the crashes: the parent of
\* every snapshot exists and is committed.  A mount needs the directories
\* of all ancestors, and removeSnapshotsChain, abort and MountUndo remove
\* snapshots that other calls may be building on.
ParentsCommitted == ParentsCommittedIn(snaps)

Acyclic == AcyclicIn(snaps)

\* A snapshot named by a chain ID holds what the chain ID stands for: its
\* parent is the chain without the last layer and its changes are that
\* layer (identity.ChainID, "the result of sequential application of the
\* preceding layers").  Unpack, and every image that shares the layers,
\* reuse a snapshot on the strength of its name alone.
ChainsFaithful ==
    \A n \in DOMAIN snaps :
        n[1] = "chain" =>
            LET c == n[2]
            IN  /\ snaps[n].kind = "committed"
                /\ snaps[n].parent = Chain(SubSeq(c, 1, Len(c) - 1))
                /\ snaps[n].diff = c[Len(c)]

\* An image record is only ever visible with all of its content in the
\* store: a crash or a failure between the writes of Import, Pull or Commit
\* leaves blobs without a record, never a record without blobs.  That is so
\* where nobody calls Create or Update, which record whatever they are given.
ContentComplete == \A r \in DOMAIN images : ContentOf(images[r]) \subseteq blobs

\* Where a thread is while the temporary snapshot or lease n of it is in use.
InUse(n) == CASE n[1] = "extract" -> pc[n[2]] \in {"apply", "commit_layer", "abort_layer"}
              [] n[1] = "lower" -> pc[n[2]] \in {"diff_mounts", "diff_view", "compare",
                                                "clean_upper", "clean_lower"}
              [] n[1] = "upper" -> pc[n[2]] \in {"compare", "clean_upper"}
              [] n[1] = "lease" -> pc[n[2]] # "idle"

\* Extraction snapshots, views of a diff and leases of a call belong to a call
\* that is still at the part that uses them.  They stay behind in two cases
\* only, those that advance serial: the process crashed, or the call tried to
\* remove them and that failed (Lose).  No path through a call, error paths
\* included, forgets them.  Nothing would ever collect them, and a snapshot
\* would keep its ancestors from being removed.
NoLeftovers ==
    \A n \in DOMAIN snaps \cup leases :
        n[1] \in TempKinds => n[3] < serial[<<n[1], n[2]>>] \/ InUse(n)

-----------------------------------------------------------------------------
(* What a call that returns without error has achieved, if no other thread *)
(* interferes.                                                             *)

Succeeded(t, op) == At(t, "return") /\ req[t].op = op /\ ~ loc[t].err

\* Commit: the image is there, and its snapshots are, down to the last.
CommitDurable ==
    \A t \in Threads :
        Succeeded(t, "commit") =>
            /\ req[t].ref \in DOMAIN images
            /\ LET c == images[req[t].ref]
               IN  \A i \in 1..Len(c) : IsCommitted(snaps, Chain(SubSeq(c, 1, i)))

\* Mount: the target shows the snapshot of that key, and its lease is held.
MountBacked ==
    \A t \in Threads :
        Succeeded(t, "mount") =>
            /\ req[t].name \in leases
            /\ req[t].name \in DOMAIN snaps
            /\ \E m \in mounts : m.target = req[t].target /\ m.snap = req[t].name

\* Umount: nothing is mounted on the target; with removal, the lease of the
\* key is gone and so is its snapshot, unless snapshots are built on it.
UmountComplete ==
    \A t \in Threads :
        Succeeded(t, "umount") =>
            /\ \A m \in mounts : m.target # req[t].target
            /\ req[t].rm # 0 => /\ req[t].name \notin leases
                                /\ RemoveResult(snaps, req[t].name) # "ok"

\* SingleImportFile: "Only keeping first one" of the images of the archive,
\* under its name and, if that was asked for and nothing failed, unpacked.
SingleImportKeeps ==
    \A t \in Threads :
        Succeeded(t, "single") =>
            LET archive == req[t].archive
            IN  /\ archive[1].ref \in DOMAIN images
                /\ images[archive[1].ref] = archive[1].chain
                /\ \A i \in 2..Len(archive) : archive[i].ref \notin DOMAIN images
                /\ req[t].unpack /\ ~ Faults => Chain(archive[1].chain) \in DOMAIN snaps

\* The steps on the way of Mount, Commit and Umount lose nobody's work: an
\* active snapshot a caller made only goes away because a call names its
\* key: Commit turns it into a committed one with the same contents, Umount
\* removes it, or a Mount of it failed.
ActiveKept ==
    [][\A n \in DOMAIN snaps :
          n[1] = "key" /\ snaps[n].kind = "active" =>
              \/ n \in DOMAIN snaps' /\ snaps[n].diff \subseteq snaps'[n].diff
              \/ \E t \in Threads :
                    /\ req[t] # NoReq
                    /\ req[t].op \in {"mount", "umount", "commit"}
                    /\ req[t].name = n
                    /\ req[t].op = "mount" => pc[t] = "mount_undo"
                    /\ req[t].op = "commit" =>
                          \E c \in DOMAIN snaps' \ DOMAIN snaps :
                              snaps'[c] = [snaps[n] EXCEPT !.kind = "committed",
                                                           !.label = NoRef]]_vars

\* bolt.go: "The resulting snapshot will be committed and readonly".
CommittedImmutable ==
    [][\A n \in DOMAIN snaps \cap DOMAIN snaps' :
          IsCommitted(snaps, n) => snaps'[n].diff = snaps[n].diff]_vars

\* The store uses its snapshotter as SnapshotTree promises it works.
BoundedChains == UNION {[1..n -> Layers] : n \in 1..MaxLayers}
BoundedNames  == ({"key"} \X Keys) \cup ({"chain"} \X BoundedChains)
                 \cup (TempKinds \X Threads \X (0..MaxLosses))
Tree == INSTANCE SnapshotTree WITH
            Names <- BoundedNames, Labels <- Refs, NoLabel <- NoRef
TreeSpec == Tree!Spec

\* Calls that only add to the store do not get in each other's way: with no
\* removal and no I/O error each of them does what it was called for, however
\* they interleave.  Import is one of them only while nobody else stores its
\* names: it fails, and returns no image and no error, if another call creates
\* a record between its Update and its Create.
NoSpuriousFailure == \A t \in Threads : At(t, "return") => ~ loc[t].err

\* cmd/delete.go: "Deletes the given image".  The snapshots of another image
\* are its own: an unpacked image stays so while nobody deletes it.
DeleteSparesOthers ==
    [][\A r \in DOMAIN images \cap DOMAIN images' :
          images'[r] = images[r] /\ Chain(images[r]) \in DOMAIN snaps =>
              \/ Chain(images[r]) \in DOMAIN snaps'
              \/ \E t \in Threads : req[t] # NoReq /\ req[t].op = "delete" /\ req[t].ref = r
      ]_vars

\* lease.go: "Lease retains resources to prevent cleanup before the resources
\* can be fully referenced": as long as its snapshot is there, a Mount that
\* succeeded has its lease.
MountLeased ==
    \A t \in Threads :
        Succeeded(t, "mount") /\ req[t].name \in DOMAIN snaps => req[t].name \in leases

\* Every call returns, or its process ends.
CallsReturn == \A t \in Threads : pc[t] # "idle" ~> pc[t] = "idle"
=============================================================================
