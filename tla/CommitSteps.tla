---------------------------- MODULE CommitSteps ----------------------------
(***************************************************************************)
(* Commit (commit.go): the changes of a snapshot become a layer, the       *)
(* snapshot itself the unpacked top of a new image.  The layers below are  *)
(* those of the image whose name the snapshot's label gives, as that name  *)
(* is resolved during the commit.  The new image record and its unpacking  *)
(* are the common parts "put_update" and "unpack".                         *)
(***************************************************************************)
EXTENDS StoreState

Lower(t) == Temp("lower", t)
Upper(t) == Temp("upper", t)

CommitStart(t) ==
    \E r \in Requests[t] :
        /\ r.op = "commit"
        /\ Start(t, r, "commit")
        /\ TakeLease(t)
        /\ UNCHANGED <<snaps, images, blobs, mounts, serial, loc, dir>>

\* sn.Stat; without an image label the new image has no base.
CommitStat(t) ==
    /\ At(t, "commit")
    /\ \/ /\ req[t].name \notin DOMAIN snaps
          /\ Finish(t, TRUE)
       \/ /\ req[t].name \in DOMAIN snaps
          /\ loc' = [loc EXCEPT ![t].ref = snaps[req[t].name].label]
          /\ Goto(t, IF snaps[req[t].name].label = NoRef THEN "diff" ELSE "commit_base")
    /\ UNCHANGED <<store, serial, req, dir>>

\* cli.GetImage(imgRef), its manifest and its configuration: the layers below the
\* new one.
CommitBase(t) ==
    /\ At(t, "commit_base")
    /\ \/ /\ loc[t].ref \notin DOMAIN images
          /\ Finish(t, TRUE)
       \/ /\ loc[t].ref \in DOMAIN images
          /\ ~ Readable(images[loc[t].ref])
          /\ Finish(t, TRUE)
       \/ /\ loc[t].ref \in DOMAIN images
          /\ Readable(images[loc[t].ref])
          /\ loc' = [loc EXCEPT ![t] = [@ EXCEPT !.chain = images[loc[t].ref],
                                                 !.ref = NoRef]]
          /\ Goto(t, "diff")
    /\ UNCHANGED <<store, serial, req, dir>>

-----------------------------------------------------------------------------
(* rootfs.CreateDiff: the snapshot compared with a view of its parent.     *)

DiffStat(t) ==
    /\ At(t, "diff")
    /\ \/ /\ req[t].name \notin DOMAIN snaps
          /\ Finish(t, TRUE)
       \/ /\ req[t].name \in DOMAIN snaps
          /\ LET info == snaps[req[t].name]
             IN  loc' = [loc EXCEPT ![t] =
                           [@ EXCEPT !.par = info.parent,
                                     !.next = IF info.kind = "active"
                                              THEN "diff_mounts" ELSE "diff_view"]]
          /\ Goto(t, "diff_lower")
    /\ UNCHANGED <<store, serial, req, dir>>

DiffLower(t) ==
    LET result == CreateResult(snaps, Lower(t), loc[t].par)
    IN  /\ At(t, "diff_lower")
        /\ \/ /\ result = "ok"
              /\ snaps' = Created(snaps, "view", Lower(t), loc[t].par, NoRef)
              /\ Continue(t)
           \/ /\ result # "ok"
              /\ Finish(t, TRUE)
              /\ UNCHANGED snaps
        /\ UNCHANGED <<images, leases, blobs, mounts, serial, req, dir>>

\* The deferred removals run on the way out, the last view first.
DiffFail(t) ==
    /\ loc' = [loc EXCEPT ![t].err = TRUE]
    /\ Goto(t, IF Upper(t) \in DOMAIN snaps THEN "clean_upper" ELSE "clean_lower")

\* An active snapshot is compared through its own mounts ...
DiffMounts(t) ==
    /\ At(t, "diff_mounts")
    /\ \/ /\ MountsResult(snaps, req[t].name) = "ok"
          /\ dir' = [dir EXCEPT ![t] = req[t].name]
          /\ Goto(t, "compare")
          /\ UNCHANGED loc
       \/ /\ MountsResult(snaps, req[t].name) # "ok"
          /\ DiffFail(t)
          /\ UNCHANGED dir
    /\ UNCHANGED <<store, serial, req>>

\* ... any other one through a view of it, which a view cannot have.
DiffView(t) ==
    LET result == CreateResult(snaps, Upper(t), req[t].name)
    IN  /\ At(t, "diff_view")
        /\ \/ /\ result = "ok"
              /\ snaps' = Created(snaps, "view", Upper(t), req[t].name, NoRef)
              /\ dir' = [dir EXCEPT ![t] = req[t].name]
              /\ Goto(t, "compare")
              /\ UNCHANGED loc
           \/ /\ result # "ok"
              /\ DiffFail(t)
              /\ UNCHANGED <<snaps, dir>>
        /\ UNCHANGED <<images, leases, blobs, mounts, serial, req>>

\* d.Compare writes the layer of the changes found into the content store.
Compare(t) ==
    /\ At(t, "compare")
    /\ \/ /\ dir[t] # Gone
          /\ loc' = [loc EXCEPT ![t].layer = snaps[dir[t]].diff]
          /\ blobs' = blobs \cup {Layer(snaps[dir[t]].diff)}
          /\ Goto(t, IF Upper(t) \in DOMAIN snaps THEN "clean_upper" ELSE "clean_lower")
       \/ /\ Faults \/ dir[t] = Gone
          /\ DiffFail(t)
          /\ UNCHANGED blobs
    /\ UNCHANGED <<snaps, images, leases, mounts, serial, req, dir>>

\* The deferred removals of the views; their errors are logged.
CleanUpper(t) ==
    /\ At(t, "clean_upper")
    /\ \/ RemoveSnapshot(Upper(t)) /\ UNCHANGED serial
       \/ Lose("upper", t) /\ UNCHANGED <<snaps, mounts, dir>>
    /\ Goto(t, "clean_lower")
    /\ UNCHANGED <<images, leases, blobs, req, loc>>

\* The configuration of the new image lists the layers of the base and the
\* new one (generateCommitImageConfig).
CleanLower(t) ==
    /\ At(t, "clean_lower")
    /\ \/ RemoveSnapshot(Lower(t)) /\ UNCHANGED serial
       \/ Lose("lower", t) /\ UNCHANGED <<snaps, mounts, dir>>
    /\ \/ /\ loc[t].err
          /\ Finish(t, TRUE)
       \/ /\ ~ loc[t].err
          /\ loc' = [loc EXCEPT ![t].chain = Append(@, loc[t].layer)]
          /\ Goto(t, "commit_mounts")
    /\ UNCHANGED <<images, leases, blobs, req>>

-----------------------------------------------------------------------------
(* applyDiffLayer: the layer goes back into the snapshot, which is then    *)
(* committed under the chain ID of the new image.                          *)

CommitMounts(t) ==
    /\ At(t, "commit_mounts")
    /\ \/ /\ MountsResult(snaps, req[t].name) = "ok"
          /\ dir' = [dir EXCEPT ![t] = req[t].name]
          /\ Goto(t, "commit_apply")
          /\ UNCHANGED loc
       \/ /\ MountsResult(snaps, req[t].name) # "ok"
          /\ Finish(t, TRUE)
          /\ UNCHANGED dir
    /\ UNCHANGED <<store, serial, req>>

\* A faulty CommitApply, which loses its error.
CommitApplyForgives(t) ==
    /\ At(t, "commit_apply")
    /\ \/ /\ dir[t] # Gone
          /\ snaps[dir[t]].kind # "view"
          /\ snaps' = Written(snaps, dir[t], loc[t].layer)
          /\ Goto(t, "commit_snapshot")
          /\ UNCHANGED loc
       \/ /\ Faults
          /\ Finish(t, FALSE)
          /\ UNCHANGED snaps
    /\ UNCHANGED <<images, leases, blobs, mounts, serial, req, dir>>

CommitApply(t) ==
    /\ At(t, "commit_apply")
    /\ \/ /\ dir[t] # Gone
          /\ snaps[dir[t]].kind # "view"
          /\ snaps' = Written(snaps, dir[t], loc[t].layer)
          /\ Goto(t, "commit_snapshot")
          /\ UNCHANGED loc
       \/ /\ \/ Faults
             \/ dir[t] = Gone
             \/ dir[t] \in DOMAIN snaps /\ snaps[dir[t]].kind = "view"
          /\ Finish(t, TRUE)
          /\ UNCHANGED snaps
    /\ UNCHANGED <<images, leases, blobs, mounts, serial, req, dir>>

\* AlreadyExists is no error: the image uses the snapshot that is there.
CommitActive(t) ==
    LET chainID == Chain(loc[t].chain)
        result  == CommitResult(snaps, req[t].name, chainID)
    IN  /\ At(t, "commit_snapshot")
        /\ \/ /\ result = "ok"
              /\ CommitSnapshot(req[t].name, chainID)
              /\ Goto(t, "commit_manifest")
              /\ UNCHANGED loc
           \/ /\ result = "exists"
              /\ Goto(t, "commit_manifest")
              /\ UNCHANGED <<snaps, mounts, dir, loc>>
           \/ /\ result \notin {"ok", "exists"}
              /\ Finish(t, TRUE)
              /\ UNCHANGED <<snaps, mounts, dir>>
        /\ UNCHANGED <<images, leases, blobs, serial, req>>

\* writeContentsForImage: the manifest is written before the configuration.
WriteBlob(t, from, blob, to) ==
    /\ At(t, from)
    /\ \/ /\ blobs' = blobs \cup {blob}
          /\ Goto(t, to)
          /\ UNCHANGED loc
       \/ /\ Faults
          /\ Finish(t, TRUE)
          /\ UNCHANGED blobs
    /\ UNCHANGED <<snaps, images, leases, mounts, serial, req, dir>>

CommitManifest(t) ==
    WriteBlob(t, "commit_manifest", Manifest(loc[t].chain), "commit_config")

CommitConfig(t) ==
    WriteBlob(t, "commit_config", Config(loc[t].chain), "put_update")

CommitStep(t) ==
    \/ CommitStat(t)
    \/ CommitBase(t)
    \/ DiffStat(t)
    \/ DiffLower(t)
    \/ DiffMounts(t)
    \/ DiffView(t)
    \/ Compare(t)
    \/ CleanUpper(t)
    \/ CleanLower(t)
    \/ CommitMounts(t)
    \/ CommitApply(t)
    \/ CommitActive(t)
    \/ CommitManifest(t)
    \/ CommitConfig(t)
=============================================================================
