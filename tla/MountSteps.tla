----------------------------- MODULE MountSteps -----------------------------
(***************************************************************************)
(* Mount and Umount (mount.go), with MountFromScratch as the Mount of no   *)
(* image.  The lease of a mounted snapshot has the snapshot key as its ID. *)
(***************************************************************************)
EXTENDS StoreState

Scratch(t) == req[t].ref = NoRef

\* The caller has the image object (cs.Get), whose layers never change.
MountStart(t) ==
    \E r \in Requests[t] :
        /\ r.op = "mount"
        /\ r.ref = NoRef \/ r.ref \in DOMAIN images
        /\ Start(t, r, "mount_lease")
        /\ loc' = [loc EXCEPT ![t].chain =
                     IF r.ref = NoRef THEN << >> ELSE images[r.ref]]
        /\ UNCHANGED <<store, serial, dir>>

\* WithLease(WithID(key)): a lease that exists is left to its owner.
MountLease(t) ==
    /\ At(t, "mount_lease")
    /\ leases' = leases \cup {req[t].name}
    /\ Goto(t, IF req[t].unpack THEN "unpack" ELSE "mount_create")
    /\ loc' = [loc EXCEPT ![t] = [@ EXCEPT !.owns = req[t].name \notin leases,
                                           !.next = "mount_create"]]
    /\ UNCHANGED <<snaps, images, blobs, mounts, serial, req, dir>>

\* sn.View or sn.Prepare on the chain of the image, which img.RootFS gives.
MountCreate(t) ==
    LET kind   == IF req[t].ro THEN "view" ELSE "active"
        parent == Chain(loc[t].chain)
        result == CreateResult(snaps, req[t].name, parent)
        found  == Scratch(t) \/ Readable(loc[t].chain)
    IN  /\ At(t, "mount_create")
        /\ \/ /\ found /\ result = "ok"
              /\ snaps' = Created(snaps, kind, req[t].name, parent, req[t].ref)
              /\ dir' = [dir EXCEPT ![t] = req[t].name]
              /\ Goto(t, "mount_all")
           \/ /\ found /\ result = "exists"
              /\ Goto(t, "mount_existing")
              /\ UNCHANGED <<snaps, dir>>
           \/ /\ ~ found \/ result \notin {"ok", "exists"}
              /\ Goto(t, "mount_failed")
              /\ UNCHANGED <<snaps, dir>>
        /\ UNCHANGED <<images, leases, blobs, mounts, serial, req, loc>>

\* AlreadyExists: sn.Mounts of whatever snapshot has the key.
MountExisting(t) ==
    /\ At(t, "mount_existing")
    /\ \/ /\ MountsResult(snaps, req[t].name) = "ok"
          /\ dir' = [dir EXCEPT ![t] = req[t].name]
          /\ Goto(t, "mount_all")
       \/ /\ MountsResult(snaps, req[t].name) # "ok"
          /\ Goto(t, "mount_failed")
          /\ UNCHANGED dir
    /\ UNCHANGED <<store, serial, req, loc>>

\* A faulty MountAll, whose error is shadowed and lost.
MountAllUnchecked(t) ==
    /\ At(t, "mount_all")
    /\ \/ /\ dir[t] # Gone
          /\ mounts' = mounts \cup {[target |-> req[t].target, snap |-> dir[t],
                                     rw |-> snaps[dir[t]].kind # "view"]}
       \/ (Faults \/ dir[t] = Gone) /\ UNCHANGED mounts
    /\ Finish(t, FALSE)
    /\ UNCHANGED <<snaps, images, leases, blobs, serial, req, dir>>

\* mount.All: fails if the directories are gone.
MountAll(t) ==
    /\ At(t, "mount_all")
    /\ \/ /\ dir[t] # Gone
          /\ mounts' = mounts \cup {[target |-> req[t].target, snap |-> dir[t],
                                     rw |-> snaps[dir[t]].kind # "view"]}
          /\ Finish(t, FALSE)
       \/ /\ Faults \/ dir[t] = Gone
          /\ Goto(t, "mount_undo")
          /\ UNCHANGED <<mounts, loc>>
    /\ UNCHANGED <<snaps, images, leases, blobs, serial, req, dir>>

\* The snapshot is removed, whether this call created it or not, if it can be.
MountUndo(t) ==
    /\ At(t, "mount_undo")
    /\ \/ /\ RemoveResult(snaps, req[t].name) = "ok"
          /\ RemoveSnapshot(req[t].name)
       \/ /\ Faults \/ RemoveResult(snaps, req[t].name) # "ok"
          /\ UNCHANGED <<snaps, mounts, dir>>
    /\ Goto(t, "mount_failed")
    /\ UNCHANGED <<images, leases, blobs, serial, req, loc>>

\* The error is logged with img.Name().
MountFailed(t) ==
    /\ At(t, "mount_failed")
    /\ ~ Scratch(t)
    /\ Finish(t, TRUE)
    /\ UNCHANGED <<store, serial, req, dir>>

-----------------------------------------------------------------------------

\* mount.UnmountAll(target) comes first; the key plays no part in it.
UmountStart(t) ==
    \E r \in Requests[t] :
        /\ r.op = "umount"
        /\ \/ /\ Start(t, r, IF r.rm = 0 THEN "return" ELSE "umount_lease")
              /\ mounts' = {m \in mounts : m.target # r.target}
              /\ UNCHANGED loc
           \/ /\ Faults
              /\ Start(t, r, "return")
              /\ loc' = [loc EXCEPT ![t].err = TRUE]
              /\ UNCHANGED mounts
        /\ UNCHANGED <<snaps, images, leases, blobs, serial, dir>>

UmountLease(t) ==
    /\ At(t, "umount_lease")
    /\ TakeLease(t)
    /\ Goto(t, "umount_unlease")
    /\ UNCHANGED <<snaps, images, blobs, mounts, serial, req, loc, dir>>

\* A faulty UmountUnlease, which leaves the lease to its expiration.
UmountUnleaseNot(t) ==
    /\ At(t, "umount_unlease")
    /\ Goto(t, "walk")
    /\ loc' = [loc EXCEPT ![t] =
                 [@ EXCEPT !.cur = req[t].name,
                           !.depth = IF req[t].rm > 0 THEN req[t].rm - 1 ELSE -1]]
    /\ UNCHANGED <<store, serial, req, dir>>

\* A faulty UmountUnlease, which counts the steps up the chain only.
UmountUnleaseDeep(t) ==
    /\ At(t, "umount_unlease")
    /\ leases' = leases \ {req[t].name}
    /\ Goto(t, "walk")
    /\ loc' = [loc EXCEPT ![t] = [@ EXCEPT !.cur = req[t].name, !.depth = req[t].rm]]
    /\ UNCHANGED <<snaps, images, blobs, mounts, serial, req, dir>>

\* The lease of the key is deleted; then rm snapshots of the chain are
\* removed, or as many as possible if rm is negative.
UmountUnlease(t) ==
    /\ At(t, "umount_unlease")
    /\ \/ /\ leases' = leases \ {req[t].name}
          /\ Goto(t, "walk")
          /\ loc' = [loc EXCEPT ![t] =
                       [@ EXCEPT !.cur = req[t].name,
                                 !.depth = IF req[t].rm > 0 THEN req[t].rm - 1 ELSE -1]]
       \/ /\ Faults
          /\ Finish(t, TRUE)
          /\ UNCHANGED leases
    /\ UNCHANGED <<snaps, images, blobs, mounts, serial, req, dir>>

MountStep(t) ==
    \/ MountLease(t)
    \/ MountCreate(t)
    \/ MountExisting(t)
    \/ MountAll(t)
    \/ MountUndo(t)
    \/ MountFailed(t)
    \/ UmountLease(t)
    \/ UmountUnlease(t)
=============================================================================
