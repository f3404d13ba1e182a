----------------------------- MODULE ImageSteps -----------------------------
(***************************************************************************)
(* The calls on image records: Import, ImportFile, SingleImportFile, Pull, *)
(* Create, Update, Unpack and Delete, and the common part that stores a    *)
(* record, which Commit uses too.                                          *)
(***************************************************************************)
EXTENDS ImportSteps

\* Import and Pull: the lease, then the content, then the records.
FetchStart(t) ==
    \E r \in Requests[t] :
        /\ r.op \in {"import", "single", "pull"}
        /\ Start(t, r, "fetch")
        /\ TakeLease(t)
        /\ loc' = [loc EXCEPT ![t].todo = r.archive]
        /\ UNCHANGED <<snaps, images, blobs, mounts, serial, dir>>

ChainsOf(t) == {loc[t].todo[i].chain : i \in DOMAIN loc[t].todo}

\* A faulty FetchManifest, which does not walk to the children.
FetchManifestOnly(t) ==
    /\ At(t, "fetch")
    /\ blobs' = blobs \cup {Manifest(c) : c \in ChainsOf(t)}
    /\ Goto(t, "put_update")
    /\ UNCHANGED <<snaps, images, leases, mounts, serial, req, loc, dir>>

\* The manifests, which name the other blobs, and then these.
FetchManifest(t) ==
    /\ At(t, "fetch")
    /\ \/ /\ blobs' = blobs \cup {Manifest(c) : c \in ChainsOf(t)}
          /\ Goto(t, "fetch_children")
          /\ UNCHANGED loc
       \/ /\ Faults
          /\ Finish(t, TRUE)
          /\ UNCHANGED blobs
    /\ UNCHANGED <<snaps, images, leases, mounts, serial, req, dir>>

\* A fetch that fails leaves what it has got: of the blobs under a manifest, the
\* configuration tells whether the image can be read.
FetchChildren(t) ==
    /\ At(t, "fetch_children")
    /\ \/ /\ blobs' = blobs \cup UNION {ContentOf(c) : c \in ChainsOf(t)}
          /\ Goto(t, IF req[t].op = "pull" THEN "put_create" ELSE "put_update")
          /\ UNCHANGED loc
       \/ /\ Faults
          /\ \E some \in SUBSET UNION {ContentOf(c) : c \in ChainsOf(t)} : blobs' = blobs \cup some
          /\ Finish(t, TRUE)
    /\ UNCHANGED <<snaps, images, leases, mounts, serial, req, dir>>

\* Create and Update: a name gets the target the caller gives, of which nothing
\* is looked up.
RecordStart(t) ==
    \E r \in Requests[t] :
        /\ r.op \in {"create", "update"}
        /\ Start(t, r, IF r.op = "create" THEN "put_create" ELSE "put_update")
        /\ TakeLease(t)
        /\ loc' = [loc EXCEPT ![t].chain = r.chain]
        /\ UNCHANGED <<snaps, images, blobs, mounts, serial, dir>>

\* The image whose record is being stored.
Image(t) == IF loc[t].todo = << >>
            THEN [ref |-> req[t].ref, chain |-> loc[t].chain]
            ELSE Head(loc[t].todo)

\* The record is stored.  Commit always unpacks, Pull if asked to; an import
\* stores all of its records first.
AfterPut(t) ==
    CASE req[t].op = "commit" -> Goto(t, "unpack") /\ UNCHANGED loc
      [] req[t].op = "pull" -> IF req[t].unpack
                               THEN /\ Goto(t, "unpack")
                                    /\ loc' = [loc EXCEPT ![t] =
                                          [Blank EXCEPT !.chain = Image(t).chain]]
                               ELSE Finish(t, FALSE)
      [] req[t].op \in {"import", "single"} -> AfterImported(t)
      [] req[t].op \in {"create", "update"} -> Finish(t, FALSE)

\* ImageService().Update; NotFound leads to Create, but for Update itself.
PutUpdate(t) ==
    /\ At(t, "put_update")
    /\ \/ /\ Image(t).ref \in DOMAIN images
          /\ images' = [images EXCEPT ![Image(t).ref] = Image(t).chain]
          /\ AfterPut(t)
       \/ /\ Image(t).ref \notin DOMAIN images
          /\ req[t].op # "update"
          /\ Goto(t, "put_create")
          /\ UNCHANGED <<images, loc>>
       \/ /\ Image(t).ref \notin DOMAIN images
          /\ req[t].op = "update"
          /\ Finish(t, TRUE)
          /\ UNCHANGED images
    /\ UNCHANGED <<snaps, leases, blobs, mounts, serial, req, dir>>

\* ImageService().Create; on AlreadyExists Pull goes (back) to Update, the
\* others fail.
PutCreate(t) ==
    /\ At(t, "put_create")
    /\ \/ /\ Image(t).ref \notin DOMAIN images
          /\ images' = Put(images, Image(t).ref, Image(t).chain)
          /\ AfterPut(t)
       \/ /\ Image(t).ref \in DOMAIN images
          /\ req[t].op = "pull"
          /\ Goto(t, "put_update")
          /\ UNCHANGED <<images, loc>>
       \/ /\ Image(t).ref \in DOMAIN images
          /\ req[t].op # "pull"
          /\ Finish(t, TRUE)
          /\ UNCHANGED images
    /\ UNCHANGED <<snaps, leases, blobs, mounts, serial, req, dir>>

-----------------------------------------------------------------------------

\* Unpack: cs.Get, the lease, and the common part.
UnpackStart(t) ==
    \E r \in Requests[t] :
        /\ r.op = "unpack"
        /\ r.ref \in DOMAIN images
        /\ Start(t, r, "unpack")
        /\ TakeLease(t)
        /\ loc' = [loc EXCEPT ![t].chain = images[r.ref]]
        /\ UNCHANGED <<snaps, images, blobs, mounts, serial, dir>>

-----------------------------------------------------------------------------

DeleteStart(t) ==
    \E r \in Requests[t] :
        /\ r.op = "delete"
        /\ Start(t, r, "delete")
        /\ TakeLease(t)
        /\ UNCHANGED <<snaps, images, blobs, mounts, serial, loc, dir>>

DeleteGet(t) ==
    /\ At(t, "delete")
    /\ \/ /\ Image(t).ref \in DOMAIN images
          /\ Goto(t, "delete_check")
          /\ loc' = [loc EXCEPT ![t].chain = images[Image(t).ref]]
       \/ /\ Image(t).ref \notin DOMAIN images
          /\ EndPart(t, TRUE)
    /\ UNCHANGED <<store, serial, req, dir>>

\* An unpacked image loses the snapshots of its chain first.  A record without
\* its content cannot be deleted.
DeleteCheck(t) ==
    /\ At(t, "delete_check")
    /\ \/ /\ Readable(loc[t].chain)
          /\ Chain(loc[t].chain) \in DOMAIN snaps
          /\ Goto(t, "walk")
          /\ loc' = [loc EXCEPT ![t] = [@ EXCEPT !.cur = Chain(loc[t].chain),
                                                 !.depth = -1,
                                                 !.next = "delete_image"]]
       \/ /\ Readable(loc[t].chain)
          /\ Chain(loc[t].chain) \notin DOMAIN snaps
          /\ Goto(t, "delete_image")
          /\ UNCHANGED loc
       \/ /\ ~ Readable(loc[t].chain)
          /\ EndPart(t, TRUE)
    /\ UNCHANGED <<store, serial, req, dir>>

\* The record goes, whatever it has come to name meanwhile.
DeleteImage(t) ==
    /\ At(t, "delete_image")
    /\ \/ /\ Image(t).ref \in DOMAIN images
          /\ images' = Restrict(images, DOMAIN images \ {Image(t).ref})
          /\ EndPart(t, FALSE)
       \/ /\ Image(t).ref \notin DOMAIN images
          /\ EndPart(t, TRUE)
          /\ UNCHANGED images
    /\ UNCHANGED <<snaps, leases, blobs, mounts, serial, req, dir>>

ImageStep(t) ==
    \/ FetchManifest(t)
    \/ FetchChildren(t)
    \/ PutUpdate(t)
    \/ PutCreate(t)
    \/ DeleteGet(t)
    \/ DeleteCheck(t)
    \/ DeleteImage(t)
=============================================================================
