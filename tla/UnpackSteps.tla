---------------------------- MODULE UnpackSteps ----------------------------
(***************************************************************************)
(* Unpacking an image: one committed snapshot per layer, named by the      *)
(* chain of layers up to it.  The layers are extracted one after the other *)
(* into a snapshot with a unique key, which is then committed under the    *)
(* chain ID; whoever loses the race for a chain ID drops its own copy.     *)
(* The part starts at "unpack" with loc.chain set and goes to loc.next.    *)
(***************************************************************************)
EXTENDS StoreState

Extract(t) == Temp("extract", t)

\* Chain IDs of the layers below the current one, and up to it.
Below(t) == Chain(SubSeq(loc[t].chain, 1, loc[t].i - 1))
UpTo(t)  == Chain(SubSeq(loc[t].chain, 1, loc[t].i))

\* img.IsUnpacked: only the last chain ID is looked up.
CheckUnpacked(t) ==
    /\ At(t, "unpack")
    /\ \/ /\ Readable(loc[t].chain)
          /\ Chain(loc[t].chain) \in DOMAIN snaps
          /\ Continue(t)
       \/ /\ Readable(loc[t].chain)
          /\ Chain(loc[t].chain) \notin DOMAIN snaps
          /\ Goto(t, "extract")
          /\ loc' = [loc EXCEPT ![t].i = 1]
       \/ /\ ~ Readable(loc[t].chain)
          /\ EndPart(t, TRUE)
    /\ UNCHANGED <<store, serial, req, dir>>

NextLayer(t) ==
    IF loc[t].i = Len(loc[t].chain)
    THEN Continue(t)
    ELSE Goto(t, "extract") /\ loc' = [loc EXCEPT ![t].i = @ + 1]

\* sn.Prepare of the extraction snapshot on the chain below the layer.
PrepareLayer(t) ==
    LET result == CreateResult(snaps, Extract(t), Below(t))
    IN  /\ At(t, "extract")
        /\ \/ /\ result = "ok"
              /\ snaps' = Created(snaps, "active", Extract(t), Below(t), NoRef)
              /\ Goto(t, "apply")
              /\ UNCHANGED loc
           \/ /\ result # "ok"
              /\ EndPart(t, TRUE)
              /\ UNCHANGED snaps
        /\ UNCHANGED <<images, leases, blobs, mounts, serial, req, dir>>

\* A faulty ApplyLayer, which goes on after a failed extraction.
ApplyLayerUnchecked(t) ==
    /\ At(t, "apply")
    /\ \/ snaps' = Written(snaps, Extract(t), loc[t].chain[loc[t].i])
       \/ /\ Faults \/ Layer(loc[t].chain[loc[t].i]) \notin blobs
          /\ UNCHANGED snaps
    /\ Goto(t, "commit_layer")
    /\ UNCHANGED <<images, leases, blobs, mounts, serial, req, loc, dir>>

\* a.Apply extracts the layer, or fails part of the way.
ApplyLayer(t) ==
    /\ At(t, "apply")
    /\ \/ /\ Layer(loc[t].chain[loc[t].i]) \in blobs
          /\ snaps' = Written(snaps, Extract(t), loc[t].chain[loc[t].i])
          /\ Goto(t, "commit_layer")
          /\ UNCHANGED loc
       \/ /\ Faults \/ Layer(loc[t].chain[loc[t].i]) \notin blobs
          /\ Goto(t, "abort_layer")
          /\ loc' = [loc EXCEPT ![t].err = TRUE]
          /\ UNCHANGED snaps
    /\ UNCHANGED <<images, leases, blobs, mounts, serial, req, dir>>

\* A faulty CommitLayer, which fails if the chain ID is taken.
CommitLayerStrict(t) ==
    LET result == CommitResult(snaps, Extract(t), UpTo(t))
    IN  /\ At(t, "commit_layer")
        /\ \/ /\ result = "ok"
              /\ CommitSnapshot(Extract(t), UpTo(t))
              /\ NextLayer(t)
           \/ /\ result # "ok"
              /\ Goto(t, "abort_layer")
              /\ loc' = [loc EXCEPT ![t].err = TRUE]
              /\ UNCHANGED <<snaps, mounts, dir>>
        /\ UNCHANGED <<images, leases, blobs, serial, req>>

\* sn.Commit under the chain ID.  AlreadyExists: another call extracted the
\* layer meanwhile (or it was there all along), which is as good.
CommitLayer(t) ==
    LET result == CommitResult(snaps, Extract(t), UpTo(t))
    IN  /\ At(t, "commit_layer")
        /\ \/ /\ result = "ok"
              /\ CommitSnapshot(Extract(t), UpTo(t))
              /\ NextLayer(t)
           \/ /\ result # "ok"
              /\ Goto(t, "abort_layer")
              /\ loc' = [loc EXCEPT ![t].err = result # "exists"]
              /\ UNCHANGED <<snaps, mounts, dir>>
        /\ UNCHANGED <<images, leases, blobs, serial, req>>

\* A faulty AbortLayer, which leaves the extraction snapshot.
AbortLayerKeeps(t) ==
    /\ At(t, "abort_layer")
    /\ IF loc[t].err THEN EndPart(t, TRUE) ELSE NextLayer(t)
    /\ UNCHANGED <<store, serial, req, dir>>

\* abort removes the extraction snapshot, or logs that it cannot; then the call
\* fails or goes on.
AbortLayer(t) ==
    /\ At(t, "abort_layer")
    /\ \/ RemoveSnapshot(Extract(t)) /\ UNCHANGED serial
       \/ Lose("extract", t) /\ UNCHANGED <<snaps, mounts, dir>>
    /\ IF loc[t].err THEN EndPart(t, TRUE) ELSE NextLayer(t)
    /\ UNCHANGED <<images, leases, blobs, req>>

UnpackStep(t) ==
    \/ CheckUnpacked(t)
    \/ PrepareLayer(t)
    \/ ApplyLayer(t)
    \/ CommitLayer(t)
    \/ AbortLayer(t)
=============================================================================
