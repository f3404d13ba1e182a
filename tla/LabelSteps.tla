----------------------------- MODULE LabelSteps -----------------------------
(***************************************************************************)
(* The calls on the labels of a snapshot and those that look at snapshots  *)
(* (snapshots.go).  LabelSnapshot and RemoveSnapshotLabels read the labels *)
(* and write them all back; UpdateSnapshot writes the caller's.  Of the    *)
(* labels only the image reference is modelled.                            *)
(***************************************************************************)
EXTENDS StoreState

LabelStart(t) ==
    \E r \in Requests[t] :
        /\ r.op \in {"label", "update_labels"}
        /\ Start(t, r, IF r.op = "label" THEN "label_stat" ELSE "label_write")
        /\ TakeLease(t)
        /\ UNCHANGED <<snaps, images, blobs, mounts, serial, loc, dir>>

\* sn.Stat.
LabelStat(t) ==
    /\ At(t, "label_stat")
    /\ \/ /\ req[t].name \notin DOMAIN snaps
          /\ Finish(t, TRUE)
       \/ /\ req[t].name \in DOMAIN snaps
          /\ loc' = [loc EXCEPT ![t].ref = snaps[req[t].name].label]
          /\ Goto(t, "label_write")
    /\ UNCHANGED <<store, serial, req, dir>>

\* The reference among the labels that are written: the one given, or else
\* the one read, or none if the caller brings all labels.
NewLabels(t) == IF req[t].label # {} THEN req[t].label ELSE {loc[t].ref}

\* A faulty LabelWrite, which writes the new labels only.
LabelWriteReplaces(t) ==
    /\ At(t, "label_write")
    /\ \/ /\ req[t].name \in DOMAIN snaps
          /\ snaps' = Relabelled(snaps, req[t].name, NoRef)
          /\ Finish(t, FALSE)
       \/ /\ req[t].name \notin DOMAIN snaps
          /\ Finish(t, TRUE)
          /\ UNCHANGED snaps
    /\ UNCHANGED <<images, leases, blobs, mounts, serial, req, dir>>

\* A faulty LabelWrite, which makes the snapshot it does not find.
LabelWriteCreates(t) ==
    /\ At(t, "label_write")
    /\ \E label \in NewLabels(t) :
          snaps' = IF req[t].name \in DOMAIN snaps
                   THEN Relabelled(snaps, req[t].name, label)
                   ELSE Created(snaps, "committed", req[t].name, NoParent, label)
    /\ Finish(t, FALSE)
    /\ UNCHANGED <<images, leases, blobs, mounts, serial, req, dir>>

\* sn.Update of all labels.
LabelWrite(t) ==
    /\ At(t, "label_write")
    /\ \/ /\ req[t].name \in DOMAIN snaps
          /\ \E label \in NewLabels(t) : snaps' = Relabelled(snaps, req[t].name, label)
          /\ Finish(t, FALSE)
       \/ /\ req[t].name \notin DOMAIN snaps
          /\ Finish(t, TRUE)
          /\ UNCHANGED snaps
    /\ UNCHANGED <<images, leases, blobs, mounts, serial, req, dir>>

-----------------------------------------------------------------------------

\* ListSnapshots, and GetSnapshot of a name: they leave nothing but take a lease.
LookStart(t) ==
    \E r \in Requests[t] :
        /\ r.op = "look"
        /\ Start(t, r, "look")
        /\ TakeLease(t)
        /\ UNCHANGED <<snaps, images, blobs, mounts, serial, loc, dir>>

\* Walk, which finds no snapshots in a new store, or Stat.
Look(t) ==
    /\ At(t, "look")
    /\ Finish(t, req[t].name \notin DOMAIN snaps \cup {NoParent})
    /\ UNCHANGED <<store, serial, req, dir>>

LabelStep(t) == LabelStat(t) \/ LabelWrite(t) \/ Look(t)
=============================================================================
