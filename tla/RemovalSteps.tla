---------------------------- MODULE RemovalSteps ----------------------------
(***************************************************************************)
(* removeSnapshotsChain (snapshots.go): removes a snapshot and then its    *)
(* ancestors, up to depth of them or all if depth is negative, and stops   *)
(* in silence at a snapshot that is gone or still has a child.  The part   *)
(* starts at "walk" with loc.cur and loc.depth set and goes to loc.next.   *)
(***************************************************************************)
EXTENDS StoreState

\* s.Stat: the parent is read in a transaction of its own.
StatLink(t) ==
    /\ At(t, "walk")
    /\ \/ /\ loc[t].cur \notin DOMAIN snaps
          /\ Continue(t)
       \/ /\ loc[t].cur \in DOMAIN snaps
          /\ Goto(t, "walk_remove")
          /\ loc' = [loc EXCEPT ![t].par = snaps[loc[t].cur].parent]
    /\ UNCHANGED <<store, serial, req, dir>>

\* The step to the parent, unless the chain or the levels are exhausted.
Climb(t) ==
    IF loc[t].par = NoParent \/ loc[t].depth = 0
    THEN Continue(t)
    ELSE /\ Goto(t, "walk")
         /\ loc' = [loc EXCEPT ![t] =
                      [@ EXCEPT !.cur = loc[t].par,
                                !.depth = IF loc[t].depth > 0 THEN loc[t].depth - 1
                                          ELSE loc[t].depth]]

\* A faulty RemoveLink, which waits for the children to go.
RemoveLinkRetries(t) ==
    LET result == RemoveResult(snaps, loc[t].cur)
    IN  /\ At(t, "walk_remove")
        /\ \/ /\ result = "ok"
              /\ RemoveSnapshot(loc[t].cur)
              /\ Climb(t)
           \/ /\ result = "failed_precondition"
              /\ Goto(t, "walk")
              /\ UNCHANGED <<snaps, mounts, dir, loc>>
           \/ /\ result = "not_found"
              /\ EndPart(t, TRUE)
              /\ UNCHANGED <<snaps, mounts, dir>>
        /\ UNCHANGED <<images, leases, blobs, serial, req>>

\* s.Remove: a child is not an error, a missing snapshot is one here.
RemoveLink(t) ==
    LET result == RemoveResult(snaps, loc[t].cur)
    IN  /\ At(t, "walk_remove")
        /\ \/ /\ result = "ok"
              /\ RemoveSnapshot(loc[t].cur)
              /\ Climb(t)
           \/ /\ result = "failed_precondition"
              /\ Continue(t)
              /\ UNCHANGED <<snaps, mounts, dir>>
           \/ /\ Faults \/ result = "not_found"
              /\ EndPart(t, TRUE)
              /\ UNCHANGED <<snaps, mounts, dir>>
        /\ UNCHANGED <<images, leases, blobs, serial, req>>

RemovalStep(t) == StatLink(t) \/ RemoveLink(t)
=============================================================================
