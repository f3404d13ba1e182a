-------------------------- MODULE MCContentIngest --------------------------
(***************************************************************************)
(* Instances of ContentIngest for TLC.  A scenario is the writes that      *)
(* callers may make and what may fail; a behaviour is one scenario's.      *)
(***************************************************************************)
EXTENDS ContentIngest

CONSTANTS t1, t2, idx, l1, l2, p, q,
          Scenarios  \* [writes : SUBSET Writes, copies, opens : BOOLEAN],
                     \* whether copies and opening transactions may fail

VARIABLE scenario

ArchiveBlob(r, d) == [ref |-> r, data |-> d, named |-> FALSE]
NamedBlob(r, d)   == [ref |-> r, data |-> d, named |-> TRUE]

\* Every archive has its own index.json, under the reference "tar-index.json".
Indexes ==
    [writes |-> {ArchiveBlob(idx, <<p, q>>), ArchiveBlob(idx, <<q>>),
                 NamedBlob(l2, <<p, q>>)},
     copies |-> FALSE, opens |-> FALSE]

\* The same layer out of an archive and from Commit, under two references.
Layers ==
    [writes |-> {ArchiveBlob(l1, <<p, q>>), NamedBlob(l2, <<p, q>>)},
     copies |-> TRUE, opens |-> FALSE]

\* The transaction that opens the ingest may fail with the reference locked.
Leaking == [Layers EXCEPT !.opens = TRUE]

Mixed   == {Indexes, Layers, Leaking}
Shorter == {[Indexes EXCEPT !.writes = {w \in @ : ~ w.named}]}

AllWrites == UNION {s.writes : s \in Scenarios}

MCInit == Init /\ scenario \in Scenarios

MCNext ==
    /\ Next
    /\ \A t \in Threads : req'[t] \in scenario.writes \cup {NoWrite}
    /\ scenario.copies \/ \A t \in Threads : ~ CopyFails(t)
    /\ scenario.opens \/ \A t \in Threads : ~ (At(t, "open") /\ pc'[t] = "failed")
    /\ UNCHANGED scenario

MCSpec == MCInit /\ [][MCNext]_<<vars, scenario>>

MCFairSpec == MCSpec /\ \A t \in Threads : SF_vars(Step(t))

\* "If the writer is already in use, an error is returned": unless opening
\* fails, a reference is locked only while a writer uses it.
LocksFreed == ~ scenario.opens => LocksInUse

\* Unless opening fails, every write ends, those that wait for a reference
\* included.
WritesFinish ==
    \A t \in Threads : pc[t] # "idle" /\ ~ scenario.opens ~> pc[t] = "idle"
=============================================================================
