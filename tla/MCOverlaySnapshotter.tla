----------------------- MODULE MCOverlaySnapshotter -----------------------
(***************************************************************************)
(* Instances of OverlaySnapshotter for TLC.  A scenario is the threads     *)
(* that make calls, whether transactions may fail, and how often the       *)
(* process may crash; a behaviour is one scenario's.                       *)
(***************************************************************************)
EXTENDS OverlaySnapshotter

CONSTANTS t1, t2, n1, n2, n3, x,
          Scenarios  \* [threads : SUBSET Threads, faults : BOOLEAN, crashes : Nat]

VARIABLE scenario

Pair  == [threads |-> {t1, t2}, faults |-> FALSE, crashes |-> 0]
Alone == [threads |-> {t1}, faults |-> TRUE, crashes |-> 2]

\* What the driver holds, and the case that it does not.
Covered == {Pair, Alone}
Late    == {[Pair EXCEPT !.crashes = 1]}

MCInit == Init /\ scenario \in Scenarios

MCNext ==
    /\ Next
    /\ \A t \in Threads \ scenario.threads : pc'[t] = "idle"
    /\ scenario.faults \/ \A t \in Threads : ~ (At(t, "commit") /\ pc'[t] = "remove")
    /\ crashes' <= scenario.crashes
    /\ UNCHANGED scenario

MCSpec == MCInit /\ [][MCNext]_<<vars, scenario>>
=============================================================================
