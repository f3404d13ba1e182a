----------------------------- MODULE MCStoreLock -----------------------------
(***************************************************************************)
(* Instances of StoreLock for TLC.                                         *)
(***************************************************************************)
EXTENDS StoreLock, TLC

CONSTANTS i1, i2, i3, p1, p2, p3

\* Commands: one process for each call of Init.
Commands == i1 :> p1 @@ i2 :> p2 @@ i3 :> p3
=============================================================================
