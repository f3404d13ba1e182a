--------------------------- MODULE MCSnapshotTree ---------------------------
(* Instance of SnapshotTree for TLC: four names, so that a chain of three  *)
(* with a sibling exists.                                                  *)
EXTENDS SnapshotTree, TLC

CONSTANTS n1, n2, n3, n4

NameSymmetry == Permutations({n1, n2, n3, n4})
=============================================================================
