-------------------------- MODULE MCSnapshotStore --------------------------
(* Model-checking instance of SnapshotStore: processes are interchangeable. *)
EXTENDS SnapshotStore, TLC

Symmetry == Permutations(Process)
=============================================================================
