---------------------------- MODULE MCReplicaDir ----------------------------
(* Symmetry of the constants of ReplicaDir for TLC.                          *)
EXTENDS ReplicaDir, TLC

Symmetry == Permutations(Snap) \cup Permutations(Write)
=============================================================================
