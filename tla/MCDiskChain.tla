---------------------------- MODULE MCDiskChain ----------------------------
(* Symmetry of the constants of DiskChain for TLC.                          *)
EXTENDS DiskChain, TLC

Symmetry == Permutations(Snap) \cup Permutations(Val) \cup Permutations(Block)
=============================================================================
