--------------------------- MODULE MCEngineRestart ---------------------------
(* Model checking of EngineRestart on small sets.                          *)
EXTENDS EngineRestart, TLC

\* Replicas, writes and snapshot names are interchangeable.
Symmetry == Permutations(Replica) \cup Permutations(Write) \cup Permutations(Snap)
=============================================================================
