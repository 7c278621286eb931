------------------------------ MODULE MCEngine ------------------------------
(* Model checking of Engine on small sets.                                 *)
EXTENDS Engine, TLC

\* Replicas, writes, snapshot names and tasks are interchangeable.
Symmetry == Permutations(Replica) \cup Permutations(Write) \cup Permutations(Snap)
=============================================================================
