--------------------------- MODULE MCTaskOwnership ---------------------------
(* TaskOwnership with interchangeable tasks and instances. *)
EXTENDS TaskOwnership, TLC

Symmetry == Permutations(Tasks) \cup Permutations(Instances)
=============================================================================
