---------------------------- MODULE MCCoordinator ----------------------------
(* Coordinator with the symmetries of its model values. *)
EXTENDS Coordinator, TLC

Symmetry == Permutations(Sandboxes) \cup Permutations(Workers)
=============================================================================
