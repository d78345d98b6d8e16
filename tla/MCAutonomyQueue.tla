-------------------------- MODULE MCAutonomyQueue --------------------------
(* Small instances of AutonomyQueue. *)
EXTENDS AutonomyQueue, TLC

Symmetry == Permutations(Workers)
=============================================================================
