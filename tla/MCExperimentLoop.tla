-------------------------- MODULE MCExperimentLoop --------------------------
(* Small instances of ExperimentLoop. *)
EXTENDS ExperimentLoop, TLC

Symmetry == Permutations(Ticks) \cup Permutations(Commands) \cup Permutations(Feedback)
=============================================================================
