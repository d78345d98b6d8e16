-------------------------- MODULE MCConfigVersions --------------------------
(* Small instances of ConfigVersions. *)
EXTENDS ConfigVersions, TLC

Symmetry == Permutations(Creations) \cup Permutations(Restores)
=============================================================================
