-------------------------- MODULE MCImprovementLoop --------------------------
(* Proposals for model-checking ImprovementLoop. *)
EXTENDS ImprovementLoop

\* Two patches that apply themselves, to different slots.
AutoSlots == [p \in Loops |-> IF p = "a" THEN "style" ELSE "output_format"]
AutoOps == [p \in Loops |-> IF p = "a" THEN "replace" ELSE "remove"]

\* One patch for a human and one that applies itself.
GuardedSlots == [p \in Loops |-> IF p = "a" THEN "role" ELSE "style"]
GuardedOps == [p \in Loops |-> "add"]
=============================================================================
