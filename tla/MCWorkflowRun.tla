---------------------------- MODULE MCWorkflowRun ----------------------------
(* Task lists for model-checking WorkflowRun. *)
EXTENDS WorkflowRun

\* A join listed before the tasks it waits for, a free task, and a task that waits
\* for the join and, in vain, for itself.
JoinDeps == <<{2, 3}, {}, {}, {}, {1, 5}>>

\* A chain listed backwards: one pass over the list fails only its last link.
BackwardChain == <<{2}, {3}, {}>>

NoDeps == [t \in Tasks |-> {}]
=============================================================================
