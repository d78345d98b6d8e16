--------------------------- MODULE ActionContract ---------------------------
(***************************************************************************)
(* What AutoActionQueue promises about the life of an action when one      *)
(* worker processes the queue: pending, running, ended, recorded, each     *)
(* once, and in the order of creation if nobody asks for actions by id.    *)
(* An action whose worker breaks off stays where it is.                    *)
(***************************************************************************)
EXTENDS Naturals

CONSTANTS NumActions, fifo
VARIABLES
  state,   \* of each action; "none" before it is created
  recorded \* actions with an audit record

vars == <<state, recorded>>

Actions == 1..NumActions
Ended == {"succeeded", "failed"}
Becomes(a, s) == state' = [state EXCEPT ![a] = s]

Init == state = [a \in Actions |-> "none"] /\ recorded = {}

Create(a) ==
  /\ state[a] = "none"
  /\ Becomes(a, "pending")
  /\ UNCHANGED recorded

Take(a) ==
  /\ state[a] = "pending"
  /\ fifo => \A b \in 1..(a - 1) : state[b] # "pending"
  /\ Becomes(a, "running")
  /\ UNCHANGED recorded

End(a) ==
  /\ state[a] = "running"
  /\ \E s \in Ended : Becomes(a, s)
  /\ UNCHANGED recorded

Record(a) ==
  /\ state[a] \in Ended
  /\ a \notin recorded
  /\ recorded' = recorded \cup {a}
  /\ UNCHANGED state

Next == \E a \in Actions : Create(a) \/ Take(a) \/ End(a) \/ Record(a)

Spec == Init /\ [][Next]_vars
=============================================================================
