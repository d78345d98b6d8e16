----------------------------- MODULE RunContract -----------------------------
(***************************************************************************)
(* What a workflow run promises to whoever calls it, with workers, queues, *)
(* approvals and transactions left out: when a task may start, when one    *)
(* may be given up without being tried, what is kept from one call to the  *)
(* next and what a later call may do with it.  WorkflowRun implements it.  *)
(***************************************************************************)
EXTENDS Naturals, FiniteSets

CONSTANTS
  Tasks, \* the tasks of the run
  Deps,  \* what each task waits for; ids outside Tasks never succeed
  Limit  \* how many tasks may be active at once

VARIABLES
  open,   \* a call is in progress
  status, \* each task in that call
  kept    \* each task as later calls will find it

vars == <<open, status, kept>>

Ended == {"ok", "failed"}
StatusOK ==
  /\ open \in BOOLEAN
  /\ status \in [Tasks -> {"waiting", "active"} \cup Ended]
  /\ kept \in [Tasks -> {"waiting"} \cup Ended]

Having(s) == {t \in Tasks : status[t] = s}

Init ==
  /\ open = FALSE
  /\ status = [t \in Tasks |-> "waiting"]
  /\ kept = [t \in Tasks |-> "waiting"]

\* A call starts from what was kept, or retries what failed, or retries all.
Open ==
  /\ ~open
  /\ open' = TRUE
  /\ \E retried \in SUBSET Ended :
       /\ "ok" \in retried => "failed" \in retried
       /\ status' = [t \in Tasks |-> IF kept[t] \in retried THEN "waiting" ELSE kept[t]]
  /\ UNCHANGED kept

\* Waiting tasks start once everything they wait for is ok.
Start ==
  /\ open
  /\ \E B \in SUBSET Having("waiting") :
       /\ B # {}
       /\ \A t \in B : Deps[t] \subseteq Having("ok")
       /\ Cardinality(B \cup Having("active")) <= Limit
       /\ status' = [t \in Tasks |-> IF t \in B THEN "active" ELSE status[t]]
  /\ UNCHANGED <<open, kept>>

\* An active task ends, or is dropped because its call cannot go on.
Finish(t) ==
  /\ open
  /\ status[t] = "active"
  /\ \E s \in {"ok", "failed", "waiting"} : status' = [status EXCEPT ![t] = s]
  /\ UNCHANGED <<open, kept>>

\* S can never be ok: each member waits for a failure, for nothing known or
\* for another member.
Hopeless(S) ==
  \A t \in S : \E d \in Deps[t] : d \in S \cup Having("failed") \/ d \notin Tasks

\* Hopeless tasks are failed without being tried, while nothing is active.
Skip ==
  /\ open
  /\ Having("active") = {}
  /\ \E S \in SUBSET Having("waiting") :
       /\ Hopeless(S)
       /\ \E F \in SUBSET S :
            status' = [t \in Tasks |-> IF t \in F THEN "failed" ELSE status[t]]
  /\ UNCHANGED <<open, kept>>

\* Once every task has ended, the outcomes are kept, one by one; the call may
\* end with the last of them.
Keep(t) ==
  /\ open
  /\ \A u \in Tasks : status[u] \in Ended
  /\ kept' = [kept EXCEPT ![t] = status[t]]
  /\ open' \in BOOLEAN
  /\ UNCHANGED status

\* A call that breaks off leaves no task active.
BreakOff ==
  /\ open
  /\ open' = FALSE
  /\ status' = [t \in Tasks |-> IF status[t] = "active" THEN "waiting" ELSE status[t]]
  /\ UNCHANGED kept

Next ==
  \/ Open \/ Start \/ Skip \/ BreakOff
  \/ \E t \in Tasks : Finish(t) \/ Keep(t)

Spec == Init /\ [][Next]_vars
=============================================================================
