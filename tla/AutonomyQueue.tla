---------------------------- MODULE AutonomyQueue ----------------------------
(***************************************************************************)
(* AutoActionQueue: workers (API requests, or callers in other processes)  *)
(* process pending autonomy actions through a handler and leave an audit   *)
(* record.  The action rows, the pause flag and the decision log are in    *)
(* one SQLite file; every store call is a transaction of its own, and      *)
(* update_status is two of them, a read and a write of the whole row.      *)
(* Nothing claims an action: its status is checked before it is written.   *)
(*                                                                         *)
(* Actions are numbered in the order of created_at.                        *)
(***************************************************************************)
EXTENDS Naturals, Sequences

CONSTANTS
  NumActions, \* bound: actions created in a behaviour
  Workers,    \* concurrent invocations of the queue
  Entries,    \* how actions are asked for: "next" (process_next), "id" (process)
  NoRow       \* no row of autonomy_actions, or no row image held

Actions == 1..NumActions
Outcomes == {"succeeded", "failed"}
Statuses == Outcomes \cup {"pending", "running"}
Row == [status : Statuses, result : Outcomes \cup {"none"}]

ASSUME QueueAssumption ==
  /\ NumActions \in Nat
  /\ Entries \subseteq {"next", "id"}
  /\ NoRow \notin Row

VARIABLES
  created, \* number of actions created
  row,     \* autonomy_actions
  paused,  \* autonomy_queue_state.paused
  stage,   \* how far each worker has come
  task,    \* the action it is about; 0 when it has none
  image,   \* the row image an update has read and is about to write back
  runs,    \* history: the handler runs, each with its action, worker and outcome
  audit,   \* decision_log: the handler runs it has a record of
  broken   \* history: actions whose processing broke off after it was admitted

rowVars == <<created, row, paused>>
workerVars == <<stage, task, image>>
logVars == <<runs, audit, broken>>
vars == <<rowVars, workerVars, logVars>>

MarkStages == {"load", "read", "mark"}
EndStages == {"handle", "endread", "end"}
InFlightStages == MarkStages \cup EndStages \cup {"record"}
Stages == {"idle", "pick", "gate"} \cup InFlightStages
Runs == [action : Actions, by : Workers, outcome : Outcomes]

TypeOK ==
  /\ created \in 0..NumActions
  /\ row \in [Actions -> Row \cup {NoRow}]
  /\ paused \in BOOLEAN
  /\ stage \in [Workers -> Stages]
  /\ task \in [Workers -> Actions \cup {0}]
  /\ image \in [Workers -> Row \cup {NoRow}]
  /\ runs \in Seq(Runs)
  /\ audit \subseteq DOMAIN runs
  /\ broken \subseteq Actions

Init ==
  /\ created = 0
  /\ row = [a \in Actions |-> NoRow]
  /\ paused = FALSE
  /\ stage = [w \in Workers |-> "idle"]
  /\ task = [w \in Workers |-> 0]
  /\ image = [w \in Workers |-> NoRow]
  /\ runs = <<>>
  /\ audit = {}
  /\ broken = {}

PendingRow == [status |-> "pending", result |-> "none"]
PendingActions == {a \in Actions : row[a] # NoRow /\ row[a].status = "pending"}

Goes(w, from, to) == stage[w] = from /\ stage' = [stage EXCEPT ![w] = to]
Returns(w) ==
  /\ stage' = [stage EXCEPT ![w] = "idle"]
  /\ task' = [task EXCEPT ![w] = 0]
  /\ image' = [image EXCEPT ![w] = NoRow]

-----------------------------------------------------------------------------
(* Operators and callers *)

\* AutonomyActionStore.create
Create ==
  /\ created < NumActions
  /\ created' = created + 1
  /\ row' = [row EXCEPT ![created + 1] = PendingRow]
  /\ UNCHANGED <<paused, workerVars, logVars>>

\* pause and resume
SetPaused ==
  /\ paused' \in BOOLEAN
  /\ UNCHANGED <<created, row, workerVars, logVars>>

\* process_next while the queue is not paused.
ProcessNext(w) ==
  /\ "next" \in Entries
  /\ ~paused
  /\ Goes(w, "idle", "pick")
  /\ UNCHANGED <<rowVars, task, image, logVars>>

\* Mutant: takes the newest.
OldestPendingLast == {a \in PendingActions : \A b \in PendingActions : b <= a}

OldestPending == {a \in PendingActions : \A b \in PendingActions : a <= b}

\* _next_pending, in a transaction of its own.
Pick(w) ==
  /\ stage[w] = "pick"
  /\ \/ \E a \in OldestPending :
          /\ task' = [task EXCEPT ![w] = a]
          /\ stage' = [stage EXCEPT ![w] = "gate"]
          /\ UNCHANGED image
     \/ OldestPending = {} /\ Returns(w)
  /\ UNCHANGED <<rowVars, logVars>>

\* process by id; the API looks the action up first.
Process(w) ==
  /\ "id" \in Entries
  /\ Goes(w, "idle", "gate")
  /\ \E a \in 1..created : task' = [task EXCEPT ![w] = a]
  /\ UNCHANGED <<rowVars, image, logVars>>

-----------------------------------------------------------------------------
(* AutoActionQueue.process *)

\* Mutant: process trusts the check of process_next.
GateOpen(w) ==
  /\ Goes(w, "gate", "load")
  /\ UNCHANGED <<rowVars, task, image, logVars>>

Gate(w) ==
  /\ stage[w] = "gate"
  /\ \/ ~paused /\ stage' = [stage EXCEPT ![w] = "load"] /\ UNCHANGED <<task, image>>
     \/ paused /\ Returns(w)
  /\ UNCHANGED <<rowVars, logVars>>

\* Mutant: also takes up actions that are running.
LoadUnended(w) ==
  /\ stage[w] = "load"
  /\ \/ /\ row[task[w]].status \in {"pending", "running"}
        /\ stage' = [stage EXCEPT ![w] = "read"]
        /\ UNCHANGED <<task, image>>
     \/ row[task[w]].status \in Outcomes /\ Returns(w)
  /\ UNCHANGED <<rowVars, logVars>>

\* An action that is not pending is returned as it is.
Load(w) ==
  /\ stage[w] = "load"
  /\ \/ /\ row[task[w]].status = "pending"
        /\ stage' = [stage EXCEPT ![w] = "read"]
        /\ UNCHANGED <<task, image>>
     \/ row[task[w]].status # "pending" /\ Returns(w)
  /\ UNCHANGED <<rowVars, logVars>>

\* update_status reads the row in one transaction ...
Read(w) ==
  /\ \/ Goes(w, "read", "mark")
     \/ Goes(w, "endread", "end")
  /\ image' = [image EXCEPT ![w] = row[task[w]]]
  /\ UNCHANGED <<rowVars, task, logVars>>

\* ... and writes it back in another: as running before the handler is called,
Mark(w) ==
  /\ Goes(w, "mark", "handle")
  /\ row' = [row EXCEPT ![task[w]] = [image[w] EXCEPT !.status = "running"]]
  /\ image' = [image EXCEPT ![w] = NoRow]
  /\ UNCHANGED <<created, paused, task, logVars>>

\* Mutant: only a handler that returns is followed by an update.
HandleUncaught(w) ==
  /\ stage[w] = "handle"
  /\ \E o \in Outcomes :
       /\ runs' = Append(runs, [action |-> task[w], by |-> w, outcome |-> o])
       /\ \/ /\ o = "succeeded"
             /\ stage' = [stage EXCEPT ![w] = "endread"]
             /\ UNCHANGED <<task, image>>
          \/ o = "failed" /\ Returns(w)
  /\ UNCHANGED <<rowVars, audit, broken>>

\* The handler returns or raises.
Handle(w) ==
  /\ Goes(w, "handle", "endread")
  /\ \E o \in Outcomes :
       runs' = Append(runs, [action |-> task[w], by |-> w, outcome |-> o])
  /\ UNCHANGED <<rowVars, task, image, audit, broken>>

\* The handler run a worker has not recorded yet.
Unrecorded(w) ==
  {i \in DOMAIN runs : /\ runs[i].by = w /\ runs[i].action = task[w]
                       /\ stage[w] \in {"endread", "end", "record"}}

\* Mutant: marks a failed action with a status the queue does not use.
EndRolledBack(w) ==
  /\ Goes(w, "end", "record")
  /\ \E i \in Unrecorded(w) :
       LET ended == IF runs[i].outcome = "failed" THEN "rolled_back" ELSE "succeeded"
       IN row' = [row EXCEPT ![task[w]] = [status |-> ended, result |-> runs[i].outcome]]
  /\ image' = [image EXCEPT ![w] = NoRow]
  /\ UNCHANGED <<created, paused, task, logVars>>

\* and with what came of it afterwards.
End(w) ==
  /\ Goes(w, "end", "record")
  /\ \E i \in Unrecorded(w) :
       row' = [row EXCEPT ![task[w]] =
                 [status |-> runs[i].outcome, result |-> runs[i].outcome]]
  /\ image' = [image EXCEPT ![w] = NoRow]
  /\ UNCHANGED <<created, paused, task, logVars>>

\* Mutant: failures are not recorded.
RecordSuccess(w) ==
  /\ stage[w] = "record"
  /\ audit' = audit \cup {i \in Unrecorded(w) : runs[i].outcome = "succeeded"}
  /\ Returns(w)
  /\ UNCHANGED <<rowVars, runs, broken>>

\* _record
Record(w) ==
  /\ stage[w] = "record"
  /\ audit' = audit \cup Unrecorded(w)
  /\ Returns(w)
  /\ UNCHANGED <<rowVars, runs, broken>>

\* The process dies, or SQLite gives up waiting for its lock and the call raises.
Break(w) ==
  /\ stage[w] # "idle"
  /\ broken' = IF stage[w] \in InFlightStages THEN broken \cup {task[w]} ELSE broken
  /\ Returns(w)
  /\ UNCHANGED <<rowVars, runs, audit>>

Work(w) ==
  \/ ProcessNext(w) \/ Pick(w) \/ Process(w) \/ Gate(w) \/ Load(w) \/ Read(w)
  \/ Mark(w) \/ Handle(w) \/ End(w) \/ Record(w) \/ Break(w)

Next == Create \/ SetPaused \/ \E w \in Workers : Work(w)

Spec == Init /\ [][Next]_vars

-----------------------------------------------------------------------------
(* Properties *)

InFlight == {w \in Workers : stage[w] \in InFlightStages}

\* Every handler run is in the decision log unless its worker is still about to
\* record it or broke off, and an action that says how it ended has a handler
\* run that ended so, however updates of its row overwrote each other.
AuditIsComplete ==
  /\ \A i \in DOMAIN runs :
       \/ i \in audit
       \/ \E w \in InFlight : i \in Unrecorded(w)
       \/ runs[i].action \in broken
  /\ \A a \in Actions : (row[a] # NoRow /\ row[a].status \in Outcomes)
       => \E i \in DOMAIN runs : runs[i].action = a /\ runs[i].outcome = row[a].status

\* An action is left running only by a worker that is at it or broke off.
RunningIsHandled ==
  \A a \in Actions : (row[a] # NoRow /\ row[a].status = "running")
    => a \in broken \/ \E w \in Workers : task[w] = a /\ stage[w] \in EndStages

\* No worker handles an action twice: an action handled once is never pending
\* again, even when a worker that found it pending overwrites how it ended.
\* (Two workers that both found it pending both handle it.)
HandledOncePerWorker ==
  \A i, j \in DOMAIN runs :
    (runs[i].action = runs[j].action /\ runs[i].by = runs[j].by) => i = j

\* While the queue stays paused no worker is admitted; those that had passed
\* the check before go on.
PauseAdmitsNoOne == [][paused /\ paused' => InFlight' \subseteq InFlight]_vars

\* What one worker promises: see ActionContract.
ActionStates == [a \in Actions |-> IF row[a] = NoRow THEN "none" ELSE row[a].status]
RecordedActions == {runs[i].action : i \in audit}
Contract == INSTANCE ActionContract WITH
  state <- ActionStates,
  recorded <- RecordedActions,
  fifo <- Entries = {"next"}

\* A single worker implements the contract: actions are handled in the order of
\* their creation, once, and recorded after they ended.
ImplementsContract == Contract!Spec
=============================================================================
