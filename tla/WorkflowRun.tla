----------------------------- MODULE WorkflowRun -----------------------------
(***************************************************************************)
(* One workflow run of loop_harness: the calls a caller makes on it        *)
(* (LoopHarness.run / resume_run), the WorkflowEngine that drives its      *)
(* tasks, sequentially or in rounds of concurrent workers, the             *)
(* HumanApprovalGate those workers consult, and the SQLite rows the run is *)
(* saved to when, and only when, a call ends normally.                     *)
(*                                                                         *)
(* A task is identified by its index in run.tasks.  An in-memory Task      *)
(* object is a task plus the generation (gen) of the call that rebuilt it  *)
(* from the database: the sequential TaskQueue belongs to the engine, not  *)
(* to the run, and can still hold objects of an earlier generation.        *)
(***************************************************************************)
EXTENDS Naturals, Sequences, FiniteSets

CONSTANTS
  NumTasks,        \* length of run.tasks
  Deps,            \* Deps[t]: metadata["depends_on"]; ids outside Tasks are unknown
  NeedsApproval,   \* tasks whose policy or metadata requires approval
  NeedsEvaluation, \* tasks that pass through the evaluation gate
  Capable,         \* tasks for whose capability an agent class is registered
  MayRaise,        \* tasks whose agent class may raise when it is instantiated
  AutoApprove,     \* HumanApprovalGate.auto_approve: "yes" | "no" | "ask" (None)
  MaxConcurrency,  \* WorkflowEngine.max_concurrency
  MaxCalls         \* bound: calls of run / resume_run in a behaviour

Tasks == 1..NumTasks

ASSUME RunAssumption ==
  /\ NumTasks \in Nat \ {0}
  /\ MaxConcurrency \in Nat \ {0}
  /\ MaxCalls \in Nat
  /\ Deps \in [Tasks -> SUBSET Nat]
  /\ NeedsApproval \subseteq Tasks
  /\ NeedsEvaluation \subseteq Tasks
  /\ Capable \subseteq Tasks
  /\ MayRaise \subseteq Capable
  /\ AutoApprove \in {"yes", "no", "ask"}

VARIABLES
  phase,    \* where the call stands; "idle" between calls
  kind,     \* "run", "resume" or "rerun" (resume_run with exclude_completed=False)
  gen,      \* generation of the in-memory task objects
  rstate,   \* run.state in memory
  tstate,   \* task.state in memory, of the objects of generation gen
  step,     \* how far _execute_task has come for each of those objects
  queue,    \* WorkflowEngine.queue: <<generation, task, kind of its call>> triples
  request,  \* state of the newest approval request of each task
  dbRun,    \* runs.state
  dbTask,   \* tasks.state
  saved     \* task rows written by the last save_run (NumTasks: it completed)

memory == <<kind, gen, rstate, tstate, step, queue, request>>
database == <<dbRun, dbTask, saved>>
vars == <<phase, memory, database>>

RunStates == {"pending", "running", "succeeded", "failed", "cancelled"}
FailedStates == {"failed", "evaluation_failed", "cancelled"}
TaskStates == FailedStates \cup
                {"pending", "running", "waiting_approval", "succeeded", "retrying"}
RequestStates == {"none", "requested", "approved", "rejected"}
Kinds == {"run", "resume", "rerun"}
Steps == {"none", "submitted", "asked", "cleared", "executing", "done", "raised"}
ActiveSteps == {"submitted", "asked", "cleared", "executing"}

TypeOK ==
  /\ phase \in {"idle", "check", "submit", "round", "pop", "save", "saving"}
  /\ kind \in Kinds
  /\ gen \in 0..MaxCalls
  /\ rstate \in RunStates
  /\ tstate \in [Tasks -> TaskStates]
  /\ step \in [Tasks -> Steps]
  /\ queue \in Seq((0..MaxCalls) \X Tasks \X Kinds)
  /\ request \in [Tasks -> RequestStates]
  /\ dbRun \in RunStates
  /\ dbTask \in [Tasks -> TaskStates]
  /\ saved \in 0..NumTasks

\* create_run and create_task have saved the run and all its tasks.
Init ==
  /\ phase = "idle"
  /\ kind = "run"
  /\ gen = 0
  /\ rstate = "pending"
  /\ tstate = [t \in Tasks |-> "pending"]
  /\ step = [t \in Tasks |-> "none"]
  /\ queue = <<>>
  /\ request = [t \in Tasks |-> "none"]
  /\ dbRun = "pending"
  /\ dbTask = [t \in Tasks |-> "pending"]
  /\ saved = NumTasks

Concurrent == MaxConcurrency > 1
Pending == {t \in Tasks : tstate[t] = "pending"}
Active == {t \in Tasks : step[t] \in ActiveSteps}

-----------------------------------------------------------------------------
(* Starting a call *)

\* recover_run: interrupted tasks are put back to pending.
RecoveredTask(s) ==
  IF s \in {"running", "waiting_approval", "retrying"} THEN "pending" ELSE s

RecoveredRun(s) == IF s = "running" THEN "pending" ELSE s

\* Mutant: resume_run forgetting exclude_completed.
ResumedTaskAlways(k, s) ==
  IF s \in FailedStates \cup {"succeeded"} /\ k # "run" THEN "pending" ELSE s

\* resume_run assigns task.state directly, outside the transition table.
ResumedTask(k, s) ==
  IF \/ s \in FailedStates /\ k # "run"
     \/ s = "succeeded" /\ k = "rerun"
  THEN "pending" ELSE s

LoadedTask(k, t) == ResumedTask(k, RecoveredTask(dbTask[t]))
LoadedRun(k) == IF k = "run" THEN RecoveredRun(dbRun) ELSE "pending"

\* run.mark_running
MarkRunning(s) == IF s = "pending" THEN "running" ELSE s

\* The members of F in the order of run.tasks (a set with that one sequence).
InListOrder(F) ==
  {s \in UNION {[1..n -> F] : n \in 0..NumTasks} :
     /\ \A i, j \in DOMAIN s : i < j => s[i] < s[j]
     /\ \A t \in F : \E i \in DOMAIN s : s[i] = t}

\* Mutant: a queue without its _queued_ids.
QueuedNever(t) == FALSE

\* TaskQueue.push drops a task whose id is queued already, whichever object
\* the queue holds for it.
Queued(t) == \E i \in DOMAIN queue : queue[i][2] = t
Schedule(states, g, k) ==
  \E s \in InListOrder({t \in Tasks : states[t] = "pending" /\ ~Queued(t)}) :
    queue' = queue \o [i \in DOMAIN s |-> <<g, s[i], k>>]

\* LoopHarness.run(recover_run(id)) or resume_run(id): rebuild the run from
\* the database, mark it running and schedule its pending tasks.
StartCall(k) ==
  /\ phase = "idle"
  /\ gen < MaxCalls
  /\ kind' = k
  /\ gen' = gen + 1
  /\ rstate' = MarkRunning(LoadedRun(k))
  /\ tstate' = [t \in Tasks |-> LoadedTask(k, t)]
  /\ step' = [t \in Tasks |-> "none"]
  /\ IF Concurrent THEN /\ phase' = "check"
                        /\ UNCHANGED queue
                   ELSE /\ phase' = "pop"
                        /\ Schedule(tstate', gen', k)
  /\ UNCHANGED <<request, database>>

-----------------------------------------------------------------------------
(* _run_concurrent *)

\* F is what one pass of _fail_tasks_with_failed_dependencies over run.tasks
\* fails: a task sees the failures of this pass that precede it in the list.
IsFailPass(F) ==
  \A t \in Pending :
    t \in F <=> \E d \in Deps[t] \cap Tasks :
                  tstate[d] \in FailedStates \/ (d \in F /\ d < t)

FailDependents ==
  /\ phase = "check"
  /\ Pending # {}
  /\ \E F \in SUBSET Pending :
       /\ IsFailPass(F)
       /\ tstate' = [t \in Tasks |-> IF t \in F THEN "failed" ELSE tstate[t]]
  /\ phase' = "submit"
  /\ UNCHANGED <<kind, gen, rstate, step, queue, request, database>>

\* _dependencies_succeeded
DependenciesSucceeded(t) ==
  Deps[t] \subseteq {d \in Tasks : tstate[d] = "succeeded"}

\* Mutant: only failed dependencies hold a task back.
ReadyUnlessFailed ==
  {t \in Pending : \A d \in Deps[t] \cap Tasks : tstate[d] \notin FailedStates}

Ready == {t \in Pending : DependenciesSucceeded(t)}

\* Mutant: one task too many.
BatchOneMore == {t \in Ready : Cardinality({u \in Ready : u < t}) <= MaxConcurrency}

\* ready_tasks[: max_concurrency]
Batch == {t \in Ready : Cardinality({u \in Ready : u < t}) < MaxConcurrency}

SubmitBatch ==
  /\ phase = "submit"
  /\ Ready # {}
  /\ step' = [t \in Tasks |-> IF t \in Batch THEN "submitted" ELSE step[t]]
  /\ phase' = "round"
  /\ UNCHANGED <<kind, gen, rstate, tstate, queue, request, database>>

\* Mutant: gives up while tasks are ready.
FailUnresolvedEarly ==
  /\ phase = "submit"
  /\ tstate' = [t \in Tasks |-> IF t \in Pending THEN "failed" ELSE tstate[t]]
  /\ phase' = "save"
  /\ UNCHANGED <<kind, gen, rstate, step, queue, request, database>>

\* _fail_unresolved_dependencies, then the loop ends.
FailUnresolved ==
  /\ phase = "submit"
  /\ Ready = {}
  /\ tstate' = [t \in Tasks |-> IF t \in Pending THEN "failed" ELSE tstate[t]]
  /\ phase' = "save"
  /\ UNCHANGED <<kind, gen, rstate, step, queue, request, database>>

\* Mutant: the round waits for its approval requests to be decided.
EndRoundDecided ==
  /\ phase = "round"
  /\ Active = {}
  /\ \A t \in Tasks : step[t] # "raised" /\ request[t] # "requested"
  /\ phase' = IF Concurrent THEN "check" ELSE "pop"
  /\ UNCHANGED <<memory, database>>

\* as_completed has delivered every future of the batch, none with an exception.
EndRound ==
  /\ phase = "round"
  /\ Active = {}
  /\ \A t \in Tasks : step[t] # "raised"
  /\ phase' = IF Concurrent THEN "check" ELSE "pop"
  /\ UNCHANGED <<memory, database>>

EndLoop ==
  /\ \/ phase = "check" /\ Pending = {}
     \/ phase = "pop" /\ queue = <<>>
  /\ phase' = "save"
  /\ UNCHANGED <<memory, database>>

\* An agent class raised: future.result() (or _execute_task itself) re-raises,
\* the pool is shut down once its workers are done, and the exception leaves
\* LoopHarness.run without a save.  The sequential queue keeps its entries.
Abort ==
  /\ phase = "round"
  /\ Active = {}
  /\ \E t \in Tasks : step[t] = "raised"
  /\ phase' = "idle"
  /\ UNCHANGED <<memory, database>>

-----------------------------------------------------------------------------
(* _run_sequential: depends_on is not consulted *)

PopTask ==
  /\ phase = "pop"
  /\ queue # <<>>
  /\ LET object == Head(queue) IN
       /\ object[1] = gen
       /\ step' = [step EXCEPT ![object[2]] = "submitted"]
  /\ queue' = Tail(queue)
  /\ phase' = "round"
  /\ UNCHANGED <<kind, gen, rstate, tstate, request, database>>

\* What the approval path leaves in the newest request of t.
Decisions(t) ==
  IF t \notin NeedsApproval THEN {request[t]}
  ELSE CASE AutoApprove = "yes" -> {"approved"}
         [] AutoApprove = "no"  -> {"rejected"}
         [] AutoApprove = "ask" -> {"requested", "approved", "rejected"}

\* The head is a pending object of an earlier call that was aborted: it is
\* executed, to its end or until its agent class raises, but none of the
\* current objects changes.
PopAbandoned ==
  /\ phase = "pop"
  /\ queue # <<>>
  /\ LET object == Head(queue) IN
       /\ object[1] # gen
       /\ \E r \in Decisions(object[2]) :
            /\ request' = [request EXCEPT ![object[2]] = r]
            /\ \/ phase' = "pop"
               \/ /\ object[2] \in MayRaise
                  /\ object[2] \in NeedsApproval => r = "approved"
                  /\ phase' = "idle"
  /\ queue' = Tail(queue)
  /\ UNCHANGED <<kind, gen, rstate, tstate, step, database>>

-----------------------------------------------------------------------------
(* _execute_task, in the engine's thread or in one worker per task *)

Moves(t, from, to, state) ==
  /\ step[t] = from
  /\ step' = [step EXCEPT ![t] = to]
  /\ tstate' = [tstate EXCEPT ![t] = state]

\* A task that is no longer pending is skipped; one that needs approval goes
\* through running to waiting_approval and its request is created.
Prepare(t) ==
  /\ IF t \in NeedsApproval
     THEN /\ Moves(t, "submitted", "asked", "waiting_approval")
          /\ request' = [request EXCEPT ![t] = "requested"]
     ELSE /\ Moves(t, "submitted", "cleared", tstate[t])
          /\ UNCHANGED request
  /\ tstate[t] = "pending"
  /\ UNCHANGED <<phase, kind, gen, rstate, queue, database>>

\* Mutant: an undecided request lets the task go on.
DecideUnlessRejected(t) ==
  /\ AutoApprove = "ask"
  /\ IF request[t] # "rejected"
     THEN Moves(t, "asked", "cleared", "running")
     ELSE Moves(t, "asked", "done", "failed")
  /\ UNCHANGED <<phase, kind, gen, rstate, queue, request, database>>

\* request_approval after create_request: auto_approve True or False decides,
\* whatever a human has decided since; None takes the state as it is, and a
\* request nobody has approved by now fails the task.
Decide(t) ==
  LET decision == CASE AutoApprove = "yes" -> "approved"
                    [] AutoApprove = "no"  -> "rejected"
                    [] AutoApprove = "ask" -> request[t]
  IN  /\ IF decision = "approved"
         THEN Moves(t, "asked", "cleared", "running")
         ELSE Moves(t, "asked", "done", "failed")
      /\ request' = [request EXCEPT ![t] = decision]
      /\ UNCHANGED <<phase, kind, gen, rstate, queue, database>>

\* create_agent_for_capability and the start of TaskExecutor.execute.
Launch(t) ==
  /\ \/ t \in Capable /\ Moves(t, "cleared", "executing", "running")
     \/ t \in MayRaise /\ Moves(t, "cleared", "raised", tstate[t])
     \/ t \notin Capable /\ Moves(t, "cleared", "done", "failed")
  /\ UNCHANGED <<phase, kind, gen, rstate, queue, request, database>>

\* The agent returns, fails its evaluation, or raises; _execute_task swallows
\* that exception after the executor has failed the task.
Finish(t) ==
  /\ \E outcome \in {"succeeded", "failed", "evaluation_failed"} :
       /\ outcome = "evaluation_failed" => t \in NeedsEvaluation
       /\ Moves(t, "executing", "done", outcome)
  /\ UNCHANGED <<phase, kind, gen, rstate, queue, request, database>>

\* Mutant: decides requests that are decided already.
HumanDecidesAgain(t, decision) ==
  /\ request[t] # "none"
  /\ request' = [request EXCEPT ![t] = decision]
  /\ UNCHANGED <<phase, kind, gen, rstate, tstate, step, queue, database>>

\* HumanApprovalGate.approve and .reject, from another thread or from a
\* subscriber of approval:requested.  They never touch the task.
HumanDecides(t, decision) ==
  /\ request[t] = "requested"
  /\ request' = [request EXCEPT ![t] = decision]
  /\ UNCHANGED <<phase, kind, gen, rstate, tstate, step, queue, database>>

-----------------------------------------------------------------------------
(* Ending a call *)

\* Mutant: overlooks tasks that failed their evaluation.
VerdictOnFailures ==
  IF \E t \in Tasks : tstate[t] \in {"failed", "cancelled"} THEN "failed" ELSE "succeeded"

\* run.mark_completed_if_done
Verdict ==
  CASE \E t \in Tasks : tstate[t] \in {"failed", "evaluation_failed"} -> "failed"
    [] /\ \A t \in Tasks : tstate[t] \notin {"failed", "evaluation_failed"}
       /\ \E t \in Tasks : tstate[t] = "cancelled" -> "cancelled"
    [] \A t \in Tasks : tstate[t] = "succeeded" -> "succeeded"
    [] OTHER -> rstate

\* save_run commits the run row first ...
SaveRun ==
  /\ phase = "save"
  /\ rstate' = Verdict
  /\ dbRun' = Verdict
  /\ saved' = 0
  /\ phase' = "saving"
  /\ UNCHANGED <<kind, gen, tstate, step, queue, request, dbTask>>

\* ... and then each task row in a transaction of its own.
SaveTask ==
  /\ phase = "saving"
  /\ saved < NumTasks
  /\ dbTask' = [dbTask EXCEPT ![saved + 1] = tstate[saved + 1]]
  /\ saved' = saved + 1
  /\ phase' = IF saved + 1 = NumTasks THEN "idle" ELSE "saving"
  /\ UNCHANGED <<memory, dbRun>>

\* The process dies: everything but the database is lost.
Crash ==
  /\ phase # "idle"
  /\ phase' = "idle"
  /\ queue' = <<>>
  /\ request' = [t \in Tasks |-> "none"]
  /\ step' = [t \in Tasks |-> "none"]
  /\ UNCHANGED <<kind, gen, rstate, tstate, database>>

-----------------------------------------------------------------------------
Worker(t) == Prepare(t) \/ Decide(t) \/ Launch(t) \/ Finish(t)

Engine ==
  \/ FailDependents \/ SubmitBatch \/ FailUnresolved \/ EndRound \/ EndLoop \/ Abort
  \/ PopTask \/ PopAbandoned
  \/ SaveRun \/ SaveTask

Caller == \E k \in Kinds : StartCall(k)

Human == \E t \in Tasks : HumanDecides(t, "approved") \/ HumanDecides(t, "rejected")

Next ==
  \/ Engine
  \/ \E t \in Tasks : Worker(t)
  \/ Caller
  \/ Human
  \/ Crash

Spec == Init /\ [][Next]_vars

\* The engine's thread and its workers keep running and agents return.
\* Nobody has to call, to approve or to crash.
Fairness == WF_vars(Engine) /\ \A t \in Tasks : WF_vars(Worker(t))

FairSpec == Spec /\ Fairness

-----------------------------------------------------------------------------
(* Properties *)

\* In a concurrent run, a task a worker has picked up has every dependency
\* succeeded, for as long as the worker holds it (_dependencies_succeeded is
\* evaluated once, when the batch is formed).
DependenciesFirst ==
  Concurrent => \A t \in Active : DependenciesSucceeded(t)

\* An agent never runs a task that needs approval unless the gate's newest
\* request for it was approved.
ApprovedBeforeExecution ==
  \A t \in NeedsApproval : step[t] = "executing" => request[t] = "approved"

\* What a call is about to save is a finished run: every task has ended and
\* the run's verdict is success exactly when every task succeeded.
TaskEnded(t) == tstate[t] \in FailedStates \cup {"succeeded"}
SavedRunIsFinished ==
  phase = "saving" =>
    /\ \A t \in Tasks : TaskEnded(t)
    /\ rstate \in {"succeeded", "failed", "cancelled"}
    /\ rstate = "succeeded" <=> \A t \in Tasks : tstate[t] = "succeeded"

\* Between calls the database never shows a succeeded run with an unfinished
\* task, unless the last save was cut short between its transactions.
SucceededRunIsComplete ==
  (phase = "idle" /\ saved = NumTasks /\ dbRun = "succeeded")
    => \A t \in Tasks : dbTask[t] = "succeeded"

\* Calls of either engine that no agent class aborted, however they crash and
\* resume each other's work, save finished runs, and complete ones as succeeded;
\* a sequential call that was aborted leaves a queue that spoils later calls.
UndisturbedRunsAreComplete ==
  [](\A t \in Tasks : step[t] # "raised") => [](SavedRunIsFinished /\ SucceededRunIsComplete)

\* With no automatic decision configured, an approval request that a human has
\* decided keeps that decision until the task, or the object that an aborted call
\* left of it in the queue, asks anew or the process dies.
DecisionIsFinal ==
  [][\A t \in Tasks :
       AutoApprove = "ask" /\ request[t] \in {"approved", "rejected"} =>
         \/ request'[t] = request[t]
         \/ step[t] = "submitted" /\ step'[t] = "asked"
         \/ phase = "pop" /\ queue # <<>> /\ Head(queue)[1] # gen /\ Head(queue)[2] = t
         \/ phase # "idle" /\ phase' = "idle"]_vars

\* A task is failed without being executed only if its agent is missing or it
\* is doomed: it depends, possibly through other pending tasks, on a failed
\* task, on an unknown task or on itself.
Doomed(t) ==
  \E S \in SUBSET Pending :
    /\ t \in S
    /\ \A s \in S : \E d \in Deps[s] :
         d \in S \/ d \notin Tasks \/ tstate[d] \in FailedStates
OnlyDoomedAreSkipped ==
  [][\A t \in Tasks :
       (phase # "idle" /\ tstate[t] = "pending" /\ tstate'[t] = "failed")
         => Doomed(t) \/ t \notin Capable]_vars

\* What the database records as succeeded is executed again only for a full
\* rerun (resume_run with exclude_completed=False), whatever crashes and aborts
\* cut earlier calls short.  An object that a sequential full rerun queued counts
\* as one, and it may well be executed later: when an agent class aborts that
\* rerun, the next call, a plain run or resume_run, executes what it left behind.
SavedWorkIsKept ==
  [][/\ \A t \in Tasks :
          (step[t] # "submitted" /\ step'[t] = "submitted" /\ dbTask[t] = "succeeded")
            => kind = "rerun"
     /\ (phase = "pop" /\ queue # <<>> /\ queue' = Tail(queue)
            /\ dbTask[Head(queue)[2]] = "succeeded")
          => Head(queue)[3] = "rerun"]_vars

\* resume_run continues "from failed or unexecuted tasks" (its docstring): it
\* leaves no task unexecuted.  Refuted when an agent class raised in an earlier
\* sequential call: the queue still names the tasks behind it, so the rebuilt
\* objects are not queued and the abandoned ones are executed in their place.
ResumeContinuesUnexecuted ==
  (phase = "saving" /\ kind # "run") => \A t \in Tasks : tstate[t] # "pending"

\* Every call comes back to its caller (or dies with its process): no
\* dependency graph and no undecided approval request blocks it.
CallReturns == (phase # "idle") ~> (phase = "idle")

-----------------------------------------------------------------------------
(* The inductive invariant behind them *)

\* Workers are busy only inside a round, and each phase belongs to its mode.
PhaseInv ==
  /\ Active # {} => phase = "round"
  /\ IF Concurrent THEN phase # "pop" ELSE phase \notin {"check", "submit"}

\* A worker's progress determines the state of its task and, for a task that
\* needs approval, of its request.
StepInv ==
  \A t \in Tasks :
    /\ step[t] = "submitted" => tstate[t] = "pending"
    /\ step[t] = "asked" => tstate[t] = "waiting_approval"
    /\ step[t] = "cleared" => tstate[t] \in {"pending", "running"}
    /\ step[t] = "executing" => tstate[t] = "running"
    /\ (t \in NeedsApproval /\ step[t] \in {"cleared", "executing"})
         => request[t] = "approved"

\* Whatever the call before left behind, the queue names no task twice, the
\* objects of this call in it are pending and with no worker, and what is saved
\* as succeeded was queued by a full rerun.  A call saves with an empty queue.
QueueInv ==
  /\ Concurrent \/ phase \in {"save", "saving"} => queue = <<>>
  /\ \A i, j \in DOMAIN queue : queue[i][2] = queue[j][2] => i = j
  /\ \A i \in DOMAIN queue :
       /\ queue[i][1] <= gen
       /\ (queue[i][1] = gen /\ phase # "idle") => queue[i][3] = kind
       /\ (queue[i][1] = gen /\ phase # "idle")
            => tstate[queue[i][2]] = "pending" /\ queue[i][2] \notin Active
       /\ dbTask[queue[i][2]] = "succeeded" => queue[i][3] = "rerun"

\* A call that is not a full rerun holds on to what is saved as succeeded.
KeptInv ==
  (phase # "idle" /\ kind # "rerun") =>
    \A t \in Tasks : dbTask[t] = "succeeded" => tstate[t] = "succeeded"

\* Outside a worker's hands a task of a concurrent run is pending or ended,
\* and when the loop is over it has ended.
EndInv ==
  Concurrent => \A t \in Tasks :
    /\ phase \in {"check", "submit"} => t \in Pending \/ TaskEnded(t)
    /\ phase = "round" => t \in Active \/ step[t] = "raised" \/ t \in Pending \/ TaskEnded(t)
    /\ phase \in {"save", "saving"} => TaskEnded(t)

RunInv ==
  /\ PhaseInv /\ StepInv /\ QueueInv /\ KeptInv /\ EndInv
  /\ DependenciesFirst
  /\ Concurrent => SavedRunIsFinished

-----------------------------------------------------------------------------
\* The run keeps the contract of RunContract: what starts, what is given up,
\* what is kept.  The sequential engine keeps it without dependencies, and while
\* no agent class aborts a call.
ContractDeps == IF Concurrent THEN Deps ELSE [t \in Tasks |-> {}]
ContractStatus ==
  [t \in Tasks |-> IF step[t] \in ActiveSteps THEN "active"
                   ELSE IF tstate[t] = "succeeded" THEN "ok"
                   ELSE IF tstate[t] \in FailedStates THEN "failed" ELSE "waiting"]
ContractKept ==
  [t \in Tasks |-> IF dbTask[t] = "succeeded" THEN "ok"
                   ELSE IF dbTask[t] \in FailedStates THEN "failed" ELSE "waiting"]
Contract == INSTANCE RunContract WITH
  Deps <- ContractDeps,
  Limit <- MaxConcurrency,
  open <- phase # "idle",
  status <- ContractStatus,
  kept <- ContractKept
ImplementsContract == Contract!Spec
=============================================================================
