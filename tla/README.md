# Verification of loop_harness

TLA+ models of `loop_harness` (`src/loop_harness/`), the configurations that
model-check them with TLC, and theorems about them checked by TLAPS.

## 1. The system

`loop_harness` is a Python package: a workflow engine that runs tasks on agents,
and around it a console that improves the prompts, strategies and configuration
those agents use, under policies and with humans in the loop.  There is no
central process.  FastAPI endpoints are plain functions and so run in a thread
pool; the command line runs in processes of its own; library callers run where
they like.  What they share is a SQLite file.  Every store method opens a
connection, commits and closes it: **one store call is one transaction, and
nothing spans two of them**.  Updates of a row are a read in one transaction and
a write of all its columns in another.

| Component | State | Operations | Interacts with |
|---|---|---|---|
| Workflow engine (`workflow/`, `models/`) | states of a run and its tasks, task queue of the engine | run sequentially or concurrently, resolve dependencies, execute a task | approval gate, agent registry, evaluation, store |
| Run facade (`loop_harness.py`) | the `Run` objects a caller holds | create, recover, resume, run | engine, `SQLiteStore` |
| Approval gate (`control/gate.py`) | requests in memory | request, approve, reject | engine, subscribers of the event bus |
| Run persistence (`persistence/sqlite.py`) | rows of runs and tasks | save run, save task, load | facade |
| Prompt stores (`prompt/`) | prompt versions; prompt proposals | save version, roll back; create, update status and metadata | policy, inbox, loop engine |
| Scenario policy (`policy/`) | none of its own | classify, shadow, apply or leave to a human | prompt stores, shadow runner |
| Agent loop engine (`loop/`) | loop runs | trigger, execute one cycle | adapter, policy, prompt stores |
| Approval inbox (`console/approval.py`, `api.py`, `human_cli.py`) | none: reads the stores | list, approve, reject | prompt, recommendation, optimization stores |
| Autonomy (`autonomy/`) | actions, pause flag | process, pause, resume | decision log |
| Configuration versions (`config_version/`) | versions, branches | save, lock, branch, roll back | console |
| Experiment loop (`experiment/`) | ticks, experiments, baselines, loop state | start, stop, pause, resume, tick, trigger | ledger, baseline manager |
| Evidence (`evidence/`) | evidence runs, baselines | ingest, set baseline, compare | console |
| Response cache, model provider (`cache/`, `llm/`) | entries, counters, in memory | generate; get, set, purge, clear | threads of a round |
| Cost tracker (`observability/cost_tracker.py`) | counters, budgets, in memory | track, set budget, reset, report | gate, event bus, health checker |
| Backups (`console/backup.py`) | files | create, restore with a safety copy | the database of all stores, decision log |
| Recommendations, optimizations, metric schemas (`recommendation/`, `optimization/`, `metrics/`) | rows that wait for an answer; schemas of a scenario | recommend, suggest, resolve; edit schemas | shadow runs, inbox |
| Scenarios and logs (`scenario/`, `logs/`) | scenario rows, raw and summary logs | run with a timeout, archive | adapters, learning |
| Learning (`learning/`) | observations, proposals, findings, validations | one tick | logs, decisions |
| Event bus, webhooks, notifications (`events/`, `webhook/`, `notification/`) | events, senders, deliveries, channels | emit, configure, send with retries, notify | all publishers, gate |
| Business lines (`businessline/`) | rows, and a cache in each process | create, get, list, update status | experiments, costs |
| Dry runs (`dryrun/`) | mode of the harness, of its tools and models | enter, leave, call | facade, tool and model registries |

What is hard in it:

* **read-modify-write across transactions**: whole-row updates lose each other;
* **check-then-act**: an endpoint looks at a status, then acts on it;
* **threads of one round** of a concurrent run, and humans deciding meanwhile;
* **crashes between two transactions** of one logical step, and calls that end
  by an exception, with the state they leave to the next call;
* **state kept in objects** (task queue, approval requests) next to rows.

What makes each component correct:

* **workflow engine, facade, gate, persistence**: a task executes only after its
  dependencies succeeded and its request was approved; a decision is final; work
  saved as succeeded is never done again; a call returns, whatever the graph; a
  run saved as succeeded has all its tasks;
* **prompts, policy, loop, inbox**: a patch enters the history at most once and
  only if it was vetted; a proposal marked applied is in the history; every version
  has an origin; a loop run reports what happened; a decided item leaves the inbox;
* **autonomy queue**: handler runs, rows and decision log agree; a single worker
  handles each action once and in order; a pause admits nobody;
* **experiment loop**: a tick tells what it left behind; the last tick is saved and
  linked; a pause holds;
* **configuration versions, backups**: a locked version does not change; a scenario
  has one active branch with an existing base; no restore loses the only copy of
  a committed row;
* **evidence**: only a good candidate becomes a proposal or goes to paper trading; a
  report is that of the stored runs; a baseline names a run of its workflow;
* **feedback**: what was applied to an experiment stays; baselines are backed by
  metrics that passed the gate; a business line has one active baseline;
* **recommendations**: they build on real gains without broken guardrails; a suggested
  value is allowed and new; an answer takes its item out of the inbox;
* **cache, costs**: an answer is fresh and to its prompt, lookups are counted once;
  an exceeded budget is put to a human, totals are what was tracked;
* **scenarios, learning**: a run that timed out stays a failure; what is learned
  follows from what was recorded;
* **events, business lines, dry runs**: an event reaches every sender it is for; a
  cache is its row; nothing runs within a dry run.

The hazards of each, at the line where they bite, are in `PROJECT.json` with the
properties that would catch them.

## 2. Modules

| Module | Models | Kind |
|---|---|---|
| `RunContract` | what a workflow run promises its caller | abstract specification |
| `WorkflowRun` | engine, task queue, approval gate, facade and persistence of one run | detailed specification, implements `RunContract` |
| `WorkflowRunProofs` | theorems about `WorkflowRun` | proofs |
| `ImprovementLoop` | loop engine, scenario policy, prompt versions and proposals, inbox | specification |
| `ImprovementLoopProofs` | theorems about `ImprovementLoop` | proofs |
| `ActionContract` | what the autonomy queue promises when one worker processes it | abstract specification |
| `AutonomyQueue` | autonomy actions, their workers, pause flag and decision log | detailed specification, implements `ActionContract` for one worker |
| `AutonomyQueueProofs` | theorems about `AutonomyQueue` | proofs |
| `ExperimentLoop` | ticks of the experiment loop, its state, ledger and baselines | specification |
| `ExperimentLoopProofs` | theorems about `ExperimentLoop` | proofs |
| `ConfigVersions` | configuration versions, branches, backups and restores | specification |
| `ConfigVersionsProofs` | theorems about `ConfigVersions` | proofs |
| `EvidenceScoring` | coverage, quality, comparison and decision of an external run | operators |
| `EvidenceRuns` | ingestion, baselines, comparisons, proposals, drills | specification, extends `EvidenceScoring` |
| `EvidenceRunsProofs` | theorems about `EvidenceRuns` | proofs |
| `ExperimentFeedback` | feedback gate, promotion, baselines, comparison, risk | specification |
| `VersionRecommendations` | recommendations, suggestions, generic proposals, metric schemas | specification, extends `EvidenceScoring` |
| `ResponseCache` | model provider and its cache between threads | specification |
| `CostTracker` | counters, budgets and resets between threads | specification |
| `ScenarioRuns` | runs with a timeout, their logs, archiving | actions that `LearningLoop` extends |
| `LearningLoop` | ticks of the learning loop over the logs of `ScenarioRuns` | specification |
| `EventDeliveries` | event bus, webhook senders, notification channels | specification |
| `BusinessLines` | rows of business lines and the caches of the processes | specification |
| `DryRunMode` | contexts of dry runs over one harness | specification |
| `SharedServices` | these eight services side by side | specification, INSTANCEs them |
| `SharedServicesProofs` | theorems about the cache, business lines and dry runs | proofs |
| `ServicesHoldProofs` | theorems about events and costs, and about all that is shared without a lock | proofs, extends `SharedServicesProofs` |
| other `MC...` | task graphs, patches and other constants for TLC | model values only |

`Mutant:` operators in a module are plausible bugs of the operator below them;
each property is checked to fail for one of them.

### WorkflowRun

One `Run` over any number of calls of `run`, `resume_run` and full reruns.  The
variables are the run and task states in memory (`rstate`, `tstate`), what each
worker thread is doing (`step`), the engine's `queue`, the approval `request`
of each task, the rows in the database (`dbRun`, `dbTask`), and the phase of
the call.  `StartCall` loads and rebuilds the tasks as `recover_run` and
`resume_run` do; `FailDependents`, `SubmitBatch`, `EndRound`, `FailUnresolved`
are one iteration of `_run_concurrent`; `PopTask` and `PopAbandoned` are
`_run_sequential`; `Prepare`, `Decide`, `Launch` and `Finish` are
`_execute_task` in a worker thread; `SaveRun` and `SaveTask` are the transactions
of `save_run`; `HumanDecides` is `approve` or `reject` from any other thread.
`Crash` loses memory and keeps the rows; `Abort` is an exception that leaves
`run`.  A queue entry names the generation of task objects it belongs to, and the kind
of the call that queued it: that is how the objects an aborted call abandons are told
from the rebuilt ones, and those of a full rerun from others.

`SavedWorkIsKept` counts both ways to execute a task the database records as succeeded:
a task of the present call is submitted, or `PopTask` or `PopAbandoned` takes an object
off the queue.  Only a full rerun may do either, and what a full rerun queued counts as
its own even if a later call executes it.  That is no formality: a sequential full rerun
that an agent class aborts leaves its pending objects in the engine's queue, and the next
plain `resume_run` executes them although their tasks are saved as succeeded.

`ImplementsContract` is the refinement: `RunContract` sees only which tasks wait,
are active, ended, and what later calls will find.

### ImprovementLoop

Loop executions, rollbacks, requests of humans and proposals created by hand,
each with a program counter `stage` whose values are the transactions of
`ScenarioPolicyService.process`, `PromptVersionStore.save_version`, `rollback`
and the inbox.  `hold` is the row image an update has read and will write back;
`row` the proposals' table; `versions` the history ordered by `created_at`, in
which a version is stamped (`Stamp`) before it is inserted (`Insert`), so that
writers can overtake each other; `base` what a writer has read.  A slot holds
the name of the proposal that last patched it: that tells versions apart as far
as the properties need.

What raises within the `try` of a loop run leads to a failed one (`Raise`); the last
`loop_store.save` is behind it: `End` is that save, and `EndUnsaved` the one that raises,
after which the row says "running" for good in a process that lives (stage `lost`).
`LoopEnds` therefore exempts two ways out, a dead process and a lost save; nothing looks
for the rows they leave behind.

Left out: ties of `created_at` (the code breaks them by rowid), shadow runs
started by hand (they are in `VersionRecommendations`), and the texts of a loop run.  A locked database raises in the
caller; that is one of the reasons of `Raise`.

### AutonomyQueue

A worker is an invocation of `process_next` or of `process` (the API endpoint):
`ProcessNext`, `Pick` and `Gate` are the pause checks and the choice of the
oldest action; `Load` is the status check; `Read` and `Mark`, then `Read` and
`End`, are the two `update_status` calls around the handler; `Record` is the
decision log.  `image` is the row a worker will write back.  `runs` and `broken`
are history variables.  `Break` is a dead process or a raising store call, at
every step.  Nothing claims an action, so two workers that both find it pending
both handle it: `HandledOncePerWorker` is what is left of "once", and
`OnceBySingleWorker` and `ActionContract` say what one worker gets.  Creations
do not overlap, and rows are never deleted, as in the code.

### ExperimentLoop

`start`, `trigger` and `tick` are invocations with a program counter: `Start`,
`Trigger` and `TickOnce` enter; `ReadLast` and `WriteRunning` are `_save_state`;
`Pipeline` is everything from collecting to evaluating, which may raise;
`CreateExperiment`, `MarkPending`, `CreateBaseline` and `RecordFailed` are the
ledger's and baseline manager's transactions; `SaveTick` and `Link` are
`_save_tick`; `ReadState` and `Stamp` write the row of `loop_state` back with the
tick's id.  `Command`, `ReadRow` and `WriteRow` are stop, pause and resume.
`held` is the row read and to be written back.  The row of an experiment is written
by its own tick (`ReadToMark`, `MarkPending`; `ReadToLink`, `Link`) and by feedback that
a person applies (`ReadToApply`, `SaveApplied`); each of these is `ExperimentLedger.update`,
a read and a write of the whole row, of which `image` is what was read.  So feedback can
undo a link and a link can undo feedback: `overtaken` is a history variable, the columns
that were last written from a read another write had overtaken.  `LastTickIsLinked` and
`ExperimentsAreLinked` claim links and feedback for all columns but these, and that an
experiment names only a saved tick that reports it for all.
`calm` is a history variable: the last command was a pause that met no other
writer.  Only then does a pause hold; one that falls between `ReadState` and
`Stamp` is undone, which no document of the repository rules out.

Left out: the tick interval (stale whenever the state is), which baseline is
active, and business lines other than one: they have rows of their own.

### ConfigVersions

An update (`LoadVersion`, `CheckLock`, `ReplaceVersion`) is `ConfigVersionStore.save`
by code that loaded the version before; `FindVersion`, `LockVersion` are
`lock_version`; `FindBase`, `DeactivateForScenario`, `InsertBranch` are
`create_branch`; `StartBackup`, `EndBackup` the copy of the database file;
`FindBackup`, `SafetyCopy`, `Truncate`, `CopyBack`, `RecordDecisions` a restore, the
last of them the API's, which records again the decisions it read before.  `db` is the
whole file: a restore replaces all of it, and while it is truncated it is no
database (`None`).  `Break` ends a call anywhere.  The code promises nothing to calls
that overlap: a lock that another save had passed is undone, a branch may lose its
base to a restore.  The history variables `sealed`, `disturbed` and `broken` say
exactly which calls were overtaken, and the invariants hold for all others.

### EvidenceScoring and EvidenceRuns

`EvidenceScoring` has the verdicts as operators over a run: trace and metric coverage,
black boxes, the penalties of its quality, `NormalizedChange` under a metric's schema,
guardrails, the weighted `Comparison`, and the decision with its recommendation.
Weighted means stay sums beside their weights, so that no division is rounded.
`EvidenceRuns` gives them to requests that read two runs in two transactions and save
in a third, while `Ingest` may replace a run under its id.  `OnlyBackedCandidatesAdvance`
holds the whole chain to a second account of what good evidence is, written without the
engine's intermediate scores (`Gaining`, `Approvable`, `Tradable`).
`ReportsAndBaselinesMatchRuns` is about the stored reports; pairs of which a run was
replaced after it was read are `outdated`.

### ExperimentFeedback

Commands over the experiments' rows: `SaveQuality`, `AddFeedback` are the gate;
`ReadToApply`, `ListFeedback`, `RereadRow`, `SaveApplied` apply feedback as
`apply_to_experiment` and `update` do, in four transactions; `ReadToLink`, `SaveLink`
are the tick's; `Promote` makes a baseline of the metrics that `ReadToPromote` saw.  A
row is written with all its columns from what was read: `torn` remembers columns that
such a write took back, and everything else that was applied has to stay.

### VersionRecommendations

Items of three tables that a person resolves, and the shadow runs and schemas they
are drawn from.  A shadow run keeps the schemas it was compared under, which a person
may edit in two transactions (`ReadSchemas`, `SaveSchemas`).  `RunShadow` is the
console's, `RunShadowUnscoped` the command line's without a scenario's schemas.
`Recommend` chooses by `EvidenceScoring`'s comparison; `Suggest` leaves the optimizer's
expectation open and keeps its grid and its rule for values seen.  `ReadToResolve` and
the three `Save...` are a status update.  Generic proposals have no inbox entry of their
own that closes: the property says so.

### ResponseCache, CostTracker

Both are objects that the threads of a round share without a lock; steps are the
operations of the interpreter between which threads change.  In `ResponseCache` a
lookup scans (`EndScan`), purges, finds, moves and answers; a scan that another thread
disturbs raises; a call of the model has retries and a timeout.  In `CostTracker`
taking a counter and adding to it are two steps, and a reset drops counters of all time,
then of the days, then warnings.  Keys touched by both are `unsettled`, and no more is
claimed of them.

### ScenarioRuns, LearningLoop

A run is `LoadRegistry`, `StartAdapter`, `TakeAnswer` or `TimeOut`, `SaveRaw`,
`SaveSummary`; the adapter's thread (`AdapterAnswers`) goes on after the timeout and
nobody looks at it again: it is `Abandoned` then, and what it still answers `Late`.  An answer in time is saved as it is, with the error and the metrics of a
failure that the adapter returned; only a timeout, or an adapter that raises, makes the
runner save a failure of its own, without metrics (`Outcome`).  Failed runs with metrics
are learned from like others.  A tick observes summaries and decisions, saves each
observation, draws one proposal for each target, and has it blocked or validated, one
transaction each; `KillTick` and `KillRun` may come anywhere.

### EventDeliveries, BusinessLines, DryRunMode

`Emit` hands an event to the senders there are; `SendToUrl` is one attempt, which may
arrive although it raises; after the event of an approval request, `Notify` goes
through the channels.  `BusinessLines` changes the cached object first and saves the
row after, so a failed save leaves the cache ahead; `behind` names those lines and
the ones another process wrote.  `DryRunMode` keeps the mode in the harness: contexts
left in the reverse order of their entry restore it, others need not (`crossed`).

### SharedServices

These eight share no state, so one specification and one run hold them side by side:
`part` says which service a behaviour is of, and the variables of the others are `None`.
Each property of the run is that of the named part; `SharedServicesHold` joins the five that are about
state shared without a lock.  The mutant listed for it is of the cache.  The other four parts
fail too when their code is changed: a budget that may be exceeded by a unit, one attempt
fewer for a delivery, a save of a business line that writes its status only, a dry run
that is left by switching dry runs off.

## 3. Runs

All runs let callers stop calling, so deadlock is not checked; that calls and
loops do not get stuck is stated as `CallReturns` and `LoopEnds`.

| Run | Question | Bounds |
|---|---|---|
| `workflow_join` | Does a concurrent run keep its contract under crashes, approvals, evaluation and a raising agent? | 5 tasks: a join of two tasks, of which one may raise, a free one without an agent, and a cycle; two workers; three calls |
| `workflow_sequential` | What do aborted sequential calls leave behind; is work saved as succeeded kept, and what the others save finished, and complete if succeeded? | 3 tasks in a chain listed backwards, one may raise; automatic approval, three calls |
| `workflow_abandoned` | Does `resume_run` continue everything unexecuted? (no) | 2 independent tasks, one raising, two calls |
| `loop_auto` | Two self-applying patches, a rollback and a human on one prompt | 2 loops, 1 rollback, 1 request, both channels |
| `loop_guarded` | A patch for a human, one that applies itself and one made by hand; do only vetted ones change the prompt, do loops end? | 2 loops, 1 manual proposal, 1 request |
| `loop_inbox` | Does a decided item leave the inbox? (no) | 1 loop, 1 request |
| `queue_race` | Do rows, handler runs and decision log agree when workers race? | 2 actions, 2 workers, both entries, pause and resume at any time |
| `queue_single` | Does one worker implement `ActionContract`? | 4 actions, 1 worker, `process_next` |
| `experiment_loop` | Do ticks and commands that overwrite each other keep ledger, ticks and loop state consistent? | 2 ticks, 2 commands, 1 feedback on any experiment |
| `config_backup` | Do locks, branches and committed rows survive races, restores and calls that die? | 1 version, 1 update, 1 lock, 2 branches, 1 backup, 2 restores at the API, 1 break |
| `evidence_runs` | Does only good evidence advance while runs are replaced? | 7 payloads of 3 ids, 4 ingested; 2 requests, of any two of its 4 kinds |
| `services` | Do the eight services keep their word? | two processes each, and the bounds in `MCServices` |

Two runs expect a violation, and `PROJECT.json` quotes the lines they are about:
after a sequential call that an agent class aborted, `resume_run` executes the task
objects the aborted call left in the queue instead of the rebuilt ones, which it
saves as pending (so `UndisturbedRunsAreComplete` is about runs without an aborted
call: with stale tasks in its queue a call saves tasks that have not ended); and
approving a proposal that its loop left approved and awaiting a human writes a row
like the one there was, so that the item stays in the inbox.

Three calls are enough for the workflow: the first fails or crashes, the second
meets what it left, the third meets what the second saved.  Five tasks hold a
join, a free pair and a cycle; two workers of a round are enough for one to end while the
other runs.  Two writers, a rollback and a human give every pair of concurrent
writers of the history and of a row, and one more between their steps.  Two
workers of the queue are enough to overwrite each other, two actions to order
them; the invariants are proved for more.  Two ticks and two commands give every
pair of writers of `loop_state` and one that acts between their read and write.

One feedback command is enough to overtake, and be overtaken by, either update of a
tick, and two ticks give it an experiment that another tick does not touch.  Proposals that
are blocked never write, so that their path, left out of the runs, is only proved.

One version is enough for the locks, since versions do not touch each other; two
restores are needed for one to overwrite what the other saved, and both are the API's so
that one reads the decision the other has recorded before it restores and records again.
A restore at the command line, which records nothing, is left to the proofs.  The payloads
of `evidence_runs` are a baseline and two candidates, and for each of them what makes it
bad: another workflow, a synthetic kind, no trace, a broken guardrail, too few samples; a
drill that compares the good candidate with the short one sends it to paper trading.  In
`services`, the cache has one entry for two prompts, so that it must evict; a budget is
crossed by two calls, with two days to reset it in; a sender has one retry and up to two
URLs; a scenario is run twice, with one decision against, one answer below its
thresholds and one failure that was returned with an error and metrics.

Symmetry is used for workers, ticks, commands, branches, restores and the two processes
of a service, only where no liveness
property is checked.

**Fairness.**  `FairSpec` of `WorkflowRun` assumes that the engine thread and the
worker threads keep running (weak fairness of each of their steps), as threads
of a live process do; nobody has to call, approve or crash.  `FairSpec` of
`ImprovementLoop` assumes the same of a loop that has been triggered, up to its last
save, which may raise.

## 4. Proofs

`WorkflowRunProofs`: `TypeCorrect`, then the inductive invariant `RunInv`
(`PhaseInv`, `StepInv`, `QueueInv` and the parts on requests and saved rows),
needed because none of the safety properties is inductive by itself: that a
task's dependencies have succeeded when it executes follows from what `submitted`
means in a round, and that succeeded work is kept follows from what a rebuilt
task may be and from what each kind of call leaves in the queue.  From it `DependenciesComeFirst`, `ExecutionIsApproved`,
`ConcurrentRunsFinish`, `SucceededTasksAreKept` and `SkippedTasksAreDoomed`.
All are for every task list, dependency graph, bound and number of calls.

`ImprovementLoopProofs`: `LoopInv` says that a request under way is about a row
(`RequestsHaveRows`), a writer stamps one version and remembers it
(`DraftsHaveWriters`), stages are passed in order (`DraftsHaveStages`), stages
and reports follow the verdicts (`StagesFollowVerdicts`), row images say
`applied` of stored versions only, including the images an update is about to
write back (`AppliedImages`), and what a writer holds comes from the history
(`Origins`).  `AppliedIsInHistory` alone is not inductive: a stale image may
bring the status back.  From it all five safety properties of the module, for
every set of loops, rollbacks, humans and proposals.

`AutonomyQueueProofs`: the invariant adds to the properties that exactly the
created actions have rows (`RowsInv`), that a worker past its entry is about one of
them and holds an image between read and write (`TasksInv`), that an action once
marked is never pending again, stale images included (`MarkedInv`), and that a worker
before its handler has no run of its task while one after it has (`RunsInv`).
`MarkedInv` is what makes `HandledOncePerWorker` inductive.  `PauseAdmitsNoOne` is an
action property, proved from the type invariant alone.

`ExperimentLoopProofs`: `TickInv` ties each stage of a tick to its rows (what it
reports is what it recorded, it is saved after it is recorded and linked after it is
saved), and each link to the tick it names; `ImageInv` says the same of every image of an
experiment's row that a feedback command holds, so that what it writes back names no tick
that is not saved.  A column that differs between an image and its row when the image is
saved is `overtaken`, which is what makes the rest stay.  `LastInv`
extends `LastTickIsLinked` to every copy of the row of `loop_state` a writer holds;
`CalmInv` says who may be under way while a calm pause lasts.  For every set of ticks
and commands.

Refinements: a step of the concurrent engine is a step or a stutter of `RunContract`
(`ConcurrentRunsImplementContract`), and so is one of the sequential engine as long as
no agent class aborts a call (`UndisturbedRunsImplementContract`, from the invariant
`UndisturbedInv`, which also gives `UndisturbedRunsComplete`: no worker has raised, and
the queue holds no task object of an earlier call).  One worker implements
`ActionContract` for any number of actions (`SingleWorkerImplementsContract`): alone, it
finds each row as it left it.  `DecisionsAreFinal` is the action property `DecisionIsFinal`.

`ConfigVersionsProofs`: a lock is kept because no save past its look at the lock is about
a version locked since (`SealedInv`); branches because every copy of the database is
sound by itself, files too, so that a restore brings back a sound one, and a creation
nobody disturbed finds no branch active when it inserts its own (`BranchesInv`); history
because a restore nobody disturbed has a copy of the database when it removes it
(`RestoresInv`).  For any versions, calls and breaks.

`EvidenceRunsProofs`: a request holds the rows it has read, which are the stored ones
unless it is `outdated` (`HeldInv`); so a report is the comparison of its rows
(`ReportsInv`), a baseline is a stored run (`BaselinesInv`), and what advanced was compared
and let through (`AdvanceInv`).  `OnlyBackedAdvance` then shows that a comparison
that lets a candidate through meets the reader's account of good evidence: its lemmas
are about the gate of `EvidenceScoring`, coverage, quality and recommendation.  That
the sums and the weights it divides by are numbers, so that one comparison of a drill is
the best, follows from the metrics being numbers (`ComparisonsAreNumbers`): a fold over a
finite set exists and stays among numbers closed under addition (`FoldHasType`).  What is
assumed of the payloads (`EvidenceAssumption`) is that metrics, weights and thresholds are
numbers and no weight is negative, which the code does not check, and of the sort that
selects candidates that it selects candidates; TLC evaluates it for those of the run.

`SharedServicesProofs` proves `FeedbackCounts` of the experiments and their baselines
(`FeedbackIsBacked`): a row is backed by feedback that passed the gate and shows what was
applied to it (`RowInv`), each line with baselines has one active (`PromotedInv`), and a
command holds a row that is backed and, unless it is behind, has in it all that was applied
(`ReadInv`).  That no metrics win against themselves is a sum of zeros (`SameIsTie`), by
the same `FoldIsSum` as below.

It proves `RecommendationsStand` (`RecommendationsAreSound`) from `CommandsInv`: each item
is as it was created but for its status, which is one of its answers (`ItemIs`), and the row
a command is about to write is as sound as a stored one (`CommandIs`), so that the order in
which answers are read and written cannot matter.  What a recommendation or a suggestion says
when it is drawn is a matter of lemmas: the best of finitely many runs exists (`Highest`) and
is what the text of the code's ranking promises (`RecommendationIs`), the numbers it compares
are integers (`ComparisonTypes`, by sums of metrics), and a value rounded to the grid is in it
(`Rounded`, `SuggestedSuits`).  It stays so because shadow runs are only added.

It proves `LearningIsGrounded` (`LearningFollowsRuns`) from `LearnInv`.  A summary is the
`Outcome` of its run, whether the adapter succeeded, returned a failure or was too late.  The runs of a scenario
only add to its logs, so that what a tick has seen of them stays (`RunKeeps`, `Knows`); what
a tick has written is an account of what it has drawn so far, by its stage: the
observations of the raw logs, the candidates that were given a rank and no conflict, a finding
or a validation for each proposal it has come to (`Account`, `Follows`), and at the report
all of them (`Done`).  That the code's loops reach every observation and candidate rests
on `PlacesNumber`: a strict total order of a finite set numbers its elements without gaps.

`ServicesHaveTypes` is the type invariant of all eight services.

With `ServicesHoldProofs` it proves `SharedServicesHold`, with the types of the five
services it is about:

- business lines: a cached line has a status its row was to have, and a line about to
  be saved is cached (`LinesInv`);
- dry runs: while no context is crossed, the oldest open one found the mode set outside
  and every other found a dry run (`DryInv`), by lemmas on the places a coroutine has in
  the order of the contexts;
- response cache: an entry beyond the size stands for a thread that is about to evict
  one (`SizeHolds`), and what a thread holds fits its stage; the table stays ordered and
  free of duplicates under removals and moves, by lemmas on sequences without an element;
- events: the senders a thread has yet to hand its event to are the last ones of its
  audience, the posts made so far those of the first URLs of the sender at hand
  (`Working`), and the rest is in the list of deliveries (`Ledger`); the count of
  deliveries is a bijection with the URLs;
- costs: what was tracked of a key is what its counters hold and what the threads have
  yet to add to them (`Settled`), and a budget that is exceeded was put to a human or a
  thread is about to (`Asking`).  Sums over threads and over days are cardinalities of
  sets of units (`Sum`), so that adding to one summand adds to the sum (`SumChange`), and
  `FoldIsSum` shows that the fold `report_period` is modelled by is such a sum.

Assumptions: the named ASSUMEs of the modules (disjoint actors, task ids
`1..NumTasks`, bounds that are numbers, amounts that are natural and budgets that are
integers, metrics that are finitely many integers, weights of schemas that are natural, parts
of a risk that are fractions, as the models in the code refuse others, sentinels outside the
sets they stand beside), which TLC evaluates in the runs.

Only model-checked: the liveness properties (`CallReturns`, `LoopEnds`), as the
provers do no fairness or ENABLED.  The two properties the code violates
(`ResumeContinuesUnexecuted`, `ResolvedItemsLeaveInbox`) have counterexamples instead.
Everything else the runs check is proved.  `TypeOK` of `WorkflowRun` is proved (`TypeCorrect`)
and has no run of its own.  What a fold or a sort computes for every input is proved as
far as the properties need it: that a sum is the sum of its summands, that a rank is
a number, that a best element exists; which element ranks first among given data stays
with TLC.

## 5. Not modelled

| Part | Why not |
|---|---|
| Autonomy eligibility and feedback analyser | pure functions that nothing in the package calls |
| Schedule of the ticks, reports of the command lines | wording, and times that no verdict depends on |
| Concurrent edits of a scenario's metric schemas | the set of schemas is replaced by what each editor has read; the code promises nothing, and each shadow run keeps what it was compared under |
| Subscribers that only record (audit log, metrics), webhooks received | they write one row or call the facade; the bus swallows what they raise |
| A second `configure_webhooks` with the same URL | each sender posts on its own: a URL listed twice is told twice, which the model has as two senders |
| Evaluation, insights, diagnostics, reporting | scoring and text over stored data; only verdicts matter, which the models choose freely |
| Memory, user profiles, agent configuration, authentication, cost events | single rows or entries written and read whole |
| Adapters, external agents, LLM clients | programs outside the repository: outcomes chosen freely |
| Scripts of business lines (`src/scripts/`) | one-shot programs over market data |
| Web console | has no state beyond what the API returns |
