---------------------------- MODULE ExperimentLoop ----------------------------
(***************************************************************************)
(* LoopEngine of the experiment package, for one business line.  A tick    *)
(* evaluates an action, records an experiment and a baseline, saves itself *)
(* and stamps the row of loop_state; start, trigger, stop, pause and       *)
(* resume write that row too, and "feedback apply" the experiments.  They  *)
(* run in processes of their own over one SQLite file.  _save_state and    *)
(* ExperimentLedger.update read a row in one transaction and write all its *)
(* columns in another, so that concurrent writers undo each other.         *)
(*                                                                         *)
(* A tick names its experiments, its tick row and its baseline.  Each      *)
(* member of Ticks, Commands and Feedback is one invocation, made at most  *)
(* once.  The tick interval is stale whenever the state is, and is left    *)
(* out; which metrics the feedback sets is the matter of ExperimentFeedback.*)
(***************************************************************************)
EXTENDS Naturals

CONSTANTS
  Ticks,    \* invocations of start, trigger or tick
  Commands, \* invocations of stop, pause or resume
  Feedback, \* invocations of apply_to_experiment
  NoTick    \* no row of loop_ticks, no last_tick_id

Updaters == Ticks \cup Feedback
Actors == Updaters \cup Commands
States == {"running", "paused", "stopped"}
Kinds == {"completed", "failed"}
LoopRow == [state : States, last : Ticks \cup {NoTick}]
Links == {"absent", "unlinked", "pending", "linked"}
\* What loop_tick_id says in the metadata of an experiment, and whether feedback has
\* been applied to its metrics.
Columns == {"link", "fed"}
ExperimentRow == [link : Links, fed : BOOLEAN]
\* What a tick reports: whether it was checkpointed, and its experiment.
TickRow == [status : {"checkpointed", "unfinished"}, experiment : Kinds]

ASSUME ExperimentLoopAssumption ==
  /\ Updaters \cap Commands = {} /\ Ticks \cap Feedback = {}
  /\ NoTick \notin Ticks \cup TickRow

VARIABLES
  stage,      \* how far each invocation has come
  command,    \* the state a command is about to write, and "stopped" when there is none
  held,       \* the row of loop_state an invocation has read and not yet written
  loopRow,    \* loop_state
  experiment, \* rows of experiments
  image,      \* the row of an experiment that an update has read and not yet written
  about,      \* the experiment a feedback command is given
  overtaken,  \* history: columns of experiments written back from a read that another
              \* write had overtaken
  baselines,  \* ticks that have a row in baselines
  tickRow,    \* loop_ticks
  result,     \* the tick a tick is about to save
  calm        \* history: the last command was a pause that met no other writer

experimentVars == <<experiment, image, about, overtaken>>
ledgerVars == <<experimentVars, baselines, tickRow, result>>
stateVars == <<loopRow, held, command>>
vars == <<stage, stateVars, ledgerVars, calm>>

RunningStages ==
  {"restart", "starting", "pipeline", "create", "pending", "marking", "baseline",
   "fail", "save", "link", "linking", "stamp", "stamping"}
Stages == RunningStages \cup {"idle", "read", "write", "apply", "over", "refused", "broken"}

TypeOK ==
  /\ stage \in [Actors -> Stages]
  /\ command \in [Commands -> States]
  /\ held \in [Actors -> LoopRow]
  /\ loopRow \in LoopRow
  /\ experiment \in [Ticks -> [Kinds -> ExperimentRow]]
  /\ image \in [Updaters -> ExperimentRow]
  /\ about \in [Feedback -> Ticks \X Kinds]
  /\ overtaken \subseteq Ticks \X Kinds \X Columns
  /\ baselines \subseteq Ticks
  /\ tickRow \in [Ticks -> TickRow \cup {NoTick}]
  /\ result \in [Ticks -> TickRow]
  /\ calm \in BOOLEAN

\* Mutant: a state start and trigger do not know.
StoppedAsIdle == [state |-> "idle", last |-> NoTick]

\* get_status of a business line that has no row.
Stopped == [state |-> "stopped", last |-> NoTick]
Unfinished == [status |-> "unfinished", experiment |-> "failed"]

Absent == [link |-> "absent", fed |-> FALSE]

Init ==
  /\ stage = [a \in Actors |-> "idle"]
  /\ command = [c \in Commands |-> "stopped"]
  /\ held = [a \in Actors |-> Stopped]
  /\ loopRow = Stopped
  /\ experiment = [t \in Ticks |-> [k \in Kinds |-> Absent]]
  /\ image = [u \in Updaters |-> Absent]
  /\ about \in [Feedback -> Ticks \X Kinds]
  /\ overtaken = {}
  /\ baselines = {}
  /\ tickRow = [t \in Ticks |-> NoTick]
  /\ result = [t \in Ticks |-> Unfinished]
  /\ calm = FALSE

Goes(a, from, to) == stage[a] = from /\ stage' = [stage EXCEPT ![a] = to]
Writing(a) == stage[a] \in RunningStages \cup {"read", "write"}

-----------------------------------------------------------------------------
(* Rows of experiments *)

\* ledger.create
Creates(t, k) ==
  /\ experiment' = [experiment EXCEPT ![t][k].link = "unlinked"]
  /\ UNCHANGED <<image, about, overtaken>>

\* ledger.update reads the row of an experiment ...
Reads(u, t, k) ==
  /\ image' = [image EXCEPT ![u] = experiment[t][k]]
  /\ UNCHANGED <<experiment, about, overtaken>>

\* ... and writes it with one column changed; another column that has changed since
\* is overtaken.
Saves(u, t, k, row, column) ==
  /\ experiment' = [experiment EXCEPT ![t][k] = row]
  /\ overtaken' = (overtaken \ {<<t, k, column>>}) \cup
       {<<t, k, c>> : c \in {d \in Columns \ {column} : row[d] # experiment[t][k][d]}}
  /\ image' = [image EXCEPT ![u] = Absent]
  /\ UNCHANGED about

-----------------------------------------------------------------------------
(* Entering a tick *)

Start(t) ==
  /\ Goes(t, "idle", "restart")
  /\ calm' = FALSE
  /\ UNCHANGED <<stateVars, ledgerVars>>

\* Mutant: an event also wakes a paused loop.
TriggerAlways(t) ==
  /\ Goes(t, "idle", IF loopRow.state = "running" THEN "pipeline" ELSE "restart")
  /\ UNCHANGED <<stateVars, ledgerVars, calm>>

\* An event wakes a stopped loop, not a paused one.
Trigger(t) ==
  /\ \/ loopRow.state = "paused" /\ Goes(t, "idle", "refused")
     \/ loopRow.state = "stopped" /\ Goes(t, "idle", "restart")
     \/ loopRow.state = "running" /\ Goes(t, "idle", "pipeline")
  /\ UNCHANGED <<stateVars, ledgerVars, calm>>

TickOnce(t) ==
  /\ Goes(t, "idle", "pipeline")
  /\ UNCHANGED <<stateVars, ledgerVars, calm>>

\* _save_state reads the row, to keep last_tick_id, ...
ReadLast(t) ==
  /\ Goes(t, "restart", "starting")
  /\ held' = [held EXCEPT ![t] = loopRow]
  /\ UNCHANGED <<loopRow, command, ledgerVars, calm>>

\* ... and writes it.
WriteRunning(t) ==
  /\ Goes(t, "starting", "pipeline")
  /\ loopRow' = [held[t] EXCEPT !.state = "running"]
  /\ held' = [held EXCEPT ![t] = Stopped]
  /\ UNCHANGED <<command, ledgerVars, calm>>

-----------------------------------------------------------------------------
(* tick *)

\* Collect, validate, analyze, propose, score, schedule, evaluate: any of them
\* may raise.
Pipeline(t) ==
  /\ \E next \in {"create", "fail"} : Goes(t, "pipeline", next)
  /\ UNCHANGED <<stateVars, ledgerVars, calm>>

\* _record_experiment creates the experiment, or raises ...
CreateExperiment(t) ==
  /\ \/ Goes(t, "create", "pending") /\ Creates(t, "completed")
     \/ Goes(t, "create", "fail") /\ UNCHANGED experimentVars
  /\ UNCHANGED <<stateVars, baselines, tickRow, result, calm>>

\* ... and updates its metadata: if that raises the tick does not know of it.
ReadToMark(t) ==
  /\ \/ Goes(t, "pending", "marking") /\ Reads(t, t, "completed")
     \/ Goes(t, "pending", "fail") /\ UNCHANGED experimentVars
  /\ UNCHANGED <<stateVars, baselines, tickRow, result, calm>>

MarkPending(t) ==
  /\ \/ /\ Goes(t, "marking", "baseline")
        /\ Saves(t, t, "completed", [image[t] EXCEPT !.link = "pending"], "link")
        /\ result' = [result EXCEPT ![t].experiment = "completed"]
     \/ /\ Goes(t, "marking", "fail")
        /\ image' = [image EXCEPT ![t] = Absent]
        /\ UNCHANGED <<experiment, about, overtaken, result>>
  /\ UNCHANGED <<stateVars, baselines, tickRow, calm>>

\* Mutant: the status is set before the baseline is created.
CreateBaselineAfterStatus(t) ==
  /\ Goes(t, "baseline", "save")
  /\ baselines' \in {baselines \cup {t}, baselines}
  /\ result' = [result EXCEPT ![t].status = "checkpointed"]
  /\ UNCHANGED <<stateVars, experimentVars, tickRow, calm>>

CreateBaseline(t) ==
  /\ Goes(t, "baseline", "save")
  /\ \/ /\ baselines' = baselines \cup {t}
        /\ result' = [result EXCEPT ![t].status = "checkpointed"]
     \/ UNCHANGED <<baselines, result>>
  /\ UNCHANGED <<stateVars, experimentVars, tickRow, calm>>

\* _record_failed_experiment
RecordFailed(t) ==
  /\ Goes(t, "fail", "save")
  /\ Creates(t, "failed")
  /\ UNCHANGED <<stateVars, baselines, tickRow, result, calm>>

\* Mutant: the experiment is not told.
SaveTickUnlinked(t) ==
  /\ Goes(t, "save", "stamp")
  /\ tickRow' = [tickRow EXCEPT ![t] = result[t]]
  /\ UNCHANGED <<stateVars, experimentVars, baselines, result, calm>>

\* _save_tick inserts the tick ...
SaveTick(t) ==
  /\ Goes(t, "save", "link")
  /\ tickRow' = [tickRow EXCEPT ![t] = result[t]]
  /\ UNCHANGED <<stateVars, experimentVars, baselines, result, calm>>

\* ... and names it in its experiment, again a read ...
ReadToLink(t) ==
  /\ Goes(t, "link", "linking")
  /\ Reads(t, t, result[t].experiment)
  /\ UNCHANGED <<stateVars, baselines, tickRow, result, calm>>

\* Mutant: takes every tick for a completed one.
LinkCompleted(t) ==
  /\ Goes(t, "linking", "stamp")
  /\ Saves(t, t, "completed", [image[t] EXCEPT !.link = "linked"], "link")
  /\ UNCHANGED <<stateVars, baselines, tickRow, result, calm>>

\* ... and a write of the whole row.
Link(t) ==
  /\ Goes(t, "linking", "stamp")
  /\ Saves(t, t, result[t].experiment, [image[t] EXCEPT !.link = "linked"], "link")
  /\ UNCHANGED <<stateVars, baselines, tickRow, result, calm>>

\* The tick reads the state of the loop ...
ReadState(t) ==
  /\ Goes(t, "stamp", "stamping")
  /\ held' = [held EXCEPT ![t] = loopRow]
  /\ UNCHANGED <<loopRow, command, ledgerVars, calm>>

\* ... and writes it back with its own id, whatever the state is by then.
Stamp(t) ==
  /\ Goes(t, "stamping", "over")
  /\ loopRow' = [held[t] EXCEPT !.last = t]
  /\ held' = [held EXCEPT ![t] = Stopped]
  /\ UNCHANGED <<command, ledgerVars, calm>>

\* The process dies, or an exception leaves the tick: from a callback, from
\* recording the failure, or from saving the tick.
Break(t) ==
  /\ stage[t] \in RunningStages
  /\ stage' = [stage EXCEPT ![t] = "broken"]
  /\ held' = [held EXCEPT ![t] = Stopped]
  /\ image' = [image EXCEPT ![t] = Absent]
  /\ UNCHANGED <<loopRow, command, experiment, about, overtaken, baselines, tickRow, result,
                 calm>>

-----------------------------------------------------------------------------
(* stop, pause and resume *)

Command(c) ==
  /\ Goes(c, "idle", "read")
  /\ \E s \in States : command' = [command EXCEPT ![c] = s]
  /\ calm' = (calm /\ command'[c] = "paused")
  /\ UNCHANGED <<loopRow, held, ledgerVars>>

ReadRow(c) ==
  /\ Goes(c, "read", "write")
  /\ held' = [held EXCEPT ![c] = loopRow]
  /\ UNCHANGED <<loopRow, command, ledgerVars, calm>>

WriteRow(c) ==
  /\ Goes(c, "write", "over")
  /\ loopRow' = [held[c] EXCEPT !.state = command[c]]
  /\ calm' = (calm \/ (command[c] = "paused" /\ \A a \in Actors \ {c} : ~Writing(a)))
  /\ held' = [held EXCEPT ![c] = Stopped]
  /\ command' = [command EXCEPT ![c] = "stopped"]
  /\ UNCHANGED ledgerVars

-----------------------------------------------------------------------------
(* apply_to_experiment, of an experiment that exists *)

ReadToApply(f) ==
  LET t == about[f][1]  k == about[f][2] IN
  /\ experiment[t][k].link # "absent"
  /\ Goes(f, "idle", "apply")
  /\ Reads(f, t, k)
  /\ UNCHANGED <<stateVars, baselines, tickRow, result, calm>>

SaveApplied(f) ==
  LET t == about[f][1]  k == about[f][2] IN
  /\ Goes(f, "apply", "over")
  /\ Saves(f, t, k, [image[f] EXCEPT !.fed = TRUE], "fed")
  /\ UNCHANGED <<stateVars, baselines, tickRow, result, calm>>

-----------------------------------------------------------------------------
Enter(t) == Start(t) \/ Trigger(t) \/ TickOnce(t) \/ ReadLast(t) \/ WriteRunning(t)

Tick(t) ==
  \/ Enter(t) \/ Pipeline(t) \/ CreateExperiment(t) \/ ReadToMark(t) \/ MarkPending(t)
  \/ CreateBaseline(t) \/ RecordFailed(t) \/ SaveTick(t) \/ ReadToLink(t) \/ Link(t)
  \/ ReadState(t) \/ Stamp(t) \/ Break(t)

Next ==
  \/ \E t \in Ticks : Tick(t)
  \/ \E c \in Commands : Command(c) \/ ReadRow(c) \/ WriteRow(c)
  \/ \E f \in Feedback : ReadToApply(f) \/ SaveApplied(f)

Spec == Init /\ [][Next]_vars

-----------------------------------------------------------------------------
(* Properties *)

\* The last tick the loop names is saved, whichever of the writers of loop_state
\* overwrote each other, and its experiment names it, unless feedback that was read
\* before the link was saved over it.
LinkKept(t, k) == experiment[t][k].link = "linked" \/ <<t, k, "link">> \in overtaken
LastTickIsLinked ==
  loopRow.last # NoTick =>
    /\ tickRow[loopRow.last] # NoTick
    /\ LinkKept(loopRow.last, tickRow[loopRow.last].experiment)

\* A pause that no tick and no other command was in the middle of holds until
\* the next start, stop or resume, whatever ticks and triggers come after it.
PauseHolds == calm => loopRow.state = "paused"

\* An experiment names a tick only if that tick is saved and reports that experiment,
\* whatever feedback writes over its row.  Every tick that went through is named by its
\* experiment, and feedback that was applied stays applied; only an update that had
\* read the row before can undo either.
ExperimentsAreLinked ==
  /\ \A t \in Ticks :
       /\ \A k \in Kinds : experiment[t][k].link = "linked" =>
            tickRow[t] # NoTick /\ tickRow[t].experiment = k
       /\ stage[t] = "over" =>
            tickRow[t] # NoTick /\ LinkKept(t, tickRow[t].experiment)
  /\ \A f \in Feedback : stage[f] = "over" =>
       LET t == about[f][1]  k == about[f][2]
       IN experiment[t][k].fed \/ <<t, k, "fed">> \in overtaken

\* A saved tick is checkpointed exactly when it left a baseline, and then its
\* experiment is completed; an experiment it reports exists.
TicksTellTheTruth ==
  \A t \in Ticks : tickRow[t] # NoTick =>
    /\ tickRow[t].status = "checkpointed" <=> t \in baselines
    /\ t \in baselines => tickRow[t].experiment = "completed"
    /\ tickRow[t].experiment = "completed" <=> experiment[t]["failed"].link = "absent"
    /\ experiment[t][tickRow[t].experiment].link # "absent"
=============================================================================
