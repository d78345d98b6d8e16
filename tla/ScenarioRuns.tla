------------------------------ MODULE ScenarioRuns ------------------------------
(***************************************************************************)
(* Runs of one scenario.  A command loads the scenarios into a registry of *)
(* its own, checks that the scenario is not archived, and lets its adapter *)
(* run in a thread it waits for, up to a timeout; the thread goes on if it *)
(* is not waited for.  What the run has come to is saved in two logs, one  *)
(* transaction each.  Other commands archive the scenario or save it anew. *)
(*                                                                         *)
(* A configuration of the scenario is a number; what an adapter returns or *)
(* raises is one of Results.                                               *)
(***************************************************************************)
EXTENDS Integers, Sequences, FiniteSets

CONSTANTS
  Runs,        \* commands that run the scenario
  Clerks,      \* commands that archive it
  Results,     \* of the adapter: status, error and metrics, or what it raises
  MaxConfig,   \* bound: configurations saved
  None

VARIABLES
  stage,     \* how far each command has come
  held,      \* what it has read, or is about to save
  scenario,  \* the row: its configuration, and whether it is archived
  adapter,   \* what the adapter thread of each run is doing
  raw,       \* raw_logs, by run
  summaries, \* summary_logs, in their order: run, status, error and metrics
  creates,   \* configurations saved so far
  torn       \* history: an archive wrote over a configuration it had not read

runVars == <<scenario, adapter, raw, summaries, creates, torn>>

Working == [status |-> "working"]
\* It works on, or has answered, when it was no longer waited for.
Abandoned == [status |-> "abandoned"]
Late(answer) == [status |-> "late", answer |-> answer]
NoMetrics == [m \in {} |-> 0]
Failed(error) == [status |-> "failed", error |-> error, metrics |-> NoMetrics]
Archived(row) == [row EXCEPT !.archived = TRUE]

\* What the runner makes of an answer: it keeps what is returned, failures with an
\* error and metrics of the adapter's own too.
Verdict(answer) == IF answer.status = "raises" THEN Failed(answer.error) ELSE answer

RunTypeOK ==
  /\ \A r \in Runs : stage[r] \in {"idle", "check", "wait", "raw", "summary", "over"}
  /\ \A c \in Clerks : stage[c] \in {"idle", "archive", "over"}
  /\ scenario.config \in 1 .. MaxConfig /\ scenario.archived \in BOOLEAN
  /\ \A r \in Runs :
       \/ adapter[r] \in Results \cup {None, Working, Abandoned}
       \/ \E answer \in Results : adapter[r] = Late(answer)
  /\ DOMAIN raw \subseteq Runs
  /\ \A i \in DOMAIN summaries : summaries[i].run \in Runs

RunInit ==
  /\ scenario = [config |-> 1, archived |-> FALSE]
  /\ adapter = [r \in Runs |-> None]
  /\ raw = <<>> /\ summaries = <<>>
  /\ creates = 1 /\ torn = FALSE

Goes(p, from, to) == stage[p] = from /\ stage' = [stage EXCEPT ![p] = to]
Holds(p, x) == held' = [held EXCEPT ![p] = x]
Ends(p, from) == Goes(p, from, "over") /\ Holds(p, None)

-----------------------------------------------------------------------------
(* A run *)

LoadRegistry(r) ==
  /\ Goes(r, "idle", "check")
  /\ Holds(r, scenario)
  /\ UNCHANGED runVars

\* The copy that was loaded decides, and gives the configuration.
RefuseArchived(r) ==
  /\ stage[r] = "check" /\ held[r].archived
  /\ Ends(r, "check")
  /\ UNCHANGED runVars

StartAdapter(r) ==
  /\ stage[r] = "check" /\ ~held[r].archived
  /\ Goes(r, "check", "wait")
  /\ adapter' = [adapter EXCEPT ![r] = Working]
  /\ UNCHANGED <<held, scenario, raw, summaries, creates, torn>>

\* Whether or not it is still waited for.
AdapterAnswers(r, answer) ==
  /\ adapter[r] \in {Working, Abandoned}
  /\ adapter' = [adapter EXCEPT ![r] = IF @ = Working THEN answer ELSE Late(answer)]
  /\ UNCHANGED <<stage, held, scenario, raw, summaries, creates, torn>>

TakeAnswer(r) ==
  /\ adapter[r] \in Results
  /\ Goes(r, "wait", "raw")
  /\ Holds(r, [config |-> held[r].config, verdict |-> Verdict(adapter[r])])
  /\ UNCHANGED runVars

TimeOut(r) ==
  /\ adapter[r] = Working
  /\ Goes(r, "wait", "raw")
  /\ Holds(r, [config |-> held[r].config, verdict |-> Failed("timeout")])
  /\ adapter' = [adapter EXCEPT ![r] = Abandoned]
  /\ UNCHANGED <<scenario, raw, summaries, creates, torn>>

SaveRaw(r) ==
  /\ Goes(r, "raw", "summary")
  /\ raw' = [x \in DOMAIN raw \cup {r} |-> IF x = r THEN held[r] ELSE raw[x]]
  /\ UNCHANGED <<held, scenario, adapter, summaries, creates, torn>>

\* Mutant: the summary is of what the adapter has answered by now.
SummarizeLate(r) ==
  LET verdict == IF adapter[r].status = "late" THEN Verdict(adapter[r].answer)
                 ELSE held[r].verdict IN
  /\ Ends(r, "summary")
  /\ summaries' = Append(summaries, [run |-> r, verdict |-> verdict])
  /\ UNCHANGED <<scenario, adapter, raw, creates, torn>>

SaveSummary(r) ==
  /\ Ends(r, "summary")
  /\ summaries' = Append(summaries, [run |-> r, verdict |-> held[r].verdict])
  /\ UNCHANGED <<scenario, adapter, raw, creates, torn>>

\* The command is killed, and its adapter with it.
KillRun(r) ==
  /\ stage[r] \in {"wait", "raw", "summary"} /\ Ends(r, stage[r])
  /\ adapter' = [adapter EXCEPT ![r] = IF @ \in {Working, Abandoned} THEN None ELSE @]
  /\ UNCHANGED <<scenario, raw, summaries, creates, torn>>

-----------------------------------------------------------------------------
(* The scenario: archived in two transactions, of the whole row, or saved anew, *)
(* which makes it active again                                               *)

ReadToArchive(c) ==
  /\ Goes(c, "idle", "archive")
  /\ Holds(c, scenario)
  /\ UNCHANGED runVars

SaveArchived(c) ==
  /\ Ends(c, "archive")
  /\ scenario' = Archived(held[c])
  /\ torn' = (torn \/ held[c].config # scenario.config)
  /\ UNCHANGED <<adapter, raw, summaries, creates>>

SaveScenario ==
  /\ creates < MaxConfig /\ creates' = creates + 1
  /\ scenario' = [config |-> creates', archived |-> FALSE]
  /\ torn' = FALSE
  /\ UNCHANGED <<stage, held, adapter, raw, summaries>>

RunNext ==
  \/ \E r \in Runs :
       \/ LoadRegistry(r) \/ RefuseArchived(r) \/ StartAdapter(r)
       \/ \E answer \in Results : AdapterAnswers(r, answer)
       \/ TakeAnswer(r) \/ TimeOut(r) \/ SaveRaw(r) \/ SaveSummary(r) \/ KillRun(r)
  \/ \E c \in Clerks : ReadToArchive(c) \/ SaveArchived(c)
  \/ SaveScenario

-----------------------------------------------------------------------------
(* Properties *)

\* A summary is of a run whose raw log says the same, saved once: what the adapter
\* answered if it was still waited for, and if not the runner's own failure, without
\* metrics, whatever it answers later.  And the scenario keeps its last configuration
\* unless an archive overwrote it.
Outcome(r) == IF adapter[r] \in Results THEN Verdict(adapter[r]) ELSE Failed("timeout")
RunsAreRecorded ==
  /\ \A i \in DOMAIN summaries :
       LET s == summaries[i] IN
       /\ s.run \in DOMAIN raw /\ raw[s.run].verdict = s.verdict
       /\ s.verdict = Outcome(s.run)
       /\ \A j \in DOMAIN summaries : summaries[j].run = s.run => i = j
  /\ ~torn => scenario.config = creates
=============================================================================
