-------------------------- MODULE ExperimentFeedback --------------------------
(***************************************************************************)
(* Experiments from their feedback to a baseline.  Feedback passes a gate, *)
(* is applied to the metrics of its experiment, and the experiment may be  *)
(* promoted: its metrics become the active baseline of its business line,  *)
(* against which others are compared and their risk is weighed.  Commands  *)
(* are processes of their own over one database; each read and each write  *)
(* is a transaction, and a write of an experiment is of its whole row.     *)
(*                                                                         *)
(* Values are in hundredths, latencies in milliseconds.  Feedback is       *)
(* numbered in the order of its timestamps, which is the order in which    *)
(* the commands begin, not that in which they save.                        *)
(***************************************************************************)
EXTENDS Integers, Sequences, FiniteSets, FiniteSetsExt

CONSTANTS
  Requests,    \* commands other than the ones that add feedback
  Rows,        \* the experiments as they were made: line, after, risk
  Items,       \* the sequence of feedback: experiment, signal, kind, value
  Given,       \* the metrics of a baseline made by hand
  Thresholds,  \* what the risk threshold may be set to, in thousandths
  MaxBaselines, \* bound: baselines
  None

Experiments == DOMAIN Rows
Line(e) == Rows[e].line
Lines == {Line(e) : e \in Experiments}

-----------------------------------------------------------------------------
(* The gate *)

Ranges ==
  [latency |-> [low |-> 0, high |-> 86400000, closed |-> FALSE],
   cost |-> [low |-> 0, high |-> None, closed |-> TRUE],
   success_rate |-> [low |-> 0, high |-> 100, closed |-> TRUE],
   ic_value |-> [low |-> -100, high |-> 100, closed |-> TRUE]]

\* NaN is in no range.
InRange(item) ==
  LET range == Ranges[item.signal] IN
  /\ item.kind = "number"
  /\ IF range.closed THEN item.value >= range.low ELSE item.value > range.low
  /\ range.high # None =>
       IF range.closed THEN item.value <= range.high ELSE item.value < range.high

\* The command stamps what it adds with the present, which is never refused.
Validate(item) ==
  IF item.signal = "" \/ item.kind = "text" THEN "reject"
  ELSE IF item.signal \in DOMAIN Ranges /\ ~InRange(item) THEN "warn" ELSE "pass"

-----------------------------------------------------------------------------
(* Comparison and risk *)

LowerIsBetter(name) == name \in {"latency", "cost", "error", "loss", "drawdown"}

\* The sign of an improvement relative to the baseline; there is none on zero.
MetricScore(name, from, to) ==
  IF from = 0 \/ from = to THEN 0
  ELSE IF (to > from) # LowerIsBetter(name) THEN 1 ELSE -1

Winner(base, metrics) ==
  LET score == MapThenSumSet(LAMBDA name : MetricScore(name, base[name], metrics[name]),
                             DOMAIN base \cap DOMAIN metrics)
  IN IF score > 0 THEN "experiment" ELSE IF score < 0 THEN "baseline" ELSE "tie"

\* In thousandths, as are the parts of a risk.
BlastRadius(risk) ==
  IF risk.blast # None THEN risk.blast
  ELSE CASE risk.action = "parameter_tune" -> 425
         [] risk.action = "strategy_switch" -> 950
         [] risk.action = "resource_realloc" -> 700
         [] OTHER -> 500

\* Mutant: the blast radius counts twice.
TotalRiskUnweighted(risk) ==
  (30 * risk.magnitude + 40 * BlastRadius(risk) + 20 * (1000 - risk.reversibility)
     + 15 * (1000 - risk.confidence) + 15 * (IF risk.compliant THEN 0 ELSE 1000)) \div 100

TotalRisk(risk) ==
  (30 * risk.magnitude + 20 * BlastRadius(risk) + 20 * (1000 - risk.reversibility)
     + 15 * (1000 - risk.confidence) + 15 * (IF risk.compliant THEN 0 ELSE 1000)) \div 100

-----------------------------------------------------------------------------
VARIABLES
  stage,      \* how far each command has come
  held,       \* what it has read: an experiment, its row, a baseline or a verdict
  adding,     \* how far each item of feedback has come
  quality,    \* feedback_quality: the status of each item
  feedback,   \* the items in table feedback
  experiment, \* rows of experiments: after_metrics, and the tick in the metadata
  baselines,  \* the rows of baselines, oldest first
  threshold,  \* risk_config, 600 when there is none
  applied,    \* history: what was applied to each experiment, and linked
  behind,     \* history: columns that were written by another since a command read them
  torn        \* history: columns of experiments that were written from such a read

vars == <<stage, held, adding, quality, feedback, experiment, baselines, threshold,
          applied, behind, torn>>
feedbackVars == <<adding, quality, feedback>>
rowVars == <<experiment, applied, behind, torn>>

Columns == {"after", "linked"}
Nothing ==
  [experiment |-> None, row |-> None, items |-> {}, baseline |-> 0, verdict |-> None]

TypeOK ==
  /\ stage \in [Requests -> {"idle", "list", "reread", "save", "link", "create", "switch",
                             "active", "threshold", "over"}]
  /\ adding \in [DOMAIN Items -> {"idle", "add", "over"}]
  /\ quality \in [DOMAIN Items -> {"none", "pass", "warn", "reject"}]
  /\ feedback \subseteq DOMAIN Items
  /\ \A e \in Experiments :
       /\ \A s \in DOMAIN experiment[e].after : experiment[e].after[s] \in Int
       /\ experiment[e].linked \in BOOLEAN
       /\ TotalRisk(Rows[e].risk) \in 0 .. 1000
  /\ \A i \in DOMAIN baselines : baselines[i].line \in Lines /\ baselines[i].active \in BOOLEAN
  /\ threshold \in Thresholds \cup {600}
  /\ behind \subseteq Requests \X Columns /\ torn \subseteq Experiments \X Columns

\* As "experiment run-demo" leaves it: experiments with their metrics.
Init ==
  /\ stage = [q \in Requests |-> "idle"]
  /\ held = [q \in Requests |-> Nothing]
  /\ adding = [i \in DOMAIN Items |-> "idle"]
  /\ quality = [i \in DOMAIN Items |-> "none"]
  /\ feedback = {}
  /\ experiment = [e \in Experiments |-> [after |-> Rows[e].after, linked |-> FALSE]]
  /\ baselines = <<>>
  /\ threshold = 600
  /\ applied = [e \in Experiments |-> [items |-> {}, linked |-> FALSE]]
  /\ behind = {} /\ torn = {}

Goes(q, from, to) == stage[q] = from /\ stage' = [stage EXCEPT ![q] = to]
GoesFrom(q, from, to, e) ==
  /\ Goes(q, from, to)
  /\ held' = [held EXCEPT ![q] = [@ EXCEPT !.experiment = e, !.row = experiment[e]]]
Undisturbed == UNCHANGED <<feedbackVars, baselines, threshold>>

-----------------------------------------------------------------------------
(* Feedback: what the gate says of it is saved, then, unless it rejects it, *)
(* the feedback.  NaN is no value of a column that must have one.           *)

SaveQuality(i) ==
  /\ adding[i] = "idle"
  /\ \A j \in 1 .. i - 1 : adding[j] # "idle"
  /\ quality' = [quality EXCEPT ![i] = Validate(Items[i])]
  /\ adding' = [adding EXCEPT ![i] = IF quality'[i] = "reject" THEN "over" ELSE "add"]
  /\ UNCHANGED <<stage, held, feedback, rowVars, baselines, threshold>>

AddFeedback(i) ==
  /\ adding[i] = "add"
  /\ adding' = [adding EXCEPT ![i] = "over"]
  /\ feedback' = IF Items[i].kind = "number" THEN feedback \cup {i} ELSE feedback
  /\ UNCHANGED <<stage, held, quality, rowVars, baselines, threshold>>

-----------------------------------------------------------------------------
(* Rows of experiments *)

\* The whole row is written; who has read it is behind, and what is written
\* from a read that is behind is torn.
SavesRow(q, row) ==
  LET e == held[q].experiment
      others == {p \in Requests \ {q} : held[p].experiment = e /\ stage[p] # "over"}
  IN /\ experiment' = [experiment EXCEPT ![e] = row]
     /\ behind' = behind \cup (others \X Columns)
     /\ torn' = torn \cup {<<e, c>> : c \in {d \in Columns : <<q, d>> \in behind}}

Latest(items, signal) == CHOOSE i \in items :
  /\ Items[i].signal = signal
  /\ \A j \in items : Items[j].signal = signal => j <= i

WithFeedback(metrics, items) ==
  LET signals == {Items[i].signal : i \in items}
  IN [s \in DOMAIN metrics \cup signals |->
        IF s \in signals THEN Items[Latest(items, s)].value ELSE metrics[s]]

\* apply_to_experiment reads the experiment, then its feedback ...
ReadToApply(q, e) ==
  /\ GoesFrom(q, "idle", "list", e)
  /\ UNCHANGED rowVars /\ Undisturbed

\* Whatever was applied in the meantime is among it.
ListFeedback(q) ==
  LET items == {i \in feedback : Items[i].experiment = held[q].experiment} IN
  /\ Goes(q, "list", "reread")
  /\ held' = [held EXCEPT ![q].items = items,
                          ![q].row.after = WithFeedback(@, items)]
  /\ behind' = behind \ {<<q, "after">>}
  /\ UNCHANGED <<experiment, applied, torn>> /\ Undisturbed

\* Mutant: update writes the row that apply has read.
KeepFirstRow(q) ==
  /\ Goes(q, "reread", "save")
  /\ behind' = behind \ {<<q, "linked">>}
  /\ UNCHANGED <<held, experiment, applied, torn>> /\ Undisturbed

\* ... and the update reads the row again, for all but the metrics ...
RereadRow(q) ==
  /\ Goes(q, "reread", "save")
  /\ held' = [held EXCEPT ![q].row.linked = experiment[held[q].experiment].linked]
  /\ behind' = behind \ {<<q, "linked">>}
  /\ UNCHANGED <<experiment, applied, torn>> /\ Undisturbed

\* ... before it is saved.
SaveApplied(q) ==
  LET e == held[q].experiment IN
  /\ Goes(q, "save", "over")
  /\ SavesRow(q, held[q].row)
  /\ applied' = [applied EXCEPT ![e].items = @ \cup held[q].items]
  /\ UNCHANGED held /\ Undisturbed

\* A tick of the experiment loop links its experiment in the same way.
ReadToLink(q, e) ==
  /\ GoesFrom(q, "idle", "link", e)
  /\ UNCHANGED rowVars /\ Undisturbed

SaveLink(q) ==
  LET e == held[q].experiment IN
  /\ Goes(q, "link", "over")
  /\ SavesRow(q, [held[q].row EXCEPT !.linked = TRUE])
  /\ applied' = [applied EXCEPT ![e].linked = TRUE]
  /\ UNCHANGED held /\ Undisturbed

-----------------------------------------------------------------------------
(* Baselines: one transaction makes one active and all others of its line not *)

Deactivated(line) ==
  [i \in DOMAIN baselines |->
     IF baselines[i].line = line THEN [baselines[i] EXCEPT !.active = FALSE] ELSE baselines[i]]

Creates(line, metrics, e) ==
  /\ Len(baselines) < MaxBaselines
  /\ baselines' = Append(Deactivated(line),
                         [line |-> line, metrics |-> metrics, experiment |-> e, active |-> TRUE])

CreateBaseline(line) ==
  /\ Creates(line, Given, None)
  /\ UNCHANGED <<stage, held, feedbackVars, rowVars, threshold>>

\* set_baseline promotes the metrics it has read.
ReadToPromote(q, e) ==
  /\ GoesFrom(q, "idle", "create", e)
  /\ UNCHANGED rowVars /\ Undisturbed

Promote(q) ==
  /\ Goes(q, "create", "over")
  /\ Creates(Line(held[q].experiment), held[q].row.after, held[q].experiment)
  /\ UNCHANGED <<held, feedbackVars, rowVars, threshold>>

\* set_active finds the baseline in a transaction before the one that switches.
FindToActivate(q, i) ==
  /\ Goes(q, "idle", "switch")
  /\ held' = [held EXCEPT ![q].baseline = i]
  /\ UNCHANGED rowVars /\ Undisturbed

SetActive(q) ==
  LET i == held[q].baseline IN
  /\ Goes(q, "switch", "over")
  /\ baselines' = [Deactivated(baselines[i].line) EXCEPT ![i].active = TRUE]
  /\ UNCHANGED <<held, feedbackVars, rowVars, threshold>>

Active(line) == {i \in DOMAIN baselines : baselines[i].line = line /\ baselines[i].active}

\* A comparison reads the experiment, then the newest active baseline.
ReadToCompare(q, e) ==
  /\ GoesFrom(q, "idle", "active", e)
  /\ UNCHANGED rowVars /\ Undisturbed

Compare(q) ==
  LET active == Active(Line(held[q].experiment)) IN
  /\ Goes(q, "active", "over")
  /\ held' = IF active = {} THEN held
             ELSE [held EXCEPT
                     ![q].baseline = Max(active),
                     ![q].verdict = Winner(baselines[Max(active)].metrics, held[q].row.after)]
  /\ UNCHANGED rowVars /\ Undisturbed

-----------------------------------------------------------------------------
(* Risk *)

SetThreshold(t) ==
  /\ t # threshold /\ threshold' = t
  /\ UNCHANGED <<stage, held, feedbackVars, rowVars, baselines>>

ReadToScore(q, e) ==
  /\ GoesFrom(q, "idle", "threshold", e)
  /\ UNCHANGED rowVars /\ Undisturbed

ScoreExperiment(q) ==
  /\ Goes(q, "threshold", "over")
  /\ held' = [held EXCEPT ![q].verdict =
                IF TotalRisk(Rows[held[q].experiment].risk) > threshold THEN "review" ELSE "auto"]
  /\ UNCHANGED rowVars /\ Undisturbed

-----------------------------------------------------------------------------
Next ==
  \/ \E i \in DOMAIN Items : SaveQuality(i) \/ AddFeedback(i)
  \/ \E q \in Requests :
       \/ \E e \in Experiments :
            ReadToApply(q, e) \/ ReadToLink(q, e) \/ ReadToPromote(q, e)
              \/ ReadToCompare(q, e) \/ ReadToScore(q, e)
       \/ ListFeedback(q) \/ RereadRow(q) \/ SaveApplied(q) \/ SaveLink(q)
       \/ Promote(q) \/ Compare(q) \/ ScoreExperiment(q)
       \/ \E i \in DOMAIN baselines : FindToActivate(q, i)
       \/ SetActive(q)
  \/ \E line \in Lines : CreateBaseline(line)
  \/ \E t \in Thresholds : SetThreshold(t)

Spec == Init /\ [][Next]_vars

-----------------------------------------------------------------------------
(* Properties *)

Counts(i) == Items[i].signal # "" /\ Items[i].kind = "number"

\* What has been applied to an experiment stays, the latest feedback of each
\* signal, as does its link to a tick, unless the column was written from a read
\* that another write had overtaken.
AppliedStays ==
  \A e \in Experiments :
    /\ <<e, "after">> \notin torn => \A i \in applied[e].items :
         LET signal == Items[i].signal
         IN experiment[e].after[signal] = Items[Latest(applied[e].items, signal)].value
    /\ <<e, "linked">> \notin torn => (applied[e].linked => experiment[e].linked)

\* Metrics of a promoted experiment are those it was made with or feedback of it
\* that has a name, is a number and was saved with its quality; a business line
\* that has baselines has one active; and what is compared with the baseline it
\* was promoted to neither wins nor loses.
BaselinesAreBacked ==
  /\ \A i \in DOMAIN baselines :
       /\ Cardinality(Active(baselines[i].line)) = 1
       /\ LET e == baselines[i].experiment
              m == baselines[i].metrics
          IN e # None =>
               \A s \in DOMAIN m :
                 \/ s \in DOMAIN Rows[e].after /\ m[s] = Rows[e].after[s]
                 \/ \E j \in feedback :
                      /\ Items[j].experiment = e /\ Items[j].signal = s /\ Items[j].value = m[s]
                      /\ Counts(j) /\ quality[j] \in {"pass", "warn"}
  /\ \A q \in Requests :
       held[q].verdict \in {"experiment", "baseline"}
         => baselines[held[q].baseline].metrics # held[q].row.after

FeedbackCounts == AppliedStays /\ BaselinesAreBacked
=============================================================================
