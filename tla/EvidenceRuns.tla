---------------------------- MODULE EvidenceRuns ----------------------------
(***************************************************************************)
(* Runs of external workflows as evidence: they are ingested, again under  *)
(* the same id if need be, one is made the baseline of its workflow, pairs *)
(* are compared, and a comparison that is good enough becomes a proposal.  *)
(* A drill ingests runs of its own, compares the best of them and says     *)
(* whether to trade on paper.  Each read and each write of the store is a  *)
(* transaction of its own, so requests interleave between any two of them. *)
(*                                                                         *)
(* What is ingested under an id is a payload; a report is known by the two *)
(* payloads it compares, since it is a function of them, and so are the    *)
(* visualization and the report kept beside a run.                         *)
(***************************************************************************)
EXTENDS EvidenceScoring, SequencesExt

CONSTANTS
  Payloads,       \* what may be ingested
  Content,        \* the run that a payload is: a record, with an id and a workflow
  Setters,        \* requests to set a baseline
  Comparers,      \* requests to compare a candidate with the baseline
  Drafters,       \* requests to compare two runs, and to propose the candidate if they may
  Drills,         \* drills
  DrillBaseline,  \* the payload of the baseline of a drill
  DrillRuns,      \* the sequence of the payloads of its candidates
  Compared,       \* how many candidates a drill compares
  MaxRequests,    \* bound: requests that are made at all
  MaxPayloads     \* bound: payloads that are ingested

IdOf(p) == Content[p].id
WorkflowOf(p) == Content[p].workflow
Runs == {IdOf(p) : p \in Payloads}
Workflows == {WorkflowOf(p) : p \in Payloads}
Pairs == Runs \X Runs
Requests == Setters \cup Comparers \cup Drafters \cup Drills

\* Mutant: the report gives the decision, not what it recommends.
ReportOfDecision(b, c) ==
  LET cmp == Comparison(b.metrics, c.metrics, Registry(c), c.kind, SampleCount(c.metrics))
  IN [comparison |-> cmp, recommendation |-> Decision(cmp), quality |-> Quality(c)]

\* The report of a comparison, by the schemas and the quality of the candidate.
Report(b, c) ==
  LET cmp == Comparison(b.metrics, c.metrics, Registry(c), c.kind, SampleCount(c.metrics))
  IN [comparison |-> cmp, recommendation |-> ComparisonRecommendation(cmp), quality |-> Quality(c)]

ReportOf(pair) == Report(Content[pair[1]], Content[pair[2]])
ReportsAreTyped ==
  \A pair \in Payloads \X Payloads :
    /\ ReportOf(pair).recommendation \in Recommendations
    /\ ReportOf(pair).quality \in {"accepted", "warning", "rejected"}

VARIABLES
  stage,     \* how far each request has come
  asked,     \* the runs it is about: <<baseline, candidate>>
  held,      \* what it has in memory: a workflow, a payload, two of them compared
  done,      \* how many steps of its present phase a drill has done
  results,   \* the comparisons of a drill, in order
  row,       \* evidence_runs
  baseline,  \* evidence_baselines
  report,    \* evidence_comparison_reports
  proposals, \* the pairs proposed for approval
  ingested,  \* history: the payloads that were ingested
  outdated   \* history: pairs and comparisons of runs replaced since they were read

vars == <<stage, asked, held, done, results, row, baseline, report, proposals, ingested, outdated>>
requestVars == <<asked, held, done, results>>
runVars == <<row, ingested>>

TypeOK ==
  /\ stage \in [Requests -> {"idle", "baseline", "write", "read", "compare", "save",
                             "propose", "select", "over"}]
  /\ asked \in [Requests -> (Runs \cup {None}) \X (Runs \cup {None})]
  /\ DOMAIN held = Requests \* what it holds depends on its stage
  /\ done \in [Drills -> 0 .. Len(DrillRuns) + 1]
  /\ results \in [Drills -> Seq(Payloads \X Payloads)]
  /\ row \in [Runs -> Payloads \cup {None}]
  /\ baseline \in [Workflows -> Runs \cup {None}]
  /\ report \in [Runs -> [Runs -> (Payloads \X Payloads) \cup {None}]]
  /\ ReportsAreTyped
  /\ proposals \subseteq Pairs
  /\ ingested \subseteq Payloads
  /\ outdated \subseteq Pairs \cup Requests

Init ==
  /\ stage = [q \in Requests |-> "idle"]
  /\ asked = [q \in Requests |-> <<None, None>>]
  /\ held = [q \in Requests |-> None]
  /\ done = [d \in Drills |-> 0]
  /\ results = [d \in Drills |-> <<>>]
  /\ row = [r \in Runs |-> None]
  /\ baseline = [w \in Workflows |-> None]
  /\ report = [b \in Runs |-> [c \in Runs |-> None]]
  /\ proposals = {} /\ ingested = {} /\ outdated = {}

Goes(q, from, to) == stage[q] = from /\ stage' = [stage EXCEPT ![q] = to]
Made == {q \in Requests : stage[q] # "idle" \/ (q \in Drills /\ done[q] > 0)}
Starts(q, to) == Cardinality(Made) < MaxRequests /\ Goes(q, "idle", to)

-----------------------------------------------------------------------------
(* Ingestion: the run and what is derived from it are one row, by id *)

\* What was read or compared before is outdated if the run changes.
Replaced(id) ==
  {pair \in Pairs : id \in {pair[1], pair[2]}}
    \cup {q \in Requests : stage[q] \in {"compare", "save"} /\ id \in {asked[q][1], asked[q][2]}}

Saves(p) ==
  /\ Cardinality(ingested \cup {p}) <= MaxPayloads
  /\ row' = [row EXCEPT ![IdOf(p)] = p]
  /\ ingested' = ingested \cup {p}
  /\ outdated' = outdated \cup (IF row[IdOf(p)] = p THEN {} ELSE Replaced(IdOf(p)))

Ingest(p) == Saves(p) /\ UNCHANGED <<stage, requestVars, baseline, report, proposals>>

-----------------------------------------------------------------------------
(* Baselines *)

\* Setting a baseline: the run is there and of the workflow ...
CheckBaseline(s, w) ==
  /\ s \in Setters
  /\ \E r \in Runs :
       /\ row[r] # None /\ WorkflowOf(row[r]) = w
       /\ asked' = [asked EXCEPT ![s] = <<r, None>>]
  /\ Starts(s, "write")
  /\ held' = [held EXCEPT ![s] = w]
  /\ UNCHANGED <<done, results, runVars, baseline, report, proposals, outdated>>

\* ... then its id is written.
SetBaseline(s) ==
  /\ s \in Setters
  /\ Goes(s, "write", "over")
  /\ baseline' = [baseline EXCEPT ![held[s]] = asked[s][1]]
  /\ UNCHANGED <<requestVars, runVars, report, proposals, outdated>>

-----------------------------------------------------------------------------
(* Comparisons *)

\* A comparison with the baseline of the workflow of the candidate ...
FindCandidate(q) ==
  /\ q \in Comparers
  /\ Starts(q, "baseline")
  /\ \E r \in Runs :
       /\ row[r] # None
       /\ asked' = [asked EXCEPT ![q] = <<None, r>>]
       /\ held' = [held EXCEPT ![q] = WorkflowOf(row[r])]
  /\ UNCHANGED <<done, results, runVars, baseline, report, proposals, outdated>>

\* ... which is read next; without one the request is refused.
FindBaseline(q) ==
  /\ Goes(q, "baseline", IF baseline[held[q]] = None THEN "over" ELSE "read")
  /\ asked' = [asked EXCEPT ![q] = <<baseline[held[q]], @[2]>>]
  /\ UNCHANGED <<held, done, results, runVars, baseline, report, proposals, outdated>>

\* A request that names both runs; one for no more than a comparison ends before
\* it proposes.
AskFor(q, pair) ==
  /\ q \in Drafters /\ pair[1] # pair[2]
  /\ Starts(q, "read")
  /\ asked' = [asked EXCEPT ![q] = pair]
  /\ UNCHANGED <<held, done, results, runVars, baseline, report, proposals, outdated>>

\* compare reads one run ...
ReadBaselineRun(q) ==
  /\ Goes(q, "read", "compare")
  /\ held' = [held EXCEPT ![q] = row[asked[q][1]]]
  /\ outdated' = outdated \ {q}
  /\ UNCHANGED <<asked, done, results, runVars, baseline, report, proposals>>

\* ... and the other, and raises if either is missing ...
ReadCandidateRun(q) ==
  LET candidate == row[asked[q][2]]
      missing == held[q] = None \/ candidate = None
  IN /\ Goes(q, "compare", IF missing THEN "over" ELSE "save")
     /\ held' = [held EXCEPT ![q] = IF missing THEN None ELSE <<held[q], candidate>>]
     /\ UNCHANGED <<asked, done, results, runVars, baseline, report, proposals, outdated>>

\* What may become a proposal.
StrongEnough ==
  {pair \in Payloads \X Payloads :
     ReportOf(pair).recommendation = "approve" /\ ReportOf(pair).quality # "rejected"}

AfterSaving(q) ==
  CASE q \in Drills -> "select"
    [] q \in Drafters /\ held[q] \in StrongEnough -> "propose"
    [] OTHER -> "over"

\* Mutant: the first report of a pair stays.
SaveReportOnce(q) ==
  /\ Goes(q, "save", AfterSaving(q))
  /\ report' = [report EXCEPT ![asked[q][1]][asked[q][2]] = IF @ = None THEN held[q] ELSE @]
  /\ outdated' = (outdated \ {q, asked[q]}) \cup (IF q \in outdated THEN {asked[q]} ELSE {})
  /\ results' = IF q \in Drills
                  THEN [results EXCEPT ![q] = Append(@, held[q])] ELSE results
  /\ UNCHANGED <<asked, held, done, runVars, baseline, proposals>>

\* ... and saves the report under the ids of the pair.
SaveReport(q) ==
  /\ Goes(q, "save", AfterSaving(q))
  /\ report' = [report EXCEPT ![asked[q][1]][asked[q][2]] = held[q]]
  /\ outdated' = (outdated \ {q, asked[q]}) \cup (IF q \in outdated THEN {asked[q]} ELSE {})
  /\ results' = IF q \in Drills
                  THEN [results EXCEPT ![q] = Append(@, held[q])] ELSE results
  /\ UNCHANGED <<asked, held, done, runVars, baseline, proposals>>

CreateProposal(q) ==
  /\ Goes(q, "propose", "over")
  /\ proposals' = proposals \cup {asked[q]}
  /\ UNCHANGED <<requestVars, runVars, baseline, report, outdated>>

-----------------------------------------------------------------------------
(* The drill *)

DrillPayloads == <<DrillBaseline>> \o DrillRuns

\* It ingests its baseline and its candidates one after the other ...
DrillIngest(d) ==
  /\ d \in Drills
  /\ stage[d] = "idle" /\ (done[d] > 0 \/ Cardinality(Made) < MaxRequests)
  /\ Saves(DrillPayloads[done[d] + 1])
  /\ LET last == done[d] + 1 = Len(DrillPayloads)
     IN /\ stage' = [stage EXCEPT ![d] = IF last THEN "select" ELSE "idle"]
        /\ done' = [done EXCEPT ![d] = IF last THEN 0 ELSE @ + 1]
  /\ UNCHANGED <<asked, held, results, baseline, report, proposals>>

\* ... takes the best by Sharpe ratio, drawdown and excess return ...
Better(p, q) ==
  LET of(x) == Content[x].metrics
      key(x) == <<of(x)["sharpe"], -of(x)["max_drawdown"], of(x)["excess_return"]>>
  IN \E i \in 1 .. 3 :
       key(p)[i] > key(q)[i] /\ \A j \in 1 .. i - 1 : key(p)[j] = key(q)[j]

Selected ==
  LET first(i, j) == Better(DrillRuns[i], DrillRuns[j])
                       \/ (~Better(DrillRuns[j], DrillRuns[i]) /\ i < j)
  IN SubSeq(SetToSortSeq(DOMAIN DrillRuns, first), 1, Least(Compared, Len(DrillRuns)))

\* ... compares each with the baseline ...
DrillNext(d) ==
  /\ d \in Drills /\ done[d] < Len(Selected)
  /\ Goes(d, "select", "read")
  /\ asked' = [asked EXCEPT ![d] = <<IdOf(DrillBaseline), IdOf(DrillRuns[Selected[done[d] + 1]])>>]
  /\ done' = [done EXCEPT ![d] = @ + 1]
  /\ UNCHANGED <<held, results, runVars, baseline, report, proposals, outdated>>

\* ... and reviews the one with the best score, the first of several.
Compares == Payloads \X Payloads
AsGood ==
  {c \in Compares \X Compares :
     LET x == ReportOf(c[1]).comparison
         y == ReportOf(c[2]).comparison
     IN x.sum * y.weight >= y.sum * x.weight}

Best(compared) ==
  compared[CHOOSE i \in DOMAIN compared :
             /\ \A j \in DOMAIN compared : <<compared[i], compared[j]>> \in AsGood
             /\ \A j \in 1 .. i - 1 : <<compared[j], compared[i]>> \notin AsGood]

Delta(cmp, name) == IF name \in DOMAIN cmp.diffs THEN cmp.diffs[name] ELSE 0

BreakingGuardrails == {pair \in Compares : ReportOf(pair).comparison.violations # {}}
EnteringPaper ==
  {pair \in Compares \ BreakingGuardrails :
     LET cmp == ReportOf(pair).comparison
     IN cmp.samples >= 252 /\ Delta(cmp, "total_return") <= 12 /\ cmp.sum > 0}

PaperTradeRecommendation(pair) ==
  IF pair \in BreakingGuardrails THEN "reject"
  ELSE IF pair \in EnteringPaper THEN "enter_paper" ELSE "continue_shadow"

DrillReview(d) ==
  /\ d \in Drills /\ done[d] = Len(Selected)
  /\ Goes(d, "select", "over")
  /\ LET best == Best(results[d])
     IN /\ asked' = [asked EXCEPT ![d] = <<IdOf(best[1]), IdOf(best[2])>>]
        /\ held' = [held EXCEPT ![d] = PaperTradeRecommendation(best)]
  /\ UNCHANGED <<done, results, runVars, baseline, report, proposals, outdated>>

-----------------------------------------------------------------------------
\* The requests are of one kind each, and what a drill is given are payloads.  The
\* metrics of a run are numbers, and so are the weights and the thresholds of the
\* schemas it gives: no weight is negative, which the code leaves to whoever writes
\* the schema.  Of the operator that sorts: the selected candidates are candidates.
ASSUME EvidenceAssumption ==
  /\ Setters \cap (Comparers \cup Drafters \cup Drills) = {}
  /\ Comparers \cap (Drafters \cup Drills) = {} /\ Drafters \cap Drills = {}
  /\ Requests \cap Pairs = {}
  /\ None \notin Runs \cup Payloads \cup Compares \cup {"enter_paper"}
  /\ DrillBaseline \in Payloads /\ DrillRuns \in Seq(Payloads)
  /\ Selected \in Seq(DOMAIN DrillRuns) /\ Len(Selected) \in 1 .. Len(DrillRuns)
  /\ \A p \in Payloads :
       LET run == Content[p] IN
       /\ IsFiniteSet(run.nodes) /\ SampleCount(run.metrics) \in Nat
       /\ run.metrics \in [DOMAIN run.metrics -> Int] /\ IsFiniteSet(DOMAIN run.metrics)
       /\ \A name \in DOMAIN run.schema :
            run.schema[name].weight \in Nat /\ run.schema[name].threshold \in Int \cup {None}

Next ==
  \/ \E p \in Payloads : Ingest(p)
  \/ \E q \in Requests :
       \/ \E w \in Workflows : CheckBaseline(q, w)
       \/ SetBaseline(q)
       \/ FindCandidate(q) \/ FindBaseline(q)
       \/ \E pair \in Pairs : AskFor(q, pair)
       \/ ReadBaselineRun(q) \/ ReadCandidateRun(q) \/ SaveReport(q) \/ CreateProposal(q)
       \/ DrillIngest(q) \/ DrillNext(q) \/ DrillReview(q)

Spec == Init /\ [][Next]_vars

-----------------------------------------------------------------------------
(* Properties *)

\* A reader's own account of good evidence, to hold the engine and the gate to:
\* the pairs of payloads whose candidate keeps its guardrails and gains, in the
\* weighted sum over the business metrics both have, as much as G says.
Gaining(G(_, _)) ==
  {pair \in Payloads \X Payloads :
     LET b == Content[pair[1]]
         c == Content[pair[2]]
         S(name) == SchemaFor(Registry(c), name)
         common == DOMAIN b.metrics \cap DOMAIN c.metrics
         business == {name \in common : S(name).category \in {"business", "guardrail"}}
         gain(name) == S(name).weight * NormalizedChange(S(name), b.metrics[name], c.metrics[name])
     IN /\ \A name \in common : ~ViolatesGuardrail(S(name), c.metrics[name])
        /\ G(MapThenSumSet(gain, business), MapThenSumSet(LAMBDA name : S(name).weight, business))}

Approvable ==
  {pair \in Gaining(LAMBDA gain, weight : gain > 0 /\ gain >= 5 * weight) :
     LET c == Content[pair[2]]
     IN /\ c.kind # "synthetic" /\ SampleCount(c.metrics) >= 30
        /\ Covers(Traced(c), c.nodes, 80) \/ Covers(Measured(c), c.nodes, 50)}
Tradable ==
  {pair \in Gaining(LAMBDA gain, weight : gain > 0) :
     SampleCount(Content[pair[2]].metrics) >= 252}

\* A candidate is proposed only on runs that were ingested under those ids, and
\* only if the candidate is no synthetic run, has 30 samples or more, gains 5
\* hundredths or more in the weighted mean, keeps its guardrails, and its trace
\* covers most nodes or its metrics half of them; a drill sends a candidate to
\* paper trading only with a year of samples, a gain and its guardrails kept.
OnlyBackedCandidatesAdvance ==
  LET Backed(ids, good) ==
        \E pair \in good : {pair[1], pair[2]} \subseteq ingested
                             /\ ids = <<IdOf(pair[1]), IdOf(pair[2])>>
  IN /\ \A ids \in proposals : Backed(ids, Approvable)
     /\ \A d \in Drills :
          (stage[d] = "over" /\ held[d] = "enter_paper") => Backed(asked[d], Tradable)

\* The report of a pair is the comparison of the two runs as they are stored, if
\* neither was replaced since the report's own reads; and the baseline of a
\* workflow is a stored run, of that workflow unless its id was used for another.
ReportsAndBaselinesMatchRuns ==
  /\ \A pair \in Pairs \ outdated :
       report[pair[1]][pair[2]] # None =>
         report[pair[1]][pair[2]] = <<row[pair[1]], row[pair[2]]>>
  /\ \A w \in Workflows : baseline[w] # None =>
       /\ row[baseline[w]] # None
       /\ \/ WorkflowOf(row[baseline[w]]) = w
          \/ \E p \in ingested : IdOf(p) = baseline[w] /\ WorkflowOf(p) # w
=============================================================================
