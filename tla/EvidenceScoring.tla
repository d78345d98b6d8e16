--------------------------- MODULE EvidenceScoring ---------------------------
(***************************************************************************)
(* What a run of an external workflow is worth as evidence: the coverage   *)
(* of its trace, its quality, the comparison of its metrics with those of  *)
(* a baseline, and the decision taken from the comparison.                 *)
(*                                                                         *)
(* A run is a record: its kind, its nodes and those that are declared      *)
(* opaque, the events of its trace, its metrics and the schemas it gives   *)
(* of them.  Metrics and thresholds are in hundredths, samples are counted *)
(* and confidence is in ten-thousandths; a mean is kept as a sum and the   *)
(* weight it is to be divided by, 1 if the mean is of nothing.             *)
(***************************************************************************)
EXTENDS Integers, FiniteSets, FiniteSetsExt

CONSTANT None \* no threshold

Kinds == {"synthetic", "historical", "paper", "live"}
Recommendations == {"approve", "reject", "continue_shadow", "inconclusive"}

-----------------------------------------------------------------------------
(* One run *)

EventsAt(run, events) == {e.node : e \in events} \cap run.nodes
Traced(run) == EventsAt(run, run.trace)
Measured(run) == EventsAt(run, {e \in run.trace : e.measured})
Failed(run) == EventsAt(run, {e \in run.trace : e.failed})
BlackBoxes(run) == (run.nodes \ Traced(run)) \cup (run.nodes \cap run.opaque)

\* Coverage is 1 of a workflow without nodes.
Covers(part, whole, percent) == Cardinality(part) * 100 >= Cardinality(whole) * percent

\* What the report of a run recommends; a node without a trace is a black box.
RunRecommendation(run) ==
  IF Failed(run) # {} THEN "reject"
  ELSE IF BlackBoxes(run) = {} /\ DOMAIN run.metrics = {} THEN "inconclusive"
  ELSE "continue_shadow"

SampleCount(metrics) == IF "sample_count" \in DOMAIN metrics THEN metrics["sample_count"] ELSE 0

Penalty ==
  [low_trace_coverage |-> 25, low_metric_coverage |-> 20, black_boxes |-> 20,
   synthetic_low_sample |-> 35, low_sample |-> 20]

Reasons(run) ==
  LET few == SampleCount(run.metrics) < 30 IN
  {reason \in DOMAIN Penalty :
     \/ reason = "low_trace_coverage" /\ ~Covers(Traced(run), run.nodes, 80)
     \/ reason = "low_metric_coverage" /\ ~Covers(Measured(run), run.nodes, 50)
     \/ reason = "black_boxes" /\ BlackBoxes(run) # {}
     \/ reason = "synthetic_low_sample" /\ few /\ run.kind = "synthetic"
     \/ /\ reason = "low_sample" /\ few
        /\ run.kind # "synthetic" /\ SampleCount(run.metrics) # 0}

\* The quality gate deducts for each of its reasons.
Quality(run) ==
  LET for(reason) == IF reason \in Reasons(run) THEN Penalty[reason] ELSE 0
      lost == for("low_trace_coverage") + for("low_metric_coverage") + for("black_boxes")
                + for("synthetic_low_sample") + for("low_sample") IN
  IF "synthetic_low_sample" \in Reasons(run) \/ 100 - lost < 50 THEN "rejected"
  ELSE IF Reasons(run) # {} THEN "warning" ELSE "accepted"

-----------------------------------------------------------------------------
(* Metrics of two runs *)

Schema(direction, category, weight) ==
  [direction |-> direction, category |-> category, weight |-> weight,
   threshold |-> None, guardrail |-> FALSE]

\* The schemas of a run that gives none.
DefaultQuant ==
  LET higher == [total_return |-> 25, annual_return |-> 10, excess_return |-> 25,
                 sharpe |-> 30, win_rate |-> 5, stability_score |-> 10]
      other ==
        [benchmark_return |-> Schema("reference", "business", 0),
         trade_count |-> Schema("bounded", "business", 0),
         latency_ms |-> Schema("lower", "system", 0),
         sample_count |-> Schema("higher", "data_quality", 0),
         max_drawdown |-> [direction |-> "lower", category |-> "guardrail", weight |-> 20,
                           threshold |-> 20, guardrail |-> TRUE]]
  IN [name \in DOMAIN higher \cup DOMAIN other |->
        IF name \in DOMAIN other THEN other[name] ELSE Schema("higher", "business", higher[name])]

Registry(run) == IF DOMAIN run.schema = {} THEN DefaultQuant ELSE run.schema

\* A metric without a schema: the names the code knows, business otherwise.
SchemaFor(registry, name) ==
  IF name \in DOMAIN registry THEN registry[name]
  ELSE IF name = "latency_ms" THEN Schema("lower", "system", 0)
  ELSE IF name \in {"sample_count", "data_quality", "confidence"} THEN Schema("higher", "data_quality", 0)
  ELSE Schema("higher", "business", 100)

\* The run of a drill: the broker, node 4, is opaque and leaves no trace.
QuantSchema ==
  LET system == Schema("lower", "system", 0)
  IN [total_return |-> Schema("higher", "business", 18),
      annual_return |-> Schema("higher", "business", 8),
      benchmark_return |-> Schema("reference", "business", 0),
      excess_return |-> Schema("higher", "business", 22),
      sharpe |-> Schema("higher", "business", 27),
      max_drawdown |-> [direction |-> "lower", category |-> "guardrail", weight |-> 20,
                        threshold |-> 20, guardrail |-> TRUE],
      win_rate |-> Schema("higher", "business", 5),
      trade_count |-> [Schema("bounded", "data_quality", 0) EXCEPT !.threshold = 8000],
      turnover |-> system,
      stability_score |-> Schema("higher", "business", 10),
      sample_count |-> Schema("higher", "data_quality", 0),
      latency_ms |-> system]

QuantRun(run, return, sharpe, drawdown) ==
  [id |-> run, workflow |-> "quant", kind |-> "historical", nodes |-> 1 .. 6, opaque |-> {4},
   trace |-> {[node |-> n, failed |-> FALSE, measured |-> n \in {1, 3, 5}] : n \in (1 .. 6) \ {4}},
   metrics |-> [total_return |-> return, annual_return |-> return \div 2,
                benchmark_return |-> 14, excess_return |-> return - 14, sharpe |-> sharpe,
                max_drawdown |-> drawdown, win_rate |-> 53, trade_count |-> 8200,
                turnover |-> 180, stability_score |-> 72, sample_count |-> 504,
                latency_ms |-> 54000],
   schema |-> QuantSchema]

Distance(x, y) == IF x < y THEN y - x ELSE x - y

NormalizedChange(schema, from, to) ==
  CASE schema.direction = "lower" -> from - to
    [] schema.direction = "reference" -> 0
    [] schema.direction = "bounded" ->
         IF schema.threshold = None THEN 0 ELSE -Distance(to, schema.threshold)
    [] OTHER -> to - from

ViolatesGuardrail(schema, candidate) ==
  /\ schema.guardrail /\ schema.threshold # None
  /\ \/ schema.direction = "lower" /\ candidate > schema.threshold
     \/ schema.direction = "higher" /\ candidate < schema.threshold

\* MetricComparator.compare: the metrics that both runs have.
Comparison(base, cand, registry, kind, samples) ==
  LET names == DOMAIN base \cap DOMAIN cand
      S(name) == SchemaFor(registry, name)
      business == {name \in names : S(name).category \in {"business", "guardrail"}}
      total == MapThenSumSet(LAMBDA name : S(name).weight, business)
      Change(name) == S(name).weight * NormalizedChange(S(name), base[name], cand[name])
  IN [kind |-> kind, samples |-> samples,
      sum |-> MapThenSumSet(Change, business),
      weight |-> IF total = 0 THEN 1 ELSE total,
      diffs |-> [name \in business |-> cand[name] - base[name]],
      violations |-> {name \in names : ViolatesGuardrail(S(name), cand[name])}]

Improved(cmp) == cmp.sum > 0 /\ cmp.violations = {}
ScoreAtLeast(cmp, score) == cmp.sum >= score * cmp.weight

\* The baseline that the shadow runner makes up when it is given none: 8
\* hundredths less of everything but the latency.
AssumedBaseline(metrics) ==
  [name \in DOMAIN metrics |-> IF name = "latency_ms" THEN metrics[name] ELSE metrics[name] - 8]

-----------------------------------------------------------------------------
(* The evidence engine *)

Least(x, y) == IF x < y THEN x ELSE y

Confidence(cmp) ==
  LET kind == [synthetic |-> 1125, historical |-> 3375, paper |-> 3825, live |-> 4275]
  IN kind[cmp.kind] + Least(2500, (cmp.samples * 2500) \div 30)
       + Least(2000, (Cardinality(DOMAIN cmp.diffs) * 2000) \div 3) + Least(1000, (Distance(cmp.sum, 0) * 200) \div cmp.weight)

\* Mutant: synthetic runs are evidence.
DecisionOnSynthetic(cmp) ==
  IF cmp.violations # {} THEN "worse"
  ELSE IF cmp.samples < 30 THEN "inconclusive"
  ELSE IF ~Improved(cmp) THEN "worse"
  ELSE IF ScoreAtLeast(cmp, 5) /\ Confidence(cmp) >= 6000 THEN "improved"
  ELSE "inconclusive"

Decision(cmp) ==
  IF cmp.violations # {} THEN "worse"
  ELSE IF cmp.kind = "synthetic" \/ cmp.samples < 30 THEN "inconclusive"
  ELSE IF ~Improved(cmp) THEN "worse"
  ELSE IF ScoreAtLeast(cmp, 5) /\ Confidence(cmp) >= 6000 THEN "improved"
  ELSE "inconclusive"

ComparisonRecommendation(cmp) ==
  [improved |-> "approve", worse |-> "reject", inconclusive |-> "continue_shadow"][Decision(cmp)]
=============================================================================
