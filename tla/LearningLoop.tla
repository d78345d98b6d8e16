------------------------------ MODULE LearningLoop ------------------------------
(***************************************************************************)
(* Learning from the runs of a scenario.  A tick observes summaries with a *)
(* metric below its threshold and decisions that went against a proposal,  *)
(* draws proposals from what it has observed, one for each target, and has *)
(* each blocked or validated.  It applies nothing.  Ticks may interleave   *)
(* with runs, with decisions and with each other, and be killed; every row *)
(* is saved in a transaction of its own.                                   *)
(*                                                                         *)
(* Rows of a tick are known by the tick and their place in it.  Scores are *)
(* in tenths, metrics in hundredths.                                       *)
(***************************************************************************)
EXTENDS ScenarioRuns

CONSTANTS
  Ticks,
  Thresholds,   \* metric_thresholds, in their order: metric and threshold
  Kinds,        \* what decisions may be: of "approve", "reject", "error", ...
  Blocked,      \* blocked_targets
  Cooldown,     \* cooldown_targets
  Budget,       \* remaining_budget
  MaxItems,     \* max_items of the aggregator
  MaxDecisions  \* bound: decisions

VARIABLES
  decisions,    \* decision_log of the scenario, in its order
  observations, \* rows of the four tables of the loop
  proposals,
  findings,
  validations,
  killed        \* history: ticks that were killed

learnVars == <<decisions, observations, proposals, findings, validations, killed>>
vars == <<stage, held, runVars, learnVars>>

Scoring == INSTANCE EvidenceScoring

-----------------------------------------------------------------------------
(* From observations to proposals *)

\* The elements of a finite set, in their order.
InOrder(S, Before(_, _)) ==
  [k \in 1 .. Cardinality(S) |-> CHOOSE x \in S : Cardinality({y \in S : Before(y, x)}) = k - 1]

Earlier(p, q) == p[1] < q[1] \/ (p[1] = q[1] /\ p[2] < q[2])

\* A place is one of the summaries and one of the thresholds; a value that is no
\* number is not compared.
Anomalies ==
  LET Low(p) ==
        LET metrics == summaries[p[1]].verdict.metrics
            metric == Thresholds[p[2]].metric
        IN /\ metric \in DOMAIN metrics /\ metrics[metric] # None
           /\ metrics[metric] < Thresholds[p[2]].at
      low == InOrder({p \in (DOMAIN summaries) \X (DOMAIN Thresholds) : Low(p)}, Earlier)
  IN [k \in DOMAIN low |->
        [type |-> "metric_anomaly", title |-> Thresholds[low[k][2]].metric, source |-> low[k][1]]]

Frictions ==
  LET against == InOrder({i \in DOMAIN decisions : decisions[i] \in {"reject", "blocked", "error"}},
                         LAMBDA i, j : i < j)
  IN [k \in DOMAIN against |->
        [type |-> "decision_pattern", title |-> decisions[against[k]], source |-> against[k]]]

\* The first of its title, all being warnings; the latest first, up to max_items.
Aggregate(seen) ==
  LET Same(i, j) == seen[i].type = seen[j].type /\ seen[i].title = seen[j].title
      first == {i \in DOMAIN seen : \A j \in 1 .. i - 1 : ~Same(i, j)}
      latest == InOrder(first, LAMBDA i, j : i > j)
  IN [k \in 1 .. IF Cardinality(first) < MaxItems THEN Cardinality(first) ELSE MaxItems |->
        seen[latest[k]]]

Candidate(kind, target, o) == [kind |-> kind, target |-> target, operation |-> "replace", of |-> o]

\* A place is an observation and a proposer: of the prompt always, of a parameter for
\* a metric.
Candidates(obs) == {p \in (DOMAIN obs) \X {1, 2} : p[2] = 1 \/ obs[p[1]].type = "metric_anomaly"}

CandidateAt(obs, p) ==
  IF p[2] = 1 THEN Candidate("prompt", "research_agent.constraints", obs[p[1]])
  ELSE Candidate("parameter", obs[p[1]].title, obs[p[1]])

\* All expect a metric and none gives a risk.
Score(c) == 6 + (IF c.operation = "replace" THEN 2 ELSE 0) + (IF c.kind = "parameter" THEN 1 ELSE 0)

Outranks(obs, p, q) ==
  LET score(x) == Score(CandidateAt(obs, x))
  IN score(p) > score(q) \/ (score(p) = score(q) /\ Earlier(p, q))

FilterConflicts(obs) ==
  {p \in Candidates(obs) : \A q \in Candidates(obs) :
     CandidateAt(obs, q).target = CandidateAt(obs, p).target => ~Outranks(obs, q, p)}

Proposals(obs) ==
  LET kept == InOrder(FilterConflicts(obs), LAMBDA p, q : Outranks(obs, p, q))
  IN [k \in DOMAIN kept |-> CandidateAt(obs, kept[k])]

\* What the safety monitor finds, in the order of its rules.
Findings(c) ==
  LET rules == <<"guardrail", "cooldown", "budget", "refactor">>
      holds == [guardrail |-> c.target \in Blocked, cooldown |-> c.target \in Cooldown,
                budget |-> Budget <= 0, refactor |-> c.operation \in {"compress", "refactor"}]
      found == InOrder({n \in DOMAIN rules : holds[rules[n]]}, LAMBDA i, j : i < j)
  IN [k \in DOMAIN found |-> rules[found[k]]]
Blocking(c) == \E k \in DOMAIN Findings(c) : Findings(c)[k] # "refactor"

\* The comparison is always the same, of made-up metrics of a historical run.
Improved ==
  Scoring!Improved(Scoring!Comparison([sharpe |-> 50, max_drawdown |-> 12],
                                      [sharpe |-> 62, max_drawdown |-> 11],
                                      Scoring!DefaultQuant, "historical", 0))
Recommended == IF Improved THEN "send_to_approval" ELSE "hold"

-----------------------------------------------------------------------------
TypeOK ==
  /\ RunTypeOK
  /\ \A t \in Ticks : stage[t] \in {"idle", "decisions", "observations", "proposals", "check", "over"}
  /\ \A i \in DOMAIN decisions : decisions[i] \in Kinds
  /\ \A x \in observations \cup proposals \cup findings \cup validations : x.tick \in Ticks
  /\ \A v \in validations : v.recommendation \in {"send_to_approval", "hold"}

Init ==
  /\ RunInit
  /\ stage = [p \in Runs \cup Clerks \cup Ticks |-> "idle"]
  /\ held = [p \in Runs \cup Clerks \cup Ticks |-> None]
  /\ decisions = <<>> /\ observations = {} /\ proposals = {} /\ findings = {} /\ validations = {}
  /\ killed = {}

\* A decision about some proposal of the scenario is logged.
Decide(kind) ==
  /\ Len(decisions) < MaxDecisions
  /\ decisions' = Append(decisions, kind)
  /\ UNCHANGED <<stage, held, runVars, observations, proposals, findings, validations, killed>>

-----------------------------------------------------------------------------
(* A tick *)

ObserveMetrics(t) ==
  /\ Goes(t, "idle", "decisions")
  /\ Holds(t, Anomalies)
  /\ UNCHANGED <<runVars, learnVars>>

ObserveDecisions(t) ==
  /\ Goes(t, "decisions", "observations")
  /\ Holds(t, [obs |-> Aggregate(held[t] \o Frictions), next |-> 1, found |-> 0])
  /\ UNCHANGED <<runVars, learnVars>>

SaveObservation(t) ==
  /\ stage[t] = "observations" /\ held[t].next <= Len(held[t].obs)
  /\ observations' = observations \cup {[tick |-> t, what |-> held[t].obs[held[t].next]]}
  /\ held' = [held EXCEPT ![t].next = @ + 1]
  /\ UNCHANGED <<stage, runVars, decisions, proposals, findings, validations, killed>>

DrawProposals(t) ==
  /\ stage[t] = "observations" /\ held[t].next > Len(held[t].obs)
  /\ Goes(t, "observations", "proposals")
  /\ Holds(t, [cs |-> Proposals(held[t].obs), next |-> 1, found |-> 0])
  /\ UNCHANGED <<runVars, learnVars>>

Name(t) == [tick |-> t, place |-> held[t].next]
Current(t) == held[t].cs[held[t].next]

CreateProposal(t) ==
  /\ stage[t] = "proposals" /\ held[t].next <= Len(held[t].cs)
  /\ proposals' = proposals \cup {[tick |-> t, id |-> Name(t), what |-> Current(t)]}
  /\ held' = [held EXCEPT ![t].next = @ + 1]
  /\ UNCHANGED <<stage, runVars, decisions, observations, findings, validations, killed>>

CheckProposals(t) ==
  /\ stage[t] = "proposals" /\ held[t].next > Len(held[t].cs)
  /\ Goes(t, "proposals", "check")
  /\ held' = [held EXCEPT ![t].next = 1]
  /\ UNCHANGED <<runVars, learnVars>>

Checking(t) == stage[t] = "check" /\ held[t].next <= Len(held[t].cs)

SaveFinding(t) ==
  /\ Checking(t) /\ held[t].found < Len(Findings(Current(t)))
  /\ findings' = findings \cup {[tick |-> t, proposal |-> Name(t),
                                 reason |-> Findings(Current(t))[held[t].found + 1]]}
  /\ held' = [held EXCEPT ![t].found = @ + 1]
  /\ UNCHANGED <<stage, runVars, decisions, observations, proposals, validations, killed>>

\* One that is blocked is left; the others are scheduled and validated.
Validate(t) ==
  /\ Checking(t) /\ held[t].found = Len(Findings(Current(t)))
  /\ validations' = IF Blocking(Current(t)) THEN validations
       ELSE validations \cup {[tick |-> t, proposal |-> Name(t), recommendation |-> Recommended]}
  /\ held' = [held EXCEPT ![t].next = @ + 1, ![t].found = 0]
  /\ UNCHANGED <<stage, runVars, decisions, observations, proposals, findings, killed>>

Report(t) ==
  /\ stage[t] = "check" /\ held[t].next > Len(held[t].cs)
  /\ Ends(t, "check")
  /\ UNCHANGED <<runVars, learnVars>>

KillTick(t) ==
  /\ stage[t] \notin {"idle", "over"} /\ Ends(t, stage[t])
  /\ killed' = killed \cup {t}
  /\ UNCHANGED <<runVars, decisions, observations, proposals, findings, validations>>

-----------------------------------------------------------------------------
Next ==
  \/ RunNext /\ UNCHANGED learnVars
  \/ \E kind \in Kinds : Decide(kind)
  \/ \E t \in Ticks :
       \/ ObserveMetrics(t) \/ ObserveDecisions(t) \/ SaveObservation(t) \/ DrawProposals(t)
       \/ CreateProposal(t) \/ CheckProposals(t) \/ SaveFinding(t) \/ Validate(t) \/ Report(t)
       \/ KillTick(t)

Spec == Init /\ [][Next]_vars

-----------------------------------------------------------------------------
(* Properties *)

\* What is observed has happened: a run that ended with the metric below its
\* threshold, as its raw log says, or a decision against a proposal.
Grounded(o) ==
  IF o.type = "metric_anomaly"
  THEN LET s == summaries[o.source] IN
       /\ s.run \in DOMAIN raw /\ o.title \in DOMAIN raw[s.run].verdict.metrics
       /\ \E k \in DOMAIN Thresholds : /\ Thresholds[k].metric = o.title
                                       /\ raw[s.run].verdict.metrics[o.title] < Thresholds[k].at
  ELSE decisions[o.source] = o.title /\ o.title \notin {"approve", "system"}

\* Every proposal follows from an observation of its tick that has happened, and is
\* the only one of its tick for its target; findings and validations are of stored
\* proposals, none of which is both blocked and validated; and a tick that came to
\* its end, not killed, has one or the other for each of its proposals and a
\* proposal for each metric it has observed.
LearningIsGrounded ==
  /\ RunsAreRecorded
  /\ \A o \in observations : Grounded(o.what)
  /\ \A p \in proposals :
       /\ [tick |-> p.tick, what |-> p.what.of] \in observations
       /\ \A q \in proposals : q.tick = p.tick /\ q.what.target = p.what.target => q = p
  /\ LET ids == {p.id : p \in proposals}
         found == {f.proposal : f \in {g \in findings : g.reason # "refactor"}}
         validated == {v.proposal : v \in validations}
     IN /\ found \cup validated \subseteq ids /\ found \cap validated = {}
        /\ \A t \in Ticks \ killed : stage[t] = "over" =>
             /\ \A p \in proposals : p.tick = t => p.id \in found \cup validated
             /\ \A o \in observations : o.tick = t /\ o.what.type = "metric_anomaly" =>
                  \E p \in proposals : p.tick = t /\ p.what.target = o.what.title
=============================================================================
