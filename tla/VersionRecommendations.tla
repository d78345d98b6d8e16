------------------------ MODULE VersionRecommendations ------------------------
(***************************************************************************)
(* What a person is asked to decide besides prompts: recommendations drawn *)
(* from the shadow runs of a scenario, suggestions of the value of a       *)
(* parameter, and generic proposals.  Their rows are resolved through the  *)
(* inbox or the command line by commands that read the row in one          *)
(* transaction and write the whole of it in another.                       *)
(*                                                                         *)
(* A shadow run is known by the run it made, as in EvidenceScoring, and by *)
(* the schemas its metrics were compared under, which a person may edit in *)
(* the meantime.  What the optimizer expects of a value is left to chance, *)
(* which of the values it may suggest is not.                              *)
(***************************************************************************)
EXTENDS EvidenceScoring, Sequences

CONSTANTS
  Outcomes,    \* what a shadow run may be: None if the adapter has no shadow runs
  Bounds,      \* of a parameter: minimum, maximum, step, in hundredths
  Histories,   \* what may have been observed of it: sequences of values
  Edits,       \* the name of a metric and the schema a person gives it
  Commands,    \* commands that edit schemas, recommend or resolve
  MaxShadows,  \* bound: shadow runs
  MaxItems     \* bound: recommendations, suggestions and proposals

Decisions == {"recommend", "reject", "insufficient_evidence"}
Answers == {"approved", "rejected"}

VARIABLES
  stage,    \* how far each command has come
  held,     \* what it is about to write: a row, and of which item
  schemas,  \* scenario_metric_schemas of the scenario, by the name of the metric
  shadows,  \* shadow_results of the scenario, oldest first
  items,    \* the rows of the three tables, in the order of their creation
  answered, \* history: what the commands that wrote an item had to say
  original  \* history: the items as they were created

shadowVars == <<schemas, shadows>>
vars == <<stage, held, shadowVars, items, answered, original>>

Row(kind, content) == [kind |-> kind, status |-> "open", content |-> content]
Nothing == [row |-> None, item |-> 0]
ShadowRow(outcome, schema) ==
  IF outcome = None THEN None
  ELSE [kind |-> outcome.kind, samples |-> outcome.samples, baseline |-> outcome.baseline,
        metrics |-> outcome.metrics, schema |-> schema]

TypeOK ==
  /\ stage \in [Commands -> {"idle", "schemas", "insert", "save", "over"}]
  /\ \A c \in Commands : stage[c] = "save" => held[c].item \in DOMAIN items
  /\ DOMAIN schemas \subseteq {e.name : e \in Edits} \cup DOMAIN DefaultQuant
  /\ \A s \in DOMAIN shadows :
       shadows[s] # None => \E o \in Outcomes \ {None} : shadows[s] = ShadowRow(o, shadows[s].schema)
  /\ \A i \in DOMAIN items :
       /\ items[i].kind \in {"recommendation", "suggestion", "proposal"}
       /\ items[i].status \in Answers \cup {"open"}
       /\ items[i].kind = "recommendation" => items[i].content.decision \in Decisions
  /\ answered \in [DOMAIN items -> SUBSET Answers] /\ DOMAIN original = DOMAIN items

Init ==
  /\ stage = [c \in Commands |-> "idle"]
  /\ held = [c \in Commands |-> Nothing]
  /\ schemas = <<>> /\ shadows = <<>> /\ items = <<>> /\ answered = <<>> /\ original = <<>>

Goes(c, from, to) == stage[c] = from /\ stage' = [stage EXCEPT ![c] = to]

Creates(row) ==
  /\ Len(items) < MaxItems
  /\ items' = Append(items, row)
  /\ answered' = Append(answered, {}) /\ original' = Append(original, row)

-----------------------------------------------------------------------------
(* The schemas of the scenario *)

\* metric-schema set reads the schemas, whatever it is to change ...
ReadSchemas(c, edit) ==
  /\ Goes(c, "idle", "schemas")
  /\ held' = [held EXCEPT ![c].row =
       [name \in DOMAIN schemas \cup {edit.name} |->
          IF name = edit.name THEN edit.schema ELSE schemas[name]]]
  /\ UNCHANGED <<shadowVars, items, answered, original>>

\* ... and puts the whole of them in the place of those there are.
SaveSchemas(c) ==
  /\ Goes(c, "schemas", "over")
  /\ schemas' = held[c].row
  /\ UNCHANGED <<held, shadows, items, answered, original>>

LoadDefaultQuant(c) ==
  /\ Goes(c, "idle", "over")
  /\ schemas' = DefaultQuant
  /\ UNCHANGED <<held, shadows, items, answered, original>>

\* One of them, or all.
DeleteSchemas(c, names) ==
  /\ Goes(c, "idle", "over")
  /\ schemas' = [name \in DOMAIN schemas \ names |-> schemas[name]]
  /\ UNCHANGED <<held, shadows, items, answered, original>>

-----------------------------------------------------------------------------
(* Shadow runs *)

\* The comparison in the row, by default with a baseline that is made up, is under
\* the schemas it was given.
ComparisonOf(row) ==
  Comparison(IF row.baseline = None THEN AssumedBaseline(row.metrics) ELSE row.baseline,
             row.metrics, Registry(row), row.kind, row.samples)

\* A run that failed is compared like one that succeeded; where the adapter has
\* no shadow runs there is a row and no comparison.
SavesShadow(row) ==
  /\ Len(shadows) < MaxShadows
  /\ shadows' = Append(shadows, row)
  /\ UNCHANGED <<stage, held, schemas, items, answered, original>>

\* Of the console: under the schemas of the scenario, the default ones if there are
\* none.  That it also logs the failure of a run is left out.
RunShadow(outcome) == SavesShadow(ShadowRow(outcome, schemas))

\* Of the command line: under the default ones.
RunShadowUnscoped(outcome) == SavesShadow(ShadowRow(outcome, <<>>))

-----------------------------------------------------------------------------
(* Recommendations *)

\* A broken guardrail is certain enough, however few the samples.
EvaluationConfidence(cmp) ==
  IF cmp.violations # {} /\ Confidence(cmp) < 8000 THEN 8000 ELSE Confidence(cmp)

\* In hundred-thousandths.
RankScore(cmp) ==
  LET gain == IF cmp.sum < 0 THEN 0 ELSE (cmp.sum * 300) \div cmp.weight
  IN 5 * EvaluationConfidence(cmp) + gain + Least(20000, (cmp.samples * 20000) \div 30)

\* The first of the largest, as max gives it; or the last, where ties are decided
\* by the time of creation.
FirstBy(S, Key(_)) == CHOOSE s \in S : \A t \in S : Key(s) > Key(t) \/ (Key(s) = Key(t) /\ s <= t)
LastBy(S, Key(_)) == CHOOSE s \in S : \A t \in S : Key(s) > Key(t) \/ (Key(s) = Key(t) /\ s >= t)

\* Mutant: the best is recommended, whatever the others are.
RecommendBest(results) ==
  LET candidates == {s \in DOMAIN results : results[s] # None}
      cmp(s) == ComparisonOf(results[s])
      improved == {s \in candidates : Decision(cmp(s)) = "improved"}
      best == LastBy(IF improved = {} THEN candidates ELSE improved, LAMBDA s : RankScore(cmp(s)))
  IN IF candidates = {} THEN [decision |-> "insufficient_evidence", shadow |-> 0]
     ELSE [decision |-> IF improved = {} THEN "insufficient_evidence" ELSE "recommend",
           shadow |-> best]

\* _recommend: one run that is worse rejects; the most confident of these, else the
\* best that improved, else the best there is.
Recommendation(results) ==
  LET candidates == {s \in DOMAIN results : results[s] # None}
      cmp(s) == ComparisonOf(results[s])
      decided(d) == {s \in candidates : Decision(cmp(s)) = d}
      improved == {s \in decided("improved") : EvaluationConfidence(cmp(s)) >= 6000}
      Best(S) == LastBy(S, LAMBDA s : RankScore(cmp(s)))
  IN IF candidates = {} THEN [decision |-> "insufficient_evidence", shadow |-> 0]
     ELSE IF decided("worse") # {} THEN
       [decision |-> "reject",
        shadow |-> FirstBy(decided("worse"), LAMBDA s : EvaluationConfidence(cmp(s)))]
     ELSE IF improved # {} THEN [decision |-> "recommend", shadow |-> Best(improved)]
     ELSE [decision |-> "insufficient_evidence", shadow |-> Best(candidates)]

\* The shadow runs are read, and the recommendation is inserted later.
Recommend(c) ==
  /\ Goes(c, "idle", "insert")
  /\ LET drawn == Recommendation(shadows) IN
       held' = [held EXCEPT ![c].row =
         Row("recommendation",
             [seen |-> Len(shadows), decision |-> drawn.decision, shadow |-> drawn.shadow])]
  /\ UNCHANGED <<shadowVars, items, answered, original>>

InsertRecommendation(c) ==
  /\ Goes(c, "insert", "over")
  /\ Creates(held[c].row)
  /\ UNCHANGED <<held, shadowVars>>

-----------------------------------------------------------------------------
(* Suggestions *)

Grid == {Bounds.minimum + k * Bounds.step :
           k \in 0 .. (Bounds.maximum - Bounds.minimum) \div Bounds.step}

\* To the nearest step, of two the even one, and back into the bounds.
RoundToStep(value) ==
  LET over == value - Bounds.minimum
      down == over \div Bounds.step
      twice == 2 * (over - down * Bounds.step)
      steps == IF twice > Bounds.step \/ (twice = Bounds.step /\ down % 2 = 1) THEN down + 1 ELSE down
      rounded == Bounds.minimum + steps * Bounds.step
  IN IF rounded > Bounds.maximum THEN Bounds.maximum ELSE rounded

\* Other bounds are refused.
ValidBounds == Bounds.maximum > Bounds.minimum /\ Bounds.step > 0

\* What may be suggested after these values, in their order.
Suggested(values) ==
  LET relevant == {i \in DOMAIN values : values[i] \in Bounds.minimum .. Bounds.maximum}
      fresh == Grid \ {values[i] : i \in relevant}
  IN IF Cardinality(relevant) < 2 THEN {RoundToStep((Bounds.minimum + Bounds.maximum) \div 2)}
     ELSE IF fresh = {} THEN {RoundToStep(values[Min(relevant)])}
     ELSE {RoundToStep(v) : v \in fresh}

Suggestion(value, values) == Row("suggestion", [value |-> value, after |-> values])

Suggest(values) ==
  /\ ValidBounds
  /\ \E v \in Suggested(values) : Creates(Suggestion(v, values))
  /\ UNCHANGED <<stage, held, shadowVars>>

CreateProposal ==
  /\ Creates(Row("proposal", None))
  /\ UNCHANGED <<stage, held, shadowVars>>

-----------------------------------------------------------------------------
(* The inbox and the command line *)

\* A generic proposal stays in the inbox when it is approved.
Listed(i) ==
  \/ items[i].status = "open"
  \/ items[i].kind = "proposal" /\ items[i].status = "approved"

\* A command reads the row, whatever its status, and has its own ...
ReadToResolve(c, i, answer) ==
  /\ Goes(c, "idle", "save")
  /\ held' = [held EXCEPT ![c] = [row |-> [items[i] EXCEPT !.status = answer], item |-> i]]
  /\ UNCHANGED <<shadowVars, items, answered, original>>

\* ... written with the rest of the row, into the table of its kind.
Writes(c, kind) ==
  /\ Goes(c, "save", "over")
  /\ items[held[c].item].kind = kind
  /\ items' = [items EXCEPT ![held[c].item] = held[c].row]
  /\ answered' = [answered EXCEPT ![held[c].item] = @ \cup {held[c].row.status}]
  /\ UNCHANGED <<held, shadowVars, original>>

SaveRecommendation(c) == Writes(c, "recommendation")
SaveSuggestion(c) == Writes(c, "suggestion")
SaveProposal(c) == Writes(c, "proposal")

-----------------------------------------------------------------------------
Next ==
  \/ \E o \in Outcomes : RunShadow(o) \/ RunShadowUnscoped(o)
  \/ \E values \in Histories : Suggest(values)
  \/ CreateProposal
  \/ \E c \in Commands :
       \/ \E edit \in Edits : ReadSchemas(c, edit)
       \/ \E edit \in Edits : DeleteSchemas(c, {edit.name})
       \/ DeleteSchemas(c, DOMAIN schemas)
       \/ SaveSchemas(c) \/ LoadDefaultQuant(c)
       \/ Recommend(c) \/ InsertRecommendation(c)
       \/ SaveRecommendation(c) \/ SaveSuggestion(c) \/ SaveProposal(c)
       \/ \E i \in DOMAIN items, answer \in Answers : ReadToResolve(c, i, answer)

Spec == Init /\ [][Next]_vars

-----------------------------------------------------------------------------
(* Properties *)

\* A reader's account of a run to build on: not synthetic, enough samples, every
\* guardrail kept, and more gained than lost.
Gains(row) ==
  LET cmp == ComparisonOf(row)
  IN row.kind # "synthetic" /\ row.samples >= 30 /\ cmp.violations = {} /\ cmp.sum > 0

\* A recommendation names a run of its scenario, one to build on if it recommends,
\* and then none of the runs it was drawn from breaks a guardrail or loses, with
\* the samples to say so.  A suggestion lies within the bounds, and is a value not
\* observed before while there is one.  Whatever order answers are read and written
\* in, an item that was answered has left the inbox, unless it is a proposal, with
\* one of the answers given, and is otherwise as it was created.
RecommendationsStand ==
  \A i \in DOMAIN items :
    LET row == items[i] IN
    /\ row.kind = "recommendation" /\ row.content.decision = "recommend" =>
         /\ Gains(shadows[row.content.shadow])
         /\ \A s \in 1 .. row.content.seen :
              \/ shadows[s] = None
              \/ LET cmp == ComparisonOf(shadows[s])
                 IN cmp.violations = {} /\ (Gains(shadows[s]) \/ cmp.samples < 30 \/ cmp.kind = "synthetic")
    /\ row.kind = "suggestion" =>
         /\ row.content.value \in Bounds.minimum .. Bounds.maximum
         /\ LET seen == {row.content.after[k] : k \in DOMAIN row.content.after}
            IN Cardinality(seen \cap Bounds.minimum .. Bounds.maximum) >= 2 =>
                 row.content.value \notin seen \/ Grid \subseteq seen
    /\ answered[i] # {} => row.status \in answered[i] /\ (Listed(i) => row.kind = "proposal")
    /\ [row EXCEPT !.status = "open"] = original[i]
=============================================================================
