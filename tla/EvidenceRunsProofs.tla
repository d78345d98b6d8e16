------------------------- MODULE EvidenceRunsProofs -------------------------
(* Theorems about EvidenceRuns, for any payloads and any requests. *)
EXTENDS EvidenceRuns, TLAPS, SequenceTheorems, FiniteSetTheorems, WellFoundedInduction

-----------------------------------------------------------------------------
(* The inductive invariant, part by part *)

\* A row has what was ingested under its id.
RowsInv == \A r \in Runs : row[r] # None => row[r] \in ingested /\ IdOf(row[r]) = r

\* How far requests of each kind come.
KindStages ==
  /\ \A s \in Setters : stage[s] \in {"idle", "write", "over"}
  /\ \A q \in Comparers : stage[q] \in {"idle", "baseline", "read", "compare", "save", "over"}
  /\ \A q \in Drafters : stage[q] \in {"idle", "read", "compare", "save", "propose", "over"}
  /\ \A d \in Drills : stage[d] \in {"idle", "select", "read", "compare", "save", "over"}

\* A drill compares the selected candidates one after the other and keeps what it
\* compared.
DrillStages(d) ==
  /\ done[d] <= IF stage[d] = "idle" THEN Len(DrillRuns) ELSE Len(Selected)
  /\ results[d] \in Seq(ingested \X ingested)
  /\ stage[d] = "idle" => Len(results[d]) = 0
  /\ stage[d] = "select" => Len(results[d]) = done[d]
  /\ stage[d] \in {"read", "compare", "save"} => Len(results[d]) + 1 = done[d]

StagesInv == KindStages /\ \A d \in Drills : DrillStages(d)

\* A run may be the baseline of a workflow: it is stored, and was of that workflow
\* unless its id is another workflow's by now.
Fits(r, w) ==
  /\ r \in Runs /\ row[r] # None
  /\ WorkflowOf(row[r]) = w \/ \E p \in ingested : IdOf(p) = r /\ WorkflowOf(p) # w

Ids(pair) == <<IdOf(pair[1]), IdOf(pair[2])>>

\* What a request knows at each stage, and how that matches the rows if none of
\* them was replaced since.
Holds(q) ==
  /\ stage[q] = "write" => held[q] \in Workflows /\ Fits(asked[q][1], held[q])
  /\ stage[q] = "baseline" => held[q] \in Workflows /\ asked[q][2] \in Runs
  /\ stage[q] \in {"read", "compare", "save", "propose"} => asked[q] \in Pairs
  /\ stage[q] = "compare" =>
       /\ held[q] # None => held[q] \in ingested /\ IdOf(held[q]) = asked[q][1]
       /\ q \notin outdated => held[q] = row[asked[q][1]]
  /\ stage[q] \in {"save", "propose"} => held[q] \in ingested \X ingested /\ Ids(held[q]) = asked[q]
  /\ stage[q] = "save" /\ q \notin outdated => held[q] = <<row[asked[q][1]], row[asked[q][2]]>>
  /\ stage[q] = "propose" => held[q] \in StrongEnough

HeldInv == \A q \in Requests : Holds(q)

\* The two parts of ReportsAndBaselinesMatchRuns.
ReportsInv ==
  \A pair \in Pairs \ outdated :
    report[pair[1]][pair[2]] # None => report[pair[1]][pair[2]] = <<row[pair[1]], row[pair[2]]>>
BaselinesInv == \A w \in Workflows : baseline[w] # None => Fits(baseline[w], w)

\* What has advanced was compared, and the comparison let it.
Advanced(ids, pairs) == \E pair \in pairs : pair \in ingested \X ingested /\ ids = Ids(pair)
AdvanceInv ==
  /\ \A ids \in proposals : Advanced(ids, StrongEnough)
  /\ \A d \in Drills : (stage[d] = "over" /\ held[d] = "enter_paper") => Advanced(asked[d], EnteringPaper)

Inv ==
  /\ TypeOK /\ RowsInv /\ StagesInv /\ HeldInv
  /\ ReportsInv /\ BaselinesInv /\ AdvanceInv

-----------------------------------------------------------------------------
(* Lemmas about the constants *)

\* A request is of one kind.
LEMMA RequestKinds ==
  /\ \A s \in Setters : s \in Requests \ (Comparers \cup Drafters \cup Drills)
  /\ \A q \in Comparers : q \in Requests \ (Setters \cup Drafters \cup Drills)
  /\ \A q \in Drafters : q \in Requests \ (Setters \cup Comparers \cup Drills)
  /\ \A d \in Drills : d \in Requests \ (Setters \cup Comparers \cup Drafters)
BY EvidenceAssumption DEF Requests

LEMMA PayloadParts ==
  /\ \A p \in Payloads : IdOf(p) \in Runs /\ WorkflowOf(p) \in Workflows /\ p # None
  /\ None \notin Runs /\ None # "enter_paper" /\ None \notin Payloads \X Payloads
BY EvidenceAssumption DEF Runs, Workflows, Compares

\* What a drill is given.
LEMMA DrillConstants ==
  /\ Len(DrillRuns) \in Nat \ {0} /\ Len(DrillPayloads) = Len(DrillRuns) + 1
  /\ \A i \in 1 .. Len(DrillPayloads) : DrillPayloads[i] \in Payloads
  /\ Len(Selected) \in Nat \ {0} /\ Len(Selected) <= Len(DrillRuns)
  /\ \A i \in 1 .. Len(Selected) : DrillRuns[Selected[i]] \in Payloads
<1>1. /\ DrillBaseline \in Payloads /\ DrillRuns \in Seq(Payloads)
      /\ Selected \in Seq(DOMAIN DrillRuns) /\ Len(Selected) \in 1 .. Len(DrillRuns)
  BY EvidenceAssumption
<1>2. /\ Len(DrillRuns) \in Nat /\ DOMAIN DrillRuns = 1 .. Len(DrillRuns)
      /\ \A i \in 1 .. Len(DrillRuns) : DrillRuns[i] \in Payloads
  BY <1>1, LenProperties, ElementOfSeq
<1>3. /\ <<DrillBaseline>> \in Seq(Payloads) /\ Len(<<DrillBaseline>>) = 1
      /\ <<DrillBaseline>>[1] = DrillBaseline
  BY <1>1
<1>4. /\ DrillPayloads \in Seq(Payloads) /\ Len(DrillPayloads) = Len(DrillRuns) + 1
  BY <1>1, <1>2, <1>3, ConcatProperties DEF DrillPayloads
<1>5. \A i \in 1 .. Len(DrillPayloads) : DrillPayloads[i] \in Payloads
  BY <1>4, ElementOfSeq
<1>6. \A i \in 1 .. Len(Selected) : Selected[i] \in DOMAIN DrillRuns
  BY <1>1, ElementOfSeq
<1> QED
  BY <1>1, <1>2, <1>4, <1>5, <1>6

\* Reports recommend and rate what they may, whatever the sums are.
LEMMA ReportsHaveTypes == ReportsAreTyped
<1>1. \A cmp : ComparisonRecommendation(cmp) \in Recommendations
  BY DEF ComparisonRecommendation, Decision, Recommendations
<1>2. \A run : Quality(run) \in {"accepted", "warning", "rejected"}
  BY DEF Quality
<1> QED
  BY <1>1, <1>2 DEF ReportsAreTyped, ReportOf, Report

-----------------------------------------------------------------------------
(* Sums of metrics are numbers *)

\* A set of natural numbers has a least element.
LEMMA LeastNumber ==
  ASSUME NEW T \in SUBSET Nat, T # {}
  PROVE  \E n \in T : \A m \in T : n <= m
<1> DEFINE R == {ss \in Nat \X Nat : ss[1] < ss[2]}
<1>1. IsWellFoundedOn(R, Nat)
  BY NatLessThanWellFounded DEF OpToRel
<1>2. \A m, n \in Nat : <<m, n>> \notin R => n <= m
  OBVIOUS
<1> HIDE DEF R
<1>3. PICK n \in T : \A m \in T : <<m, n>> \notin R
  BY <1>1, WFMin
<1>4. \A m \in T : n <= m
  BY <1>2, <1>3
<1> QED
  BY <1>4

\* That f folds a function over the subsets of a set, an element that is chosen first.
IsFold(f, g, S) ==
  f = [s \in SUBSET S |->
        IF s = {} THEN 0 ELSE g[CHOOSE x \in s : TRUE] + f[s \ {CHOOSE x \in s : TRUE}]]

\* Numbers that are closed under addition are closed under such a fold: there is one,
\* as there is one over the subsets of any size, and no smallest subset leaves them.
LEMMA FoldHasType ==
  ASSUME NEW S, IsFiniteSet(S), NEW T, 0 \in T, \A m, n \in T : m + n \in T, NEW g \in [S -> T]
  PROVE  (CHOOSE f : IsFold(f, g, S))[S] \in T
<1> DEFINE first(s) == CHOOSE x \in s : TRUE
           rest(s) == s \ {first(s)}
           Upto(n) == {s \in SUBSET S : Cardinality(s) <= n}
           Folds(n) == {f \in [Upto(n) -> T] : \A s \in Upto(n) :
                          f[s] = IF s = {} THEN 0 ELSE g[first(s)] + f[rest(s)]}
<1>1. Cardinality(S) \in Nat /\ S \in SUBSET S
  BY FS_CardinalityType
<1>2. ASSUME NEW s \in SUBSET S
      PROVE  /\ Cardinality(s) \in Nat /\ Cardinality(s) <= Cardinality(S)
             /\ s # {} <=> Cardinality(s) # 0
             /\ s # {} => /\ first(s) \in S /\ rest(s) \in SUBSET S
                         /\ Cardinality(rest(s)) = Cardinality(s) - 1
  <2>1. IsFiniteSet(s) /\ Cardinality(s) \in Nat /\ Cardinality(s) <= Cardinality(S)
    BY FS_Subset, FS_CardinalityType
  <2>2. s # {} <=> Cardinality(s) # 0
    BY <2>1, FS_EmptySet
  <2>3. ASSUME s # {} PROVE first(s) \in s
    BY <2>3
  <2> HIDE DEF first
  <2>4. ASSUME s # {} PROVE Cardinality(rest(s)) = Cardinality(s) - 1
    BY <2>1, <2>3, <2>4, FS_RemoveElement
  <2> QED
    BY <2>1, <2>2, <2>3, <2>4
<1> HIDE DEF first, rest
<1>3. ASSUME NEW n \in Nat PROVE Folds(n) # {}
  <2> DEFINE bad == {m \in Nat : Folds(m) = {}}
  <2>1. SUFFICES ASSUME bad # {} PROVE FALSE
    OBVIOUS
  <2>2. bad \in SUBSET Nat
    OBVIOUS
  <2>3. PICK k \in bad : \A m \in bad : k <= m
    <3> HIDE DEF bad
    <3> QED
      BY <2>1, <2>2, LeastNumber
  <2>4. k \in Nat /\ Folds(k) = {}
    OBVIOUS
  <2>5. CASE k = 0
    <3> DEFINE f == [s \in Upto(0) |-> 0]
    <3>1. \A s \in Upto(0) : s = {}
      BY <1>2
    <3>2. f \in Folds(0)
      BY <3>1
    <3> QED
      BY <2>4, <2>5, <3>2
  <2>6. CASE k # 0
    <3>1. k - 1 \in Nat /\ k - 1 \notin bad
      <4> HIDE DEF bad
      <4> QED
        BY <2>3, <2>4, <2>6
    <3>2. PICK h \in Folds(k - 1) : TRUE
      BY <3>1
    <3> DEFINE f == [s \in Upto(k) |->
                      IF s \in Upto(k - 1) THEN h[s] ELSE g[first(s)] + h[rest(s)]]
    <3>3. ASSUME NEW s \in Upto(k)
          PROVE  f[s] \in T /\ f[s] = IF s = {} THEN 0 ELSE g[first(s)] + f[rest(s)]
      <4>1. s # {} => rest(s) \in Upto(k - 1) /\ rest(s) \in Upto(k) /\ first(s) \in S
        BY <1>2, <2>4
      <4>2. s = {} => s \in Upto(k - 1)
        BY <1>2, <3>1
      <4>3. \A t \in Upto(k - 1) :
              h[t] \in T /\ h[t] = IF t = {} THEN 0 ELSE g[first(t)] + h[rest(t)]
        BY <3>2
      <4>4. f[s] = IF s \in Upto(k - 1) THEN h[s] ELSE g[first(s)] + h[rest(s)]
        OBVIOUS
      <4>5. s # {} => f[rest(s)] = h[rest(s)]
        BY <4>1
      <4> HIDE DEF Upto, f
      <4> QED
        BY <4>1, <4>2, <4>3, <4>4, <4>5
    <3>4. f \in Folds(k)
      <4> HIDE DEF Upto
      <4>1. f \in [Upto(k) -> T]
        BY <3>3
      <4> QED
        BY <3>3, <4>1
    <3> QED
      BY <2>4, <3>4
  <2> QED
    BY <2>5, <2>6
<1>4. \E f : IsFold(f, g, S)
  <2>1. PICK f \in Folds(Cardinality(S)) : TRUE
    BY <1>1, <1>3
  <2>2. Upto(Cardinality(S)) = SUBSET S
    BY <1>2
  <2>3. /\ f \in [SUBSET S -> T]
        /\ \A s \in SUBSET S : f[s] = IF s = {} THEN 0 ELSE g[first(s)] + f[rest(s)]
    BY <2>1, <2>2
  <2>4. f = [s \in SUBSET S |-> IF s = {} THEN 0 ELSE g[first(s)] + f[rest(s)]]
    BY <2>3
  <2>5. IsFold(f, g, S)
    BY <2>4, Zenon DEF IsFold, first, rest
  <2> HIDE DEF Folds
  <2> QED
    BY <2>5
<1> DEFINE f == CHOOSE k : IsFold(k, g, S)
<1>5. IsFold(f, g, S)
  BY <1>4
<1> HIDE DEF f
<1>6. \A s \in SUBSET S : f[s] = IF s = {} THEN 0 ELSE g[first(s)] + f[rest(s)]
  BY <1>5 DEF IsFold, first, rest
<1> DEFINE outside == {n \in Nat : \E s \in SUBSET S : Cardinality(s) = n /\ f[s] \notin T}
<1>7. ASSUME outside # {} PROVE FALSE
  <2>1. outside \in SUBSET Nat
    OBVIOUS
  <2>2. PICK n \in outside : \A m \in outside : n <= m
    <3> HIDE DEF outside
    <3> QED
      BY <1>7, <2>1, LeastNumber
  <2>3. PICK s \in SUBSET S : Cardinality(s) = n /\ f[s] \notin T
    OBVIOUS
  <2>4. s # {}
    BY <1>6, <2>3
  <2>5. rest(s) \in SUBSET S /\ Cardinality(rest(s)) = n - 1 /\ n - 1 \in Nat /\ g[first(s)] \in T
    BY <1>2, <2>3, <2>4
  <2>6. f[rest(s)] \notin T
    BY <1>6, <2>3, <2>4, <2>5
  <2>7. n - 1 \in outside /\ n \in Nat
    BY <2>5, <2>6
  <2> HIDE DEF outside
  <2> QED
    BY <2>2, <2>7
<1>8. f[S] \in T
  BY <1>1, <1>7
<1> QED
  BY <1>8 DEF f

\* The weights and the thresholds of the schemas the code gives are numbers.
LEMMA DefaultSchemas ==
  ASSUME NEW name \in DOMAIN DefaultQuant
  PROVE  DefaultQuant[name].weight \in Nat /\ DefaultQuant[name].threshold \in Int \cup {None}
<1> DEFINE higher == [total_return |-> 25, annual_return |-> 10, excess_return |-> 25,
                      sharpe |-> 30, win_rate |-> 5, stability_score |-> 10]
           other ==
             [benchmark_return |-> Schema("reference", "business", 0),
              trade_count |-> Schema("bounded", "business", 0),
              latency_ms |-> Schema("lower", "system", 0),
              sample_count |-> Schema("higher", "data_quality", 0),
              max_drawdown |-> [direction |-> "lower", category |-> "guardrail", weight |-> 20,
                                threshold |-> 20, guardrail |-> TRUE]]
<1>1. DefaultQuant =
        [n \in DOMAIN higher \cup DOMAIN other |->
           IF n \in DOMAIN other THEN other[n] ELSE Schema("higher", "business", higher[n])]
  BY DEF DefaultQuant
<1>2. \A n \in DOMAIN higher : higher[n] \in Nat
  OBVIOUS
<1>3. \A n \in DOMAIN other : other[n].weight \in Nat /\ other[n].threshold \in Int \cup {None}
  BY DEF Schema
<1> HIDE DEF higher, other
<1>4. \A d, c, w : Schema(d, c, w).weight = w /\ Schema(d, c, w).threshold = None
  BY DEF Schema
<1>5. name \in DOMAIN higher \cup DOMAIN other
  BY <1>1
<1>6. CASE name \in DOMAIN other
  <2>1. DefaultQuant[name] = other[name]
    BY <1>1, <1>5, <1>6
  <2> QED
    BY <1>3, <1>6, <2>1
<1>7. CASE name \notin DOMAIN other
  <2>1. DefaultQuant[name] = Schema("higher", "business", higher[name])
    BY <1>1, <1>5, <1>7
  <2>2. higher[name] \in Nat
    BY <1>2, <1>5, <1>7
  <2> QED
    BY <1>4, <2>1, <2>2
<1> QED
  BY <1>6, <1>7

LEMMA SchemasAreNumbers ==
  ASSUME NEW p \in Payloads, NEW name
  PROVE  LET s == SchemaFor(Registry(Content[p]), name)
         IN s.weight \in Nat /\ s.threshold \in Int \cup {None}
<1> DEFINE registry == Registry(Content[p])
<1>1. \A n \in DOMAIN registry :
        registry[n].weight \in Nat /\ registry[n].threshold \in Int \cup {None}
  BY DefaultSchemas, EvidenceAssumption DEF Registry
<1> HIDE DEF registry
<1> DEFINE s == SchemaFor(registry, name)
<1>2. ASSUME name \in DOMAIN registry PROVE s.weight \in Nat /\ s.threshold \in Int \cup {None}
  BY <1>1, <1>2 DEF SchemaFor
<1>3. ASSUME name \notin DOMAIN registry
      PROVE  s.weight \in Nat /\ s.threshold \in Int \cup {None}
  BY <1>3 DEF SchemaFor, Schema
<1> QED
  BY <1>2, <1>3 DEF registry

\* So are the weighted sum of the changes that a comparison comes to, and the weight
\* it is to be divided by, which is never zero.
LEMMA ComparisonsAreNumbers ==
  ASSUME NEW pair \in Compares
  PROVE  LET cmp == ReportOf(pair).comparison
         IN cmp.sum \in Int /\ cmp.weight \in Nat \ {0}
<1> DEFINE b == Content[pair[1]]
           c == Content[pair[2]]
           from == b.metrics
           to == c.metrics
           S(name) == SchemaFor(Registry(c), name)
           business == {name \in DOMAIN from \cap DOMAIN to :
                          S(name).category \in {"business", "guardrail"}}
           Weight(name) == S(name).weight
           Change(name) == S(name).weight * NormalizedChange(S(name), from[name], to[name])
           weights == MapThenSumSet(Weight, business)
           sum == MapThenSumSet(Change, business)
           g == [name \in business |-> Weight(name)]
           h == [name \in business |-> Change(name)]
           IsTotal(f) == f = [s \in SUBSET business |->
                               IF s = {} THEN 0
                               ELSE Weight(CHOOSE x \in s : TRUE) + f[s \ {CHOOSE x \in s : TRUE}]]
           IsSum(f) == f = [s \in SUBSET business |->
                             IF s = {} THEN 0
                             ELSE Change(CHOOSE x \in s : TRUE) + f[s \ {CHOOSE x \in s : TRUE}]]
           cmp == Comparison(from, to, Registry(c), c.kind, SampleCount(to))
<1>0. pair[1] \in Payloads /\ pair[2] \in Payloads
  BY DEF Compares
<1>1. weights = (CHOOSE f : IsTotal(f))[business]
  BY Zenon DEF MapThenSumSet, MapThenFoldSet
<1>2. sum = (CHOOSE f : IsSum(f))[business]
  BY Zenon DEF MapThenSumSet, MapThenFoldSet
<1>3. cmp.sum = sum /\ cmp.weight = IF weights = 0 THEN 1 ELSE weights
  BY Zenon DEF Comparison
<1>4. ReportOf(pair).comparison = cmp
  BY DEF ReportOf, Report
<1>5. /\ from \in [DOMAIN from -> Int] /\ IsFiniteSet(DOMAIN from)
      /\ to \in [DOMAIN to -> Int]
  BY <1>0, EvidenceAssumption
<1>6. \A name : S(name).weight \in Nat /\ S(name).threshold \in Int \cup {None}
  BY <1>0, SchemasAreNumbers
<1> HIDE DEF cmp, weights, sum, b, c
<1>7. IsFiniteSet(business) /\ business \subseteq DOMAIN from /\ business \subseteq DOMAIN to
  BY <1>5, FS_Subset
<1>8. ASSUME NEW name \in business PROVE Weight(name) \in Nat /\ Change(name) \in Int
  <2> DEFINE a == S(name)
             m == from[name]
             n == to[name]
  <2>1. a.weight \in Nat /\ a.threshold \in Int \cup {None} /\ m \in Int /\ n \in Int
    BY <1>5, <1>6, <1>7
  <2> HIDE DEF a, m, n
  <2>2. a.threshold # None => Distance(n, a.threshold) \in Int
    BY <2>1 DEF Distance
  <2>3. NormalizedChange(a, m, n) \in Int
    BY <2>1, <2>2 DEF NormalizedChange
  <2>4. a.weight * NormalizedChange(a, m, n) \in Int
    BY <2>1, <2>3
  <2> QED
    BY <2>1, <2>4 DEF a, m, n
<1>9. ASSUME NEW f PROVE (IsTotal(f) <=> IsFold(f, g, business)) /\ (IsSum(f) <=> IsFold(f, h, business))
  <2> DEFINE a(s) == CHOOSE x \in s : TRUE
  <2>1. ASSUME NEW s \in SUBSET business, s # {}
        PROVE  g[a(s)] = Weight(a(s)) /\ h[a(s)] = Change(a(s))
    <3>1. a(s) \in business
      BY <2>1
    <3> HIDE DEF a, business, Weight, Change
    <3> QED
      BY <3>1
  <2> HIDE DEF g, h, Weight, Change, business
  <2>2. [s \in SUBSET business |-> IF s = {} THEN 0 ELSE Weight(a(s)) + f[s \ {a(s)}]]
          = [s \in SUBSET business |-> IF s = {} THEN 0 ELSE g[a(s)] + f[s \ {a(s)}]]
    BY <2>1
  <2>3. [s \in SUBSET business |-> IF s = {} THEN 0 ELSE Change(a(s)) + f[s \ {a(s)}]]
          = [s \in SUBSET business |-> IF s = {} THEN 0 ELSE h[a(s)] + f[s \ {a(s)}]]
    BY <2>1
  <2> QED
    BY <2>2, <2>3, Zenon DEF IsFold
<1>10. g \in [business -> Nat] /\ h \in [business -> Int]
  <2> HIDE DEF business, Weight, Change
  <2> QED
    BY <1>8
<1>11. /\ (CHOOSE f : IsTotal(f)) = (CHOOSE f : IsFold(f, g, business))
       /\ (CHOOSE f : IsSum(f)) = (CHOOSE f : IsFold(f, h, business))
  <2> HIDE DEF g, h, business, IsTotal, IsSum
  <2> QED
    BY <1>9
<1> HIDE DEF g, h, IsTotal, IsSum, business
<1>12. (CHOOSE f : IsFold(f, g, business))[business] \in Nat
  <2>1. 0 \in Nat /\ \A m, n \in Nat : m + n \in Nat
    OBVIOUS
  <2> QED
    BY <1>7, <1>10, <2>1, FoldHasType, Zenon
<1>13. (CHOOSE f : IsFold(f, h, business))[business] \in Int
  BY <1>7, <1>10, FoldHasType
<1>14. weights \in Nat /\ sum \in Int
  BY <1>1, <1>2, <1>11, <1>12, <1>13
<1> QED
  BY <1>3, <1>4, <1>14

-----------------------------------------------------------------------------
(* What a comparison that is good enough says of its payloads *)

\* What a comparison takes over from the candidate.
LEMMA ComparisonOf ==
  ASSUME NEW pair \in Compares
  PROVE  LET b == Content[pair[1]]
             c == Content[pair[2]]
             cmp == ReportOf(pair).comparison
         IN /\ cmp = Comparison(b.metrics, c.metrics, Registry(c), c.kind, SampleCount(c.metrics))
            /\ cmp.kind = c.kind /\ cmp.samples = SampleCount(c.metrics)
<1> DEFINE b == Content[pair[1]]
           c == Content[pair[2]]
           cmp == ReportOf(pair).comparison
<1>1. cmp = Comparison(b.metrics, c.metrics, Registry(c), c.kind, SampleCount(c.metrics))
  BY DEF ReportOf, Report
<1> HIDE DEF cmp
<1>2. cmp.kind = c.kind /\ cmp.samples = SampleCount(c.metrics)
  BY <1>1, Zenon DEF Comparison
<1> QED
  BY <1>1, <1>2 DEF cmp

\* A trace that covers too few nodes leaves black boxes, so a run that is poor in
\* all three loses more than the gate allows.
LEMMA QualityNeedsCoverage ==
  ASSUME NEW run, IsFiniteSet(run.nodes), Quality(run) # "rejected"
  PROVE  Covers(Traced(run), run.nodes, 80) \/ Covers(Measured(run), run.nodes, 50)
<1>1. SUFFICES ASSUME ~Covers(Traced(run), run.nodes, 80), ~Covers(Measured(run), run.nodes, 50)
               PROVE  FALSE
  OBVIOUS
<1>2. Traced(run) # run.nodes
  <2>1. Cardinality(run.nodes) \in Nat
    BY FS_CardinalityType
  <2> QED
    BY <1>1, <2>1 DEF Covers
<1>3. Traced(run) \subseteq run.nodes
  BY DEF Traced, EventsAt
<1>4. BlackBoxes(run) # {}
  BY <1>2, <1>3 DEF BlackBoxes
<1>5. {"low_trace_coverage", "low_metric_coverage", "black_boxes"} \subseteq Reasons(run)
  BY <1>1, <1>4 DEF Reasons, Penalty
<1> QED
  BY <1>5 DEF Quality, Penalty

\* Whatever may be proposed is approvable, ...
LEMMA StrongIsApprovable == StrongEnough \subseteq Approvable
<1>1. SUFFICES ASSUME NEW pair \in StrongEnough
               PROVE  pair \in Approvable
  OBVIOUS
<1> DEFINE cmp == ReportOf(pair).comparison
           c == Content[pair[2]]
<1>2. pair \in Compares /\ pair[2] \in Payloads
  BY DEF StrongEnough, Compares
<1>3. cmp.sum \in Int /\ cmp.weight \in Nat \ {0} /\ IsFiniteSet(c.nodes) /\ SampleCount(c.metrics) \in Nat
  BY <1>2, ComparisonsAreNumbers, EvidenceAssumption
<1>4. Decision(cmp) = "improved"
  BY DEF StrongEnough, ReportOf, Report, ComparisonRecommendation, Decision
<1>5. /\ cmp.violations = {} /\ cmp.kind # "synthetic" /\ ~(cmp.samples < 30)
      /\ cmp.sum > 0 /\ cmp.sum >= 5 * cmp.weight
  BY <1>4 DEF Decision, Improved, ScoreAtLeast
<1>6. Quality(c) # "rejected"
  BY DEF StrongEnough, ReportOf, Report
<1>7. Covers(Traced(c), c.nodes, 80) \/ Covers(Measured(c), c.nodes, 50)
  BY <1>3, <1>6, QualityNeedsCoverage
<1>8. c.kind # "synthetic" /\ SampleCount(c.metrics) >= 30
  BY <1>2, <1>3, <1>5, ComparisonOf
<1>9. pair \in Gaining(LAMBDA gain, weight : gain > 0 /\ gain >= 5 * weight)
  <2> DEFINE b == Content[pair[1]]
             S(name) == SchemaFor(Registry(c), name)
             common == DOMAIN b.metrics \cap DOMAIN c.metrics
             business == {name \in common : S(name).category \in {"business", "guardrail"}}
             gain(name) == S(name).weight * NormalizedChange(S(name), b.metrics[name], c.metrics[name])
             sum == MapThenSumSet(gain, business)
             weight == MapThenSumSet(LAMBDA name : S(name).weight, business)
  <2>1. cmp = Comparison(b.metrics, c.metrics, Registry(c), c.kind, SampleCount(c.metrics))
    BY <1>2, ComparisonOf
  <2> HIDE DEF cmp
  <2>2. cmp.sum = sum /\ cmp.weight = IF weight = 0 THEN 1 ELSE weight
    BY <2>1 DEF Comparison
  <2>3. cmp.violations = {name \in common : ViolatesGuardrail(S(name), c.metrics[name])}
    BY <2>1 DEF Comparison
  <2>4. \A name \in common : ~ViolatesGuardrail(S(name), c.metrics[name])
    BY <1>5, <2>3
  <2> HIDE DEF sum, weight
  <2>5. sum > 0 /\ sum >= 5 * weight
    BY <1>3, <1>5, <2>2
  <2> USE DEF sum, weight
  <2> QED
    BY <1>2, <2>4, <2>5 DEF Gaining, Compares
<1> QED
  BY <1>7, <1>8, <1>9 DEF Approvable

\* ... and whatever enters paper trading is tradable.
LEMMA EnteringIsTradable == EnteringPaper \subseteq Tradable
<1>1. SUFFICES ASSUME NEW pair \in EnteringPaper
               PROVE  pair \in Tradable
  OBVIOUS
<1> DEFINE cmp == ReportOf(pair).comparison
<1>2. pair \in Compares /\ cmp.violations = {} /\ cmp.samples >= 252 /\ cmp.sum > 0
  BY DEF EnteringPaper, BreakingGuardrails
<1>3. pair \in Gaining(LAMBDA gain, weight : gain > 0)
  BY <1>2 DEF Gaining, Compares, ReportOf, Report, Comparison
<1> QED
  BY <1>2, <1>3 DEF Tradable, ReportOf, Report, Comparison

-----------------------------------------------------------------------------
(* The best comparison of a drill is one of its comparisons *)

\* Comparing fractions by their cross products is transitive.
LEMMA CrossProducts ==
  ASSUME NEW s1 \in Int, NEW s2 \in Int, NEW s3 \in Int,
         NEW w1 \in Nat \ {0}, NEW w2 \in Nat \ {0}, NEW w3 \in Nat \ {0},
         s1 * w2 >= s2 * w1, s2 * w3 >= s3 * w2
  PROVE  s1 * w3 >= s3 * w1
<1>1. ASSUME NEW x \in Int, NEW y \in Int, NEW w \in Nat \ {0}
      PROVE  x >= y <=> x * w >= y * w
  OBVIOUS
<1>2. (s1 * w2) * w3 >= (s2 * w1) * w3
  BY <1>1
<1>3. (s2 * w3) * w1 >= (s3 * w2) * w1
  BY <1>1
<1>4. /\ (s1 * w2) * w3 = (s1 * w3) * w2 /\ (s2 * w1) * w3 = (s2 * w3) * w1
      /\ (s3 * w2) * w1 = (s3 * w1) * w2
  OBVIOUS
<1>5. (s1 * w3) * w2 >= (s3 * w1) * w2
  BY <1>2, <1>3, <1>4
<1> QED
  BY <1>1, <1>5

LEMMA AsGoodIsAnOrder ==
  ASSUME NEW x \in Compares, NEW y \in Compares, NEW z \in Compares
  PROVE  /\ <<x, x>> \in AsGood
         /\ <<x, y>> \in AsGood \/ <<y, x>> \in AsGood
         /\ <<x, y>> \in AsGood /\ <<y, z>> \in AsGood => <<x, z>> \in AsGood
<1> DEFINE s(c) == ReportOf(c).comparison.sum
           w(c) == ReportOf(c).comparison.weight
<1>1. \A c \in Compares : s(c) \in Int /\ w(c) \in Nat \ {0}
  BY ComparisonsAreNumbers
<1>2. \A c, d \in Compares : <<c, d>> \in AsGood <=> s(c) * w(d) >= s(d) * w(c)
  BY DEF AsGood
<1> HIDE DEF s, w
<1>3. s(x) * w(y) \in Int /\ s(y) * w(x) \in Int
  BY <1>1
<1>4. <<x, y>> \in AsGood /\ <<y, z>> \in AsGood => <<x, z>> \in AsGood
  BY <1>1, <1>2, CrossProducts
<1> QED
  BY <1>1, <1>2, <1>3, <1>4

\* The best is the first that no other is better than; there is one since fewest
\* are better than it.
LEMMA BestIsCompared ==
  ASSUME NEW compared \in Seq(Compares), compared # <<>>
  PROVE  \E i \in DOMAIN compared : Best(compared) = compared[i]
<1> DEFINE I == DOMAIN compared
           Good(i, j) == <<compared[i], compared[j]>> \in AsGood
           Beats(i) == {j \in I : ~Good(i, j)}
           Top(i) == i \in I /\ \A j \in I : Good(i, j)
<1>1. I = 1 .. Len(compared) /\ Len(compared) \in Nat \ {0} /\ \A i \in I : compared[i] \in Compares
  BY LenProperties, ElementOfSeq, EmptySeq
<1>2. \A i, j, k \in I : /\ Good(i, i)
                         /\ Good(i, j) \/ Good(j, i)
                         /\ Good(i, j) /\ Good(j, k) => Good(i, k)
  BY <1>1, AsGoodIsAnOrder
<1>3. IsFiniteSet(I)
  BY <1>1, FS_Interval
<1>4. \A i \in I : IsFiniteSet(Beats(i)) /\ Cardinality(Beats(i)) \in Nat
  BY <1>3, FS_Subset, FS_CardinalityType
<1> DEFINE beats == [i \in I |-> Cardinality(Beats(i))]
<1>5. \A i \in I : beats[i] = Cardinality(Beats(i)) /\ beats[i] \in Nat
  BY <1>4
<1> HIDE DEF Good, beats
<1>6. \E i \in I : Top(i)
  <2> DEFINE Numbers == {beats[i] : i \in I}
  <2>1. Numbers \in SUBSET Nat /\ Numbers # {}
    <3>1. 1 \in I
      BY <1>1
    <3> HIDE DEF I
    <3> QED
      BY <1>5, <3>1
  <2>2. PICK n \in Numbers : \A m \in Numbers : n <= m
    <3> HIDE DEF Numbers
    <3> QED
      BY <2>1, LeastNumber
  <2>3. PICK i \in I : \A j \in I : beats[i] <= beats[j]
    <3> HIDE DEF I
    <3> QED
      BY <2>2
  <2>4. ASSUME NEW j \in I, ~Good(i, j)
        PROVE  FALSE
    <3>1. Beats(j) \subseteq Beats(i)
      BY <1>2, <2>4
    <3>2. j \in Beats(i) \ Beats(j)
      BY <1>2, <2>4
    <3> HIDE DEF Beats
    <3>3. /\ Cardinality(Beats(j)) <= Cardinality(Beats(i))
          /\ Cardinality(Beats(i)) = Cardinality(Beats(j)) => Beats(i) = Beats(j)
      BY <1>4, <3>1, FS_Subset
    <3>4. beats[i] <= beats[j] /\ beats[i] \in Nat /\ beats[j] \in Nat
      BY <1>5, <2>3
    <3>5. Cardinality(Beats(i)) = Cardinality(Beats(j))
      BY <1>5, <3>3, <3>4
    <3> QED
      BY <3>2, <3>3, <3>5
  <2> QED
    BY <2>3, <2>4
<1> DEFINE Tops == {k \in I : Top(k)}
<1>7. PICK i \in Tops : \A j \in Tops : i <= j
  <2>1. Tops \in SUBSET Nat /\ Tops # {}
    BY <1>1, <1>6
  <2> HIDE DEF Tops
  <2> QED
    BY <2>1, LeastNumber
<1>8. ASSUME NEW j \in 1 .. i - 1, Good(j, i)
      PROVE  FALSE
  <2>1. i \in I /\ j \in I /\ j < i
    BY <1>1, <1>7
  <2>2. \A k \in I : Good(j, k)
    BY <1>2, <1>7, <1>8, <2>1
  <2>3. j \in Tops
    BY <2>1, <2>2
  <2> QED
    BY <1>1, <1>7, <2>1, <2>3
<1>9. \E k \in I : /\ \A j \in I : Good(k, j)
                   /\ \A j \in 1 .. k - 1 : ~Good(j, k)
  BY <1>7, <1>8
<1> USE DEF Good
<1> DEFINE First(k) == /\ \A j \in I : Good(k, j)
                       /\ \A j \in 1 .. k - 1 : ~Good(j, k)
           best == CHOOSE k \in I : First(k)
<1>10. best \in I
  <2> HIDE DEF First
  <2>1. \E k \in I : First(k)
    BY <1>9 DEF First
  <2> QED
    BY <2>1
<1>11. Best(compared) = compared[best]
  BY DEF Best
<1> QED
  BY <1>10, <1>11

-----------------------------------------------------------------------------
(* What the operations leave behind *)

LEMMA SavingARow ==
  ASSUME TypeOK, NEW p \in Payloads, Saves(p)
  PROVE  /\ row' \in [Runs -> Payloads \cup {None}]
         /\ row'[IdOf(p)] = p /\ \A r \in Runs : r # IdOf(p) => row'[r] = row[r]
         /\ ingested' = ingested \cup {p} /\ ingested' \subseteq Payloads
         /\ outdated \subseteq outdated' /\ outdated' \subseteq Pairs \cup Requests
         /\ row[IdOf(p)] # p => outdated' = outdated \cup Replaced(IdOf(p))
         /\ row[IdOf(p)] = p => row' = row
<1>1. IdOf(p) \in Runs /\ row \in [Runs -> Payloads \cup {None}]
  BY PayloadParts DEF TypeOK
<1>2. Replaced(IdOf(p)) \subseteq Pairs \cup Requests
  BY DEF Replaced
<1> HIDE DEF Replaced
<1> QED
  BY <1>1, <1>2 DEF TypeOK, Saves

\* What a drill ingests is a payload, ...
LEMMA DrillIngestsPayloads ==
  ASSUME TypeOK, StagesInv, NEW d \in Drills, stage[d] = "idle"
  PROVE  done[d] + 1 \in 1 .. Len(DrillPayloads) /\ DrillPayloads[done[d] + 1] \in Payloads
<1>1. done[d] \in Nat /\ done[d] <= Len(DrillRuns)
  BY DEF TypeOK, StagesInv, DrillStages
<1> QED
  BY <1>1, DrillConstants

\* ... and it reviews a comparison of what was ingested.
LEMMA DrillReviewsAComparison ==
  ASSUME TypeOK, StagesInv, NEW d \in Drills, stage[d] = "select", done[d] = Len(Selected)
  PROVE  Best(results[d]) \in ingested \X ingested
<1>1. results[d] \in Seq(ingested \X ingested) /\ Len(results[d]) = Len(Selected)
  BY DEF StagesInv, DrillStages
<1>2. results[d] \in Seq(Compares)
  BY DEF TypeOK, Compares
<1>3. results[d] # <<>>
  BY <1>1, DrillConstants
<1>4. PICK i \in DOMAIN results[d] : Best(results[d]) = results[d][i]
  BY <1>2, <1>3, BestIsCompared
<1> QED
  BY <1>1, <1>4, LenProperties, ElementOfSeq

\* The types are kept.
LEMMA TypeStep == Inv /\ Next => TypeOK'
<1> SUFFICES ASSUME Inv, Next
             PROVE  TypeOK'
  OBVIOUS
<1> USE ReportsHaveTypes, RequestKinds, PayloadParts
<1>1. ASSUME NEW p \in Payloads, Ingest(p)
      PROVE  TypeOK'
  <2>1. Saves(p)
    BY <1>1 DEF Ingest
  <2> QED
    BY <1>1, <2>1, SavingARow DEF TypeOK, Inv, Ingest, requestVars
<1>2. ASSUME NEW s \in Requests, NEW w \in Workflows, CheckBaseline(s, w)
      PROVE  TypeOK'
  BY <1>2 DEF TypeOK, Inv, CheckBaseline, Starts, Goes, runVars
<1>3. ASSUME NEW s \in Requests, SetBaseline(s)
      PROVE  TypeOK'
  BY <1>3 DEF TypeOK, Inv, SetBaseline, Goes, requestVars, runVars
<1>4. ASSUME NEW q \in Requests, FindCandidate(q)
      PROVE  TypeOK'
  BY <1>4 DEF TypeOK, Inv, FindCandidate, Starts, Goes, runVars
<1>5. ASSUME NEW q \in Requests, FindBaseline(q)
      PROVE  TypeOK'
  <2>1. held[q] \in Workflows
    BY <1>5 DEF Inv, HeldInv, Holds, FindBaseline, Goes
  <2>2. baseline[held[q]] \in Runs \cup {None}
    BY <2>1 DEF TypeOK, Inv
  <2>3. asked' \in [Requests -> (Runs \cup {None}) \X (Runs \cup {None})]
    BY <1>5, <2>2 DEF TypeOK, Inv, FindBaseline
  <2> QED
    BY <1>5, <2>3 DEF TypeOK, Inv, FindBaseline, Goes, runVars
<1>6. ASSUME NEW q \in Requests, NEW pair \in Pairs, AskFor(q, pair)
      PROVE  TypeOK'
  <2>1. asked' \in [Requests -> (Runs \cup {None}) \X (Runs \cup {None})]
    BY <1>6 DEF TypeOK, Inv, AskFor, Pairs
  <2> QED
    BY <1>6, <2>1 DEF TypeOK, Inv, AskFor, Starts, Goes, runVars
<1>7. ASSUME NEW q \in Requests, ReadBaselineRun(q)
      PROVE  TypeOK'
  BY <1>7 DEF TypeOK, Inv, ReadBaselineRun, Goes, runVars
<1>8. ASSUME NEW q \in Requests, ReadCandidateRun(q)
      PROVE  TypeOK'
  BY <1>8 DEF TypeOK, Inv, ReadCandidateRun, Goes, runVars
<1>9. ASSUME NEW q \in Requests, SaveReport(q)
      PROVE  TypeOK'
  <2>1. held[q] \in Payloads \X Payloads /\ asked[q] \in Pairs
    BY <1>9 DEF Inv, TypeOK, HeldInv, Holds, SaveReport, Goes
  <2>2. stage' \in [Requests -> {"idle", "baseline", "write", "read", "compare", "save",
                                 "propose", "select", "over"}]
    BY <1>9 DEF Inv, TypeOK, SaveReport, Goes, AfterSaving
  <2>3. results' \in [Drills -> Seq(Payloads \X Payloads)]
    BY <1>9, <2>1, AppendProperties DEF Inv, TypeOK, SaveReport
  <2>4. report' \in [Runs -> [Runs -> (Payloads \X Payloads) \cup {None}]]
    BY <1>9, <2>1 DEF Inv, TypeOK, SaveReport, Pairs
  <2>5. outdated' \subseteq Pairs \cup Requests
    BY <1>9, <2>1 DEF Inv, TypeOK, SaveReport
  <2> QED
    BY <1>9, <2>2, <2>3, <2>4, <2>5 DEF TypeOK, Inv, SaveReport, runVars
<1>10. ASSUME NEW q \in Requests, CreateProposal(q)
       PROVE  TypeOK'
  <2>1. asked[q] \in Pairs
    BY <1>10 DEF Inv, HeldInv, Holds, CreateProposal, Goes
  <2> QED
    BY <1>10, <2>1 DEF TypeOK, Inv, CreateProposal, Goes, requestVars, runVars
<1>11. ASSUME NEW d \in Requests, DrillIngest(d)
       PROVE  TypeOK'
  <2> DEFINE p == DrillPayloads[done[d] + 1]
  <2>1. d \in Drills /\ stage[d] = "idle" /\ Saves(p)
    BY <1>11 DEF DrillIngest
  <2>2. done[d] + 1 \in 1 .. Len(DrillRuns) + 1 /\ p \in Payloads
    BY <2>1, DrillIngestsPayloads, DrillConstants DEF Inv
  <2> HIDE DEF p
  <2>3. /\ row' \in [Runs -> Payloads \cup {None}] /\ ingested' \subseteq Payloads
        /\ outdated' \subseteq Pairs \cup Requests
    BY <2>1, <2>2, SavingARow DEF Inv
  <2>4. stage' \in [Requests -> {"idle", "baseline", "write", "read", "compare", "save",
                                 "propose", "select", "over"}]
    BY <1>11 DEF TypeOK, Inv, DrillIngest
  <2>5. done' \in [Drills -> 0 .. Len(DrillRuns) + 1]
    BY <1>11, <2>2, DrillConstants DEF TypeOK, Inv, DrillIngest
  <2> QED
    BY <1>11, <2>3, <2>4, <2>5 DEF TypeOK, Inv, DrillIngest
<1>12. ASSUME NEW d \in Requests, DrillNext(d)
       PROVE  TypeOK'
  <2>1. done[d] + 1 \in 1 .. Len(Selected) /\ Len(Selected) <= Len(DrillRuns)
    BY <1>12, DrillConstants DEF TypeOK, Inv, DrillNext
  <2>2. {DrillBaseline, DrillRuns[Selected[done[d] + 1]]} \subseteq Payloads
    BY <2>1, DrillConstants, EvidenceAssumption
  <2> HIDE DEF Selected
  <2>3. done' \in [Drills -> 0 .. Len(DrillRuns) + 1]
    BY <1>12, <2>1, DrillConstants DEF TypeOK, Inv, DrillNext
  <2> QED
    BY <1>12, <2>2, <2>3 DEF TypeOK, Inv, DrillNext, Goes, runVars
<1>13. ASSUME NEW d \in Requests, DrillReview(d)
       PROVE  TypeOK'
  <2>1. Best(results[d]) \in Payloads \X Payloads
    BY <1>13, DrillReviewsAComparison DEF TypeOK, Inv, DrillReview, Goes
  <2> QED
    BY <1>13, <2>1 DEF TypeOK, Inv, DrillReview, Goes, runVars
<1>14. CASE UNCHANGED vars
  BY <1>14 DEF TypeOK, Inv, vars
<1> QED
  BY <1>1, <1>2, <1>3, <1>4, <1>5, <1>6, <1>7, <1>8, <1>9, <1>10, <1>11, <1>12,
     <1>13, <1>14 DEF Next

\* Rows change where a payload is saved, and nowhere else.
LEMMA RowsChangeBySaving == Inv /\ [Next]_vars => (\E p \in Payloads : Saves(p)) \/ UNCHANGED <<row, ingested>>
<1> SUFFICES ASSUME Inv, [Next]_vars
             PROVE  (\E p \in Payloads : Saves(p)) \/ UNCHANGED <<row, ingested>>
  OBVIOUS
<1>1. CASE \E p \in Payloads : Ingest(p)
  BY <1>1 DEF Ingest
<1>2. CASE \E d \in Requests : DrillIngest(d)
  <2>1. PICK d \in Drills : stage[d] = "idle" /\ Saves(DrillPayloads[done[d] + 1])
    BY <1>2 DEF DrillIngest
  <2>2. DrillPayloads[done[d] + 1] \in Payloads
    BY <2>1, DrillIngestsPayloads DEF Inv
  <2> QED
    BY <2>1, <2>2
<1>3. CASE \E q \in Requests :
             \/ \E w \in Workflows : CheckBaseline(q, w)
             \/ SetBaseline(q) \/ FindCandidate(q) \/ FindBaseline(q)
             \/ \E pair \in Pairs : AskFor(q, pair)
             \/ ReadBaselineRun(q) \/ ReadCandidateRun(q) \/ SaveReport(q) \/ CreateProposal(q)
             \/ DrillNext(q) \/ DrillReview(q)
  BY <1>3 DEF CheckBaseline, SetBaseline, FindCandidate, FindBaseline, AskFor, ReadBaselineRun,
              ReadCandidateRun, SaveReport, CreateProposal, DrillNext, DrillReview, runVars
<1> QED
  BY <1>1, <1>2, <1>3 DEF Next, vars

\* A row is what was last saved under its id.
LEMMA RowsStep == Inv /\ [Next]_vars => RowsInv' /\ ingested \subseteq ingested'
<1> SUFFICES ASSUME Inv, [Next]_vars
             PROVE  RowsInv' /\ ingested \subseteq ingested'
  OBVIOUS
<1>1. ASSUME NEW p \in Payloads, Saves(p)
      PROVE  RowsInv' /\ ingested \subseteq ingested'
  BY <1>1, SavingARow DEF Inv, RowsInv
<1>2. CASE UNCHANGED <<row, ingested>>
  BY <1>2 DEF Inv, RowsInv
<1> QED
  BY <1>1, <1>2, RowsChangeBySaving

\* What fits a workflow goes on fitting it: whatever replaces its run is of the
\* workflow, or shows that the id is another workflow's.
LEMMA FitsStays ==
  ASSUME Inv, [Next]_vars, NEW w, NEW r, Fits(r, w)
  PROVE  Fits(r, w)'
<1>1. ASSUME NEW p \in Payloads, Saves(p)
      PROVE  Fits(r, w)'
  <2>1. CASE IdOf(p) = r
    BY <1>1, <2>1, SavingARow, PayloadParts DEF Inv, Fits
  <2>2. CASE IdOf(p) # r
    BY <1>1, <2>2, SavingARow DEF Inv, Fits
  <2> QED
    BY <2>1, <2>2
<1>2. CASE UNCHANGED <<row, ingested>>
  BY <1>2 DEF Fits
<1> QED
  BY <1>1, <1>2, RowsChangeBySaving

\* Each request goes through the stages of its kind ...
LEMMA KindsStep == Inv /\ [Next]_vars => KindStages'
<1> SUFFICES ASSUME Inv, [Next]_vars
             PROVE  KindStages'
  OBVIOUS
<1> USE RequestKinds
<1>1. ASSUME NEW p \in Payloads, Ingest(p)
      PROVE  KindStages'
  BY <1>1 DEF TypeOK, Inv, StagesInv, KindStages, Ingest, Saves
<1>2. ASSUME NEW s \in Requests, NEW w \in Workflows, CheckBaseline(s, w)
      PROVE  KindStages'
  BY <1>2 DEF TypeOK, Inv, StagesInv, KindStages, CheckBaseline, Starts, Goes, runVars
<1>3. ASSUME NEW s \in Requests, SetBaseline(s)
      PROVE  KindStages'
  BY <1>3 DEF TypeOK, Inv, StagesInv, KindStages, SetBaseline, Goes, requestVars, runVars
<1>4. ASSUME NEW q \in Requests, FindCandidate(q)
      PROVE  KindStages'
  BY <1>4 DEF TypeOK, Inv, StagesInv, KindStages, FindCandidate, Starts, Goes, runVars
<1>5. ASSUME NEW q \in Requests, FindBaseline(q)
      PROVE  KindStages'
  BY <1>5 DEF TypeOK, Inv, StagesInv, KindStages, FindBaseline, Goes, runVars
<1>6. ASSUME NEW q \in Requests, NEW pair \in Pairs, AskFor(q, pair)
      PROVE  KindStages'
  BY <1>6 DEF TypeOK, Inv, StagesInv, KindStages, AskFor, Starts, Goes, runVars
<1>7. ASSUME NEW q \in Requests, ReadBaselineRun(q)
      PROVE  KindStages'
  BY <1>7 DEF TypeOK, Inv, StagesInv, KindStages, ReadBaselineRun, Goes, runVars
<1>8. ASSUME NEW q \in Requests, ReadCandidateRun(q)
      PROVE  KindStages'
  BY <1>8 DEF TypeOK, Inv, StagesInv, KindStages, ReadCandidateRun, Goes, runVars
<1>9. ASSUME NEW q \in Requests, SaveReport(q)
      PROVE  KindStages'
  BY <1>9 DEF TypeOK, Inv, StagesInv, KindStages, SaveReport, Goes, AfterSaving
<1>10. ASSUME NEW q \in Requests, CreateProposal(q)
       PROVE  KindStages'
  BY <1>10 DEF TypeOK, Inv, StagesInv, KindStages, CreateProposal, Goes, requestVars, runVars
<1>11. ASSUME NEW d \in Requests, DrillIngest(d)
       PROVE  KindStages'
  BY <1>11 DEF TypeOK, Inv, StagesInv, KindStages, DrillIngest, Saves
<1>12. ASSUME NEW d \in Requests, DrillNext(d)
       PROVE  KindStages'
  BY <1>12 DEF TypeOK, Inv, StagesInv, KindStages, DrillNext, Goes, runVars
<1>13. ASSUME NEW d \in Requests, DrillReview(d)
       PROVE  KindStages'
  BY <1>13 DEF TypeOK, Inv, StagesInv, KindStages, DrillReview, Goes, runVars
<1>14. CASE UNCHANGED vars
  BY <1>14 DEF TypeOK, Inv, StagesInv, KindStages, vars
<1> QED
  BY <1>1, <1>2, <1>3, <1>4, <1>5, <1>6, <1>7, <1>8, <1>9, <1>10, <1>11, <1>12,
     <1>13, <1>14 DEF Next

LEMMA SequencesOverMore ==
  ASSUME NEW S, NEW T, S \subseteq T, NEW seq \in Seq(S)
  PROVE  seq \in Seq(T)
OBVIOUS

\* ... and a drill compares candidate after candidate.
LEMMA DrillsStep == Inv /\ [Next]_vars => \A d \in Drills : DrillStages(d)'
<1> SUFFICES ASSUME Inv, [Next]_vars, NEW e \in Drills
             PROVE  DrillStages(e)'
  OBVIOUS
<1> USE RequestKinds
<1>0. ASSUME UNCHANGED <<stage[e], done[e], results[e]>>
      PROVE  DrillStages(e)'
  <2>1. ingested \X ingested \subseteq ingested' \X ingested'
    BY RowsStep
  <2>2. results[e] \in Seq(ingested' \X ingested')
    BY <2>1, SequencesOverMore DEF Inv, StagesInv, DrillStages
  <2> QED
    BY <1>0, <2>2 DEF Inv, StagesInv, DrillStages
<1>1. ASSUME NEW p \in Payloads, Ingest(p)
      PROVE  DrillStages(e)'
  <2>1. UNCHANGED <<stage[e], done[e], results[e]>>
    BY <1>1 DEF TypeOK, Inv, StagesInv, KindStages, Ingest, requestVars
  <2> QED
    BY <1>0, <2>1
<1>2. ASSUME NEW s \in Requests, NEW w \in Workflows, CheckBaseline(s, w)
      PROVE  DrillStages(e)'
  <2>1. UNCHANGED <<stage[e], done[e], results[e]>>
    BY <1>2 DEF TypeOK, Inv, StagesInv, KindStages, CheckBaseline, Starts, Goes, runVars
  <2> QED
    BY <1>0, <2>1
<1>3. ASSUME NEW s \in Requests, SetBaseline(s)
      PROVE  DrillStages(e)'
  <2>1. UNCHANGED <<stage[e], done[e], results[e]>>
    BY <1>3 DEF TypeOK, Inv, StagesInv, KindStages, SetBaseline, Goes, requestVars, runVars
  <2> QED
    BY <1>0, <2>1
<1>4. ASSUME NEW q \in Requests, FindCandidate(q)
      PROVE  DrillStages(e)'
  <2>1. UNCHANGED <<stage[e], done[e], results[e]>>
    BY <1>4 DEF TypeOK, Inv, StagesInv, KindStages, FindCandidate, Starts, Goes, runVars
  <2> QED
    BY <1>0, <2>1
<1>5. ASSUME NEW q \in Requests, FindBaseline(q)
      PROVE  DrillStages(e)'
  <2>1. UNCHANGED <<stage[e], done[e], results[e]>>
    BY <1>5 DEF TypeOK, Inv, StagesInv, KindStages, FindBaseline, Goes, runVars
  <2> QED
    BY <1>0, <2>1
<1>6. ASSUME NEW q \in Requests, NEW pair \in Pairs, AskFor(q, pair)
      PROVE  DrillStages(e)'
  <2>1. UNCHANGED <<stage[e], done[e], results[e]>>
    BY <1>6 DEF TypeOK, Inv, StagesInv, KindStages, AskFor, Starts, Goes, runVars
  <2> QED
    BY <1>0, <2>1
<1>7. ASSUME NEW q \in Requests, ReadBaselineRun(q)
      PROVE  DrillStages(e)'
  <2>1. CASE q # e
    <3>1. UNCHANGED <<stage[e], done[e], results[e]>>
      BY <1>7, <2>1 DEF TypeOK, Inv, ReadBaselineRun, Goes, runVars
    <3> QED
      BY <1>0, <3>1
  <2>2. CASE q = e
    BY <1>7, <2>2 DEF TypeOK, Inv, StagesInv, DrillStages, ReadBaselineRun, Goes, runVars
  <2> QED
    BY <2>1, <2>2
<1>8. ASSUME NEW q \in Requests, ReadCandidateRun(q)
      PROVE  DrillStages(e)'
  <2>1. CASE q # e
    <3>1. UNCHANGED <<stage[e], done[e], results[e]>>
      BY <1>8, <2>1 DEF TypeOK, Inv, ReadCandidateRun, Goes, runVars
    <3> QED
      BY <1>0, <3>1
  <2>2. CASE q = e
    BY <1>8, <2>2 DEF TypeOK, Inv, StagesInv, DrillStages, ReadCandidateRun, Goes, runVars
  <2> QED
    BY <2>1, <2>2
<1>9. ASSUME NEW q \in Requests, SaveReport(q)
      PROVE  DrillStages(e)'
  <2>1. CASE q # e
    <3>1. UNCHANGED <<stage[e], done[e], results[e]>>
      BY <1>9, <2>1 DEF TypeOK, Inv, SaveReport, Goes, runVars
    <3> QED
      BY <1>0, <3>1
  <2>2. CASE q = e
    <3>1. held[e] \in ingested \X ingested
      BY <1>9, <2>2 DEF Inv, HeldInv, Holds, SaveReport, Goes
    <3>2. /\ stage'[e] = "select" /\ results'[e] = Append(results[e], held[e])
          /\ UNCHANGED <<done, ingested>>
      BY <1>9, <2>2 DEF TypeOK, Inv, SaveReport, Goes, AfterSaving, runVars
    <3>3. /\ results[e] \in Seq(ingested \X ingested) /\ Len(results[e]) + 1 = done[e]
          /\ done[e] <= Len(Selected)
      BY <1>9, <2>2 DEF Inv, StagesInv, DrillStages, SaveReport, Goes
    <3>4. results'[e] \in Seq(ingested \X ingested) /\ Len(results'[e]) = Len(results[e]) + 1
      BY <3>1, <3>2, <3>3, AppendProperties
    <3> QED
      BY <3>2, <3>3, <3>4 DEF DrillStages
  <2> QED
    BY <2>1, <2>2
<1>10. ASSUME NEW q \in Requests, CreateProposal(q)
       PROVE  DrillStages(e)'
  <2>1. UNCHANGED <<stage[e], done[e], results[e]>>
    BY <1>10 DEF TypeOK, Inv, StagesInv, KindStages, CreateProposal, Goes, requestVars, runVars
  <2> QED
    BY <1>0, <2>1
<1>11. ASSUME NEW d \in Requests, DrillIngest(d)
       PROVE  DrillStages(e)'
  <2>1. CASE d # e
    <3>1. UNCHANGED <<stage[e], done[e], results[e]>>
      BY <1>11, <2>1 DEF TypeOK, Inv, DrillIngest, Saves
    <3> QED
      BY <1>0, <3>1
  <2>2. CASE d = e
    <3>1. results[e] \in Seq(ingested \X ingested) /\ Len(results[e]) = 0
      BY <1>11, <2>2 DEF Inv, StagesInv, DrillStages, DrillIngest
    <3>2. ingested \X ingested \subseteq ingested' \X ingested'
      BY RowsStep
    <3>3. results'[e] \in Seq(ingested' \X ingested') /\ Len(results'[e]) = 0
      BY <1>11, <2>2, <3>1, <3>2, SequencesOverMore DEF DrillIngest
    <3>4. done[e] + 1 \in 1 .. Len(DrillRuns) + 1 /\ stage[e] = "idle"
      BY <1>11, <2>2, DrillIngestsPayloads, DrillConstants DEF Inv, DrillIngest
    <3>5. \/ stage'[e] = "select" /\ done'[e] = 0
          \/ stage'[e] = "idle" /\ done'[e] = done[e] + 1 /\ done[e] + 1 # Len(DrillRuns) + 1
      BY <1>11, <2>2, DrillConstants DEF TypeOK, Inv, DrillIngest
    <3> QED
      BY <3>3, <3>4, <3>5, DrillConstants DEF DrillStages
  <2> QED
    BY <2>1, <2>2
<1>12. ASSUME NEW d \in Requests, DrillNext(d)
       PROVE  DrillStages(e)'
  <2>1. CASE d # e
    <3>1. UNCHANGED <<stage[e], done[e], results[e]>>
      BY <1>12, <2>1 DEF TypeOK, Inv, DrillNext, Goes, runVars
    <3> QED
      BY <1>0, <3>1
  <2>2. CASE d = e
    <3>1. /\ stage[e] = "select" /\ stage'[e] = "read" /\ done[e] < Len(Selected)
          /\ done'[e] = done[e] + 1 /\ done[e] \in Nat /\ UNCHANGED <<results, ingested>>
      BY <1>12, <2>2 DEF TypeOK, Inv, DrillNext, Goes, runVars
    <3> QED
      BY <3>1, DrillConstants DEF Inv, StagesInv, DrillStages
  <2> QED
    BY <2>1, <2>2
<1>13. ASSUME NEW d \in Requests, DrillReview(d)
       PROVE  DrillStages(e)'
  <2>1. CASE d # e
    <3>1. UNCHANGED <<stage[e], done[e], results[e]>>
      BY <1>13, <2>1 DEF TypeOK, Inv, DrillReview, Goes, runVars
    <3> QED
      BY <1>0, <3>1
  <2>2. CASE d = e
    <3>1. stage[e] = "select" /\ stage'[e] = "over" /\ UNCHANGED <<done, results, ingested>>
      BY <1>13, <2>2 DEF TypeOK, Inv, DrillReview, Goes, runVars
    <3> QED
      BY <3>1 DEF Inv, StagesInv, DrillStages
  <2> QED
    BY <2>1, <2>2
<1>14. CASE UNCHANGED vars
  BY <1>0, <1>14 DEF vars
<1> QED
  BY <1>1, <1>2, <1>3, <1>4, <1>5, <1>6, <1>7, <1>8, <1>9, <1>10, <1>11, <1>12,
     <1>13, <1>14 DEF Next

\* What a request holds goes on being right while others act: a payload that
\* replaces one of its runs leaves it outdated.
LEMMA HeldStays ==
  ASSUME Inv, [Next]_vars, NEW x \in Requests, UNCHANGED <<stage[x], asked[x], held[x]>>,
         x \in outdated => x \in outdated'
  PROVE  Holds(x)'
<1> USE DEF Pairs
<1>1. Holds(x)
  BY DEF Inv, HeldInv
<1>2. stage[x] = "write" => Fits(asked[x][1], held[x])'
  BY <1>1, FitsStays DEF Holds
<1>3. ingested \subseteq ingested'
  BY RowsStep
<1>4. ASSUME NEW i \in {1, 2}, stage[x] \in {"compare", "save"}, x \notin outdated'
      PROVE  row'[asked[x][i]] = row[asked[x][i]]
  <2>1. asked[x][i] \in Runs
    BY <1>1, <1>4 DEF Holds
  <2>2. ASSUME NEW p \in Payloads, Saves(p), row[IdOf(p)] # p
        PROVE  row'[asked[x][i]] = row[asked[x][i]]
    <3>1. x \notin Replaced(IdOf(p))
      BY <1>4, <2>2, SavingARow DEF Inv
    <3>2. IdOf(p) # asked[x][i]
      BY <1>4, <3>1 DEF Replaced
    <3> QED
      BY <2>1, <2>2, <3>2, SavingARow DEF Inv
  <2>3. ASSUME NEW p \in Payloads, Saves(p), row[IdOf(p)] = p
        PROVE  row'[asked[x][i]] = row[asked[x][i]]
    BY <2>3, SavingARow DEF Inv
  <2> QED
    BY <2>2, <2>3, RowsChangeBySaving
<1>5. stage[x] \in {"save", "propose"} => held[x] \in ingested' \X ingested'
  BY <1>1, <1>3 DEF Holds
<1>6. stage[x] = "save" /\ x \notin outdated' => held[x] = <<row'[asked[x][1]], row'[asked[x][2]]>>
  BY <1>1, <1>4 DEF Holds
<1>7. stage[x] = "compare" /\ x \notin outdated' => held[x] = row'[asked[x][1]]
  BY <1>1, <1>4 DEF Holds
<1>8. stage[x] = "compare" /\ held[x] # None => held[x] \in ingested' /\ IdOf(held[x]) = asked[x][1]
  BY <1>1, <1>3 DEF Holds
<1> QED
  BY <1>1, <1>2, <1>5, <1>6, <1>7, <1>8 DEF Holds

\* What a request holds goes with the rows it has read.
LEMMA HeldStep == Inv /\ [Next]_vars => HeldInv'
<1> SUFFICES ASSUME Inv, [Next]_vars, NEW x \in Requests
             PROVE  Holds(x)'
  BY DEF HeldInv
<1> USE RequestKinds, PayloadParts
<1>0. ASSUME stage'[x] \in {"idle", "select", "over"}
      PROVE  Holds(x)'
  BY <1>0 DEF Holds
<1>1. ASSUME NEW p \in Payloads, Ingest(p)
      PROVE  Holds(x)'
  <2>1. UNCHANGED <<stage[x], asked[x], held[x]>> /\ (x \in outdated => x \in outdated')
    BY <1>1 DEF Ingest, Saves, requestVars
  <2> QED
    BY <2>1, HeldStays
<1>2. ASSUME NEW s \in Requests, NEW w \in Workflows, CheckBaseline(s, w)
      PROVE  Holds(x)'
  <2>1. CASE s # x
    <3>1. UNCHANGED <<stage[x], asked[x], held[x]>> /\ (x \in outdated => x \in outdated')
      BY <1>2, <2>1 DEF TypeOK, Inv, CheckBaseline, Starts, Goes
    <3> QED
      BY <3>1, HeldStays
  <2>2. CASE s = x
    <3>1. PICK r \in Runs : /\ row[r] # None /\ WorkflowOf(row[r]) = w
                            /\ asked' = [asked EXCEPT ![s] = <<r, None>>]
      BY <1>2 DEF CheckBaseline
    <3>2. stage'[x] = "write" /\ held'[x] = w /\ asked'[x][1] = r /\ UNCHANGED <<row, ingested>>
      BY <1>2, <2>2, <3>1 DEF TypeOK, Inv, CheckBaseline, Starts, Goes, runVars
    <3> QED
      BY <3>1, <3>2 DEF Holds, Fits
  <2> QED
    BY <2>1, <2>2
<1>3. ASSUME NEW s \in Requests, SetBaseline(s)
      PROVE  Holds(x)'
  <2>1. CASE s # x
    <3>1. UNCHANGED <<stage[x], asked[x], held[x]>> /\ (x \in outdated => x \in outdated')
      BY <1>3, <2>1 DEF TypeOK, Inv, SetBaseline, Goes, requestVars
    <3> QED
      BY <3>1, HeldStays
  <2>2. CASE s = x
    BY <1>3, <2>2, <1>0 DEF TypeOK, Inv, SetBaseline, Goes
  <2> QED
    BY <2>1, <2>2
<1>4. ASSUME NEW q \in Requests, FindCandidate(q)
      PROVE  Holds(x)'
  <2>1. CASE q # x
    <3>1. UNCHANGED <<stage[x], asked[x], held[x]>> /\ (x \in outdated => x \in outdated')
      BY <1>4, <2>1 DEF TypeOK, Inv, FindCandidate, Starts, Goes
    <3> QED
      BY <3>1, HeldStays
  <2>2. CASE q = x
    <3>1. PICK r \in Runs : /\ row[r] # None
                            /\ asked' = [asked EXCEPT ![q] = <<None, r>>]
                            /\ held' = [held EXCEPT ![q] = WorkflowOf(row[r])]
      BY <1>4 DEF FindCandidate
    <3>2. WorkflowOf(row[r]) \in Workflows
      BY <3>1 DEF TypeOK, Inv
    <3>3. stage'[x] = "baseline" /\ held'[x] = WorkflowOf(row[r]) /\ asked'[x][2] = r
      BY <1>4, <2>2, <3>1 DEF TypeOK, Inv, FindCandidate, Starts, Goes
    <3> QED
      BY <3>1, <3>2, <3>3 DEF Holds
  <2> QED
    BY <2>1, <2>2
<1>5. ASSUME NEW q \in Requests, FindBaseline(q)
      PROVE  Holds(x)'
  <2>1. CASE q # x
    <3>1. UNCHANGED <<stage[x], asked[x], held[x]>> /\ (x \in outdated => x \in outdated')
      BY <1>5, <2>1 DEF TypeOK, Inv, FindBaseline, Goes
    <3> QED
      BY <3>1, HeldStays
  <2>2. CASE q = x
    <3>1. held[q] \in Workflows /\ asked[q][2] \in Runs
      BY <1>5 DEF Inv, HeldInv, Holds, FindBaseline, Goes
    <3>2. CASE baseline[held[q]] = None
      BY <1>5, <2>2, <3>2, <1>0 DEF TypeOK, Inv, FindBaseline, Goes
    <3>3. CASE baseline[held[q]] # None
      <4>1. baseline[held[q]] \in Runs
        BY <3>1, <3>3 DEF TypeOK, Inv
      <4>2. stage'[x] = "read" /\ asked'[x] = <<baseline[held[q]], asked[q][2]>>
        BY <1>5, <2>2, <3>3 DEF TypeOK, Inv, FindBaseline, Goes
      <4> QED
        BY <3>1, <4>1, <4>2 DEF Holds, Pairs
    <3> QED
      BY <3>2, <3>3
  <2> QED
    BY <2>1, <2>2
<1>6. ASSUME NEW q \in Requests, NEW pair \in Pairs, AskFor(q, pair)
      PROVE  Holds(x)'
  <2>1. CASE q # x
    <3>1. UNCHANGED <<stage[x], asked[x], held[x]>> /\ (x \in outdated => x \in outdated')
      BY <1>6, <2>1 DEF TypeOK, Inv, AskFor, Starts, Goes
    <3> QED
      BY <3>1, HeldStays
  <2>2. CASE q = x
    <3>1. stage'[x] = "read" /\ asked'[x] = pair
      BY <1>6, <2>2 DEF TypeOK, Inv, AskFor, Starts, Goes
    <3> QED
      BY <3>1 DEF Holds
  <2> QED
    BY <2>1, <2>2
<1>7. ASSUME NEW q \in Requests, ReadBaselineRun(q)
      PROVE  Holds(x)'
  <2>1. CASE q # x
    <3>1. UNCHANGED <<stage[x], asked[x], held[x]>> /\ (x \in outdated => x \in outdated')
      BY <1>7, <2>1 DEF TypeOK, Inv, ReadBaselineRun, Goes
    <3> QED
      BY <3>1, HeldStays
  <2>2. CASE q = x
    <3>1. asked[x] \in Pairs
      BY <1>7, <2>2 DEF Inv, HeldInv, Holds, ReadBaselineRun, Goes
    <3>2. /\ stage'[x] = "compare" /\ held'[x] = row[asked[x][1]]
          /\ UNCHANGED <<asked, row, ingested>>
      BY <1>7, <2>2 DEF TypeOK, Inv, ReadBaselineRun, Goes, runVars
    <3>3. held'[x] # None => held'[x] \in ingested /\ IdOf(held'[x]) = asked[x][1]
      BY <3>1, <3>2 DEF Inv, RowsInv, Pairs
    <3> QED
      BY <3>1, <3>2, <3>3 DEF Holds
  <2> QED
    BY <2>1, <2>2
<1>8. ASSUME NEW q \in Requests, ReadCandidateRun(q)
      PROVE  Holds(x)'
  <2>1. CASE q # x
    <3>1. UNCHANGED <<stage[x], asked[x], held[x]>> /\ (x \in outdated => x \in outdated')
      BY <1>8, <2>1 DEF TypeOK, Inv, ReadCandidateRun, Goes
    <3> QED
      BY <3>1, HeldStays
  <2>2. CASE q = x
    <3> DEFINE candidate == row[asked[x][2]]
    <3>1. asked[x] \in Pairs /\ stage[x] = "compare" /\ Holds(x)
      BY <1>8, <2>2 DEF Inv, HeldInv, Holds, ReadCandidateRun, Goes
    <3>2. CASE held[x] = None \/ candidate = None
      BY <1>8, <2>2, <3>2, <1>0 DEF TypeOK, Inv, ReadCandidateRun, Goes
    <3>3. CASE held[x] # None /\ candidate # None
      <4>1. /\ stage'[x] = "save" /\ held'[x] = <<held[x], candidate>>
            /\ UNCHANGED <<asked, row, ingested, outdated>>
        <5> held' = [held EXCEPT ![x] = <<held[x], candidate>>]
          BY <1>8, <2>2, <3>3 DEF ReadCandidateRun
        <5> QED
          BY <1>8, <2>2, <3>3 DEF TypeOK, Inv, ReadCandidateRun, Goes, runVars
      <4>2. candidate \in ingested /\ IdOf(candidate) = asked[x][2]
        BY <3>1, <3>3 DEF Inv, RowsInv, Pairs
      <4>3. held[x] \in ingested /\ IdOf(held[x]) = asked[x][1]
        BY <3>1, <3>3 DEF Holds
      <4>4. x \notin outdated => held[x] = row[asked[x][1]]
        BY <3>1 DEF Holds
      <4>5. asked[x] = <<asked[x][1], asked[x][2]>>
        BY <3>1 DEF Pairs
      <4> HIDE DEF candidate
      <4>6. held'[x] \in ingested \X ingested /\ Ids(held'[x]) = asked[x]
        BY <4>1, <4>2, <4>3, <4>5 DEF Ids
      <4>7. x \notin outdated => held'[x] = <<row[asked[x][1]], row[asked[x][2]]>>
        BY <4>1, <4>4 DEF candidate
      <4> QED
        BY <3>1, <4>1, <4>6, <4>7 DEF Holds
    <3> QED
      BY <3>2, <3>3
  <2> QED
    BY <2>1, <2>2
<1>9. ASSUME NEW q \in Requests, SaveReport(q)
      PROVE  Holds(x)'
  <2>1. asked[q] \in Pairs
    BY <1>9 DEF Inv, HeldInv, Holds, SaveReport, Goes
  <2>2. CASE q # x
    <3>1. asked[q] # x
      BY <2>1, EvidenceAssumption
    <3>2. UNCHANGED <<stage[x], asked[x], held[x]>> /\ (x \in outdated => x \in outdated')
      BY <1>9, <2>2, <3>1 DEF TypeOK, Inv, SaveReport, Goes
    <3> QED
      BY <3>2, HeldStays
  <2>3. CASE q = x
    <3>1. /\ stage[x] = "save" /\ stage'[x] = AfterSaving(x)
          /\ UNCHANGED <<asked, held, row, ingested>>
      BY <1>9, <2>3 DEF TypeOK, Inv, SaveReport, Goes, runVars
    <3>2. CASE AfterSaving(x) \in {"select", "over"}
      BY <3>1, <3>2, <1>0
    <3>3. CASE AfterSaving(x) = "propose" /\ held[x] \in StrongEnough
      BY <3>1, <3>3 DEF Inv, HeldInv, Holds
    <3> QED
      BY <3>2, <3>3 DEF AfterSaving
  <2> QED
    BY <2>2, <2>3
<1>10. ASSUME NEW q \in Requests, CreateProposal(q)
       PROVE  Holds(x)'
  <2>1. CASE q # x
    <3>1. UNCHANGED <<stage[x], asked[x], held[x]>> /\ (x \in outdated => x \in outdated')
      BY <1>10, <2>1 DEF TypeOK, Inv, CreateProposal, Goes, requestVars
    <3> QED
      BY <3>1, HeldStays
  <2>2. CASE q = x
    BY <1>10, <2>2, <1>0 DEF TypeOK, Inv, CreateProposal, Goes
  <2> QED
    BY <2>1, <2>2
<1>11. ASSUME NEW d \in Requests, DrillIngest(d)
       PROVE  Holds(x)'
  <2>1. CASE d # x
    <3>1. UNCHANGED <<stage[x], asked[x], held[x]>> /\ (x \in outdated => x \in outdated')
      BY <1>11, <2>1 DEF TypeOK, Inv, DrillIngest, Saves
    <3> QED
      BY <3>1, HeldStays
  <2>2. CASE d = x
    BY <1>11, <2>2, <1>0 DEF TypeOK, Inv, DrillIngest
  <2> QED
    BY <2>1, <2>2
<1>12. ASSUME NEW d \in Requests, DrillNext(d)
       PROVE  Holds(x)'
  <2>1. CASE d # x
    <3>1. UNCHANGED <<stage[x], asked[x], held[x]>> /\ (x \in outdated => x \in outdated')
      BY <1>12, <2>1 DEF TypeOK, Inv, DrillNext, Goes
    <3> QED
      BY <3>1, HeldStays
  <2>2. CASE d = x
    <3> DEFINE next == DrillRuns[Selected[done[d] + 1]]
    <3>1. done[d] + 1 \in 1 .. Len(Selected)
      BY <1>12, DrillConstants DEF TypeOK, Inv, DrillNext
    <3>2. DrillBaseline \in Payloads /\ next \in Payloads
      BY <3>1, DrillConstants, EvidenceAssumption
    <3>3. stage'[x] = "read" /\ asked'[x] = <<IdOf(DrillBaseline), IdOf(next)>>
      BY <1>12, <2>2 DEF TypeOK, Inv, DrillNext, Goes
    <3> HIDE DEF next
    <3> QED
      BY <3>2, <3>3 DEF Holds, Pairs
  <2> QED
    BY <2>1, <2>2
<1>13. ASSUME NEW d \in Requests, DrillReview(d)
       PROVE  Holds(x)'
  <2>1. CASE d # x
    <3>1. UNCHANGED <<stage[x], asked[x], held[x]>> /\ (x \in outdated => x \in outdated')
      BY <1>13, <2>1 DEF TypeOK, Inv, DrillReview, Goes
    <3> QED
      BY <3>1, HeldStays
  <2>2. CASE d = x
    BY <1>13, <2>2, <1>0 DEF TypeOK, Inv, DrillReview, Goes
  <2> QED
    BY <2>1, <2>2
<1>14. CASE UNCHANGED vars
  BY <1>14, HeldStays DEF vars
<1> QED
  BY <1>1, <1>2, <1>3, <1>4, <1>5, <1>6, <1>7, <1>8, <1>9, <1>10, <1>11, <1>12,
     <1>13, <1>14 DEF Next

\* A report goes on matching its runs while no other is saved for the pair: a
\* payload that replaces one of them leaves it outdated.
LEMMA ReportStays ==
  ASSUME Inv, [Next]_vars, NEW pair \in Pairs, pair \notin outdated',
         pair \in outdated => pair \in outdated',
         report'[pair[1]][pair[2]] = report[pair[1]][pair[2]], report[pair[1]][pair[2]] # None
  PROVE  report'[pair[1]][pair[2]] = <<row'[pair[1]], row'[pair[2]]>>
<1>1. report[pair[1]][pair[2]] = <<row[pair[1]], row[pair[2]]>>
  BY DEF Inv, ReportsInv
<1>2. pair[1] \in Runs /\ pair[2] \in Runs
  BY DEF Pairs
<1>3. ASSUME NEW p \in Payloads, Saves(p), row[IdOf(p)] # p
      PROVE  row'[pair[1]] = row[pair[1]] /\ row'[pair[2]] = row[pair[2]]
  <2>1. pair \notin Replaced(IdOf(p))
    BY <1>3, SavingARow DEF Inv
  <2>2. IdOf(p) # pair[1] /\ IdOf(p) # pair[2]
    BY <2>1 DEF Replaced
  <2> QED
    BY <1>2, <1>3, <2>2, SavingARow DEF Inv
<1>4. ASSUME NEW p \in Payloads, Saves(p), row[IdOf(p)] = p
      PROVE  row'[pair[1]] = row[pair[1]] /\ row'[pair[2]] = row[pair[2]]
  BY <1>4, SavingARow DEF Inv
<1>5. row'[pair[1]] = row[pair[1]] /\ row'[pair[2]] = row[pair[2]]
  BY <1>3, <1>4, RowsChangeBySaving
<1> QED
  BY <1>1, <1>5

\* A report that was saved from the rows as they are matches them.
LEMMA ReportsStep == Inv /\ [Next]_vars => ReportsInv'
<1> SUFFICES ASSUME Inv, [Next]_vars, NEW pair \in Pairs, pair \notin outdated',
                    report'[pair[1]][pair[2]] # None
             PROVE  report'[pair[1]][pair[2]] = <<row'[pair[1]], row'[pair[2]]>>
  BY DEF ReportsInv
<1>0. ASSUME UNCHANGED report, pair \in outdated => pair \in outdated'
      PROVE  report'[pair[1]][pair[2]] = <<row'[pair[1]], row'[pair[2]]>>
  BY <1>0, ReportStays
<1>1. ASSUME NEW p \in Payloads, Ingest(p)
      PROVE  report'[pair[1]][pair[2]] = <<row'[pair[1]], row'[pair[2]]>>
  BY <1>0, <1>1 DEF Ingest, Saves
<1>2. ASSUME NEW s \in Requests, NEW w \in Workflows, CheckBaseline(s, w)
      PROVE  report'[pair[1]][pair[2]] = <<row'[pair[1]], row'[pair[2]]>>
  BY <1>0, <1>2 DEF CheckBaseline
<1>3. ASSUME NEW s \in Requests, SetBaseline(s)
      PROVE  report'[pair[1]][pair[2]] = <<row'[pair[1]], row'[pair[2]]>>
  BY <1>0, <1>3 DEF SetBaseline
<1>4. ASSUME NEW q \in Requests, FindCandidate(q)
      PROVE  report'[pair[1]][pair[2]] = <<row'[pair[1]], row'[pair[2]]>>
  BY <1>0, <1>4 DEF FindCandidate
<1>5. ASSUME NEW q \in Requests, FindBaseline(q)
      PROVE  report'[pair[1]][pair[2]] = <<row'[pair[1]], row'[pair[2]]>>
  BY <1>0, <1>5 DEF FindBaseline
<1>6. ASSUME NEW q \in Requests, NEW asks \in Pairs, AskFor(q, asks)
      PROVE  report'[pair[1]][pair[2]] = <<row'[pair[1]], row'[pair[2]]>>
  BY <1>0, <1>6 DEF AskFor
<1>7. ASSUME NEW q \in Requests, ReadBaselineRun(q)
      PROVE  report'[pair[1]][pair[2]] = <<row'[pair[1]], row'[pair[2]]>>
  BY <1>0, <1>7, EvidenceAssumption DEF ReadBaselineRun
<1>8. ASSUME NEW q \in Requests, ReadCandidateRun(q)
      PROVE  report'[pair[1]][pair[2]] = <<row'[pair[1]], row'[pair[2]]>>
  BY <1>0, <1>8 DEF ReadCandidateRun
<1>9. ASSUME NEW q \in Requests, SaveReport(q)
      PROVE  report'[pair[1]][pair[2]] = <<row'[pair[1]], row'[pair[2]]>>
  <2>1. Holds(q) /\ stage[q] = "save"
    BY <1>9 DEF Inv, HeldInv, SaveReport, Goes
  <2>2. asked[q] \in Pairs
    BY <2>1 DEF Holds
  <2>3. CASE asked[q] = pair
    <3>1. q \notin outdated
      BY <1>9, <2>3 DEF SaveReport
    <3>2. held[q] = <<row[pair[1]], row[pair[2]]>>
      BY <2>1, <2>3, <3>1 DEF Holds
    <3>3. report'[pair[1]][pair[2]] = held[q] /\ UNCHANGED row
      BY <1>9, <2>2, <2>3 DEF Inv, TypeOK, SaveReport, Pairs, runVars
    <3> QED
      BY <3>2, <3>3
  <2>4. CASE asked[q] # pair
    <3>1. pair # q
      BY EvidenceAssumption
    <3>2. pair \in outdated => pair \in outdated'
      BY <1>9, <2>4, <3>1 DEF SaveReport
    <3>3. asked[q][1] # pair[1] \/ asked[q][2] # pair[2]
      BY <2>2, <2>4 DEF Pairs
    <3>4. report'[pair[1]][pair[2]] = report[pair[1]][pair[2]]
      BY <1>9, <2>2, <3>3 DEF Inv, TypeOK, SaveReport, Pairs
    <3> QED
      BY <3>2, <3>4, ReportStays
  <2> QED
    BY <2>3, <2>4
<1>10. ASSUME NEW q \in Requests, CreateProposal(q)
       PROVE  report'[pair[1]][pair[2]] = <<row'[pair[1]], row'[pair[2]]>>
  BY <1>0, <1>10 DEF CreateProposal
<1>11. ASSUME NEW d \in Requests, DrillIngest(d)
       PROVE  report'[pair[1]][pair[2]] = <<row'[pair[1]], row'[pair[2]]>>
  BY <1>0, <1>11 DEF DrillIngest, Saves
<1>12. ASSUME NEW d \in Requests, DrillNext(d)
       PROVE  report'[pair[1]][pair[2]] = <<row'[pair[1]], row'[pair[2]]>>
  BY <1>0, <1>12 DEF DrillNext
<1>13. ASSUME NEW d \in Requests, DrillReview(d)
       PROVE  report'[pair[1]][pair[2]] = <<row'[pair[1]], row'[pair[2]]>>
  BY <1>0, <1>13 DEF DrillReview
<1>14. CASE UNCHANGED vars
  BY <1>0, <1>14 DEF vars
<1> QED
  BY <1>1, <1>2, <1>3, <1>4, <1>5, <1>6, <1>7, <1>8, <1>9, <1>10, <1>11, <1>12,
     <1>13, <1>14 DEF Next

\* A baseline was found to fit when it was checked, and goes on fitting.
LEMMA BaselinesStep == Inv /\ [Next]_vars => BaselinesInv'
<1> SUFFICES ASSUME Inv, [Next]_vars, NEW w \in Workflows, (baseline[w] # None)'
             PROVE  Fits(baseline[w], w)'
  BY DEF BaselinesInv
<1>1. ASSUME NEW s \in Requests, SetBaseline(s)
      PROVE  Fits(baseline[w], w)'
  <2>1. Holds(s) /\ stage[s] = "write"
    BY <1>1 DEF Inv, HeldInv, SetBaseline, Goes
  <2>2. CASE held[s] = w
    <3>1. Fits(asked[s][1], w)
      BY <2>1, <2>2 DEF Holds
    <3>2. baseline'[w] = asked[s][1]
      BY <1>1, <2>2 DEF Inv, TypeOK, SetBaseline
    <3> QED
      BY <3>1, <3>2, <1>1 DEF Fits, SetBaseline, runVars
  <2>3. CASE held[s] # w
    <3>1. baseline'[w] = baseline[w]
      BY <1>1, <2>3 DEF Inv, TypeOK, SetBaseline
    <3> QED
      BY <3>1, <1>1 DEF Inv, BaselinesInv, Fits, SetBaseline, runVars
  <2> QED
    BY <2>2, <2>3
<1>2. CASE UNCHANGED baseline
  <2>1. Fits(baseline[w], w)
    BY <1>2 DEF Inv, BaselinesInv
  <2> QED
    BY <1>2, <2>1, FitsStays DEF Fits
<1>3. (\E s \in Requests : SetBaseline(s)) \/ UNCHANGED baseline
  BY DEF Next, vars, Ingest, CheckBaseline, FindCandidate, FindBaseline, AskFor, ReadBaselineRun,
         ReadCandidateRun, SaveReport, CreateProposal, DrillIngest, DrillNext, DrillReview
<1> QED
  BY <1>1, <1>2, <1>3

\* A candidate advances by a comparison that lets it.
LEMMA AdvancedStays ==
  ASSUME Inv, [Next]_vars, NEW ids, NEW pairs, Advanced(ids, pairs)
  PROVE  \E pair \in pairs : pair \in ingested' \X ingested' /\ ids = Ids(pair)
BY RowsStep DEF Advanced

LEMMA ProposalsStep == Inv /\ [Next]_vars => (\A ids \in proposals : Advanced(ids, StrongEnough))'
<1> SUFFICES ASSUME Inv, [Next]_vars
             PROVE  \A ids \in proposals' :
                      \E pair \in StrongEnough : pair \in ingested' \X ingested' /\ ids = Ids(pair)
  BY DEF Advanced
<1>1. ASSUME NEW ids \in proposals
      PROVE  \E pair \in StrongEnough : pair \in ingested' \X ingested' /\ ids = Ids(pair)
  BY AdvancedStays DEF Inv, AdvanceInv
<1>2. ASSUME NEW q \in Requests, CreateProposal(q)
      PROVE  \E pair \in StrongEnough : pair \in ingested' \X ingested' /\ asked[q] = Ids(pair)
  <2>1. Holds(q) /\ stage[q] = "propose"
    BY <1>2 DEF Inv, HeldInv, CreateProposal, Goes
  <2>2. held[q] \in StrongEnough /\ held[q] \in ingested \X ingested /\ asked[q] = Ids(held[q])
    BY <2>1 DEF Holds
  <2> QED
    BY <1>2, <2>2 DEF CreateProposal, runVars
<1>3. (\E q \in Requests : CreateProposal(q)) \/ UNCHANGED proposals
  BY DEF Next, vars, Ingest, CheckBaseline, SetBaseline, FindCandidate, FindBaseline, AskFor,
         ReadBaselineRun, ReadCandidateRun, SaveReport, DrillIngest, DrillNext, DrillReview
<1> QED
  BY <1>1, <1>2, <1>3 DEF CreateProposal

LEMMA DrillsEndStep ==
  Inv /\ [Next]_vars =>
    (\A d \in Drills : (stage[d] = "over" /\ held[d] = "enter_paper") => Advanced(asked[d], EnteringPaper))'
<1> SUFFICES ASSUME Inv, [Next]_vars, NEW e \in Drills, stage'[e] = "over", held'[e] = "enter_paper"
             PROVE  \E pair \in EnteringPaper : pair \in ingested' \X ingested' /\ asked'[e] = Ids(pair)
  BY DEF Advanced
<1> USE RequestKinds, PayloadParts
<1>0. ASSUME UNCHANGED <<stage[e], held[e], asked[e]>>
      PROVE  \E pair \in EnteringPaper : pair \in ingested' \X ingested' /\ asked'[e] = Ids(pair)
  <2>1. Advanced(asked[e], EnteringPaper)
    BY <1>0 DEF Inv, AdvanceInv
  <2> QED
    BY <1>0, <2>1, AdvancedStays
<1>1. ASSUME NEW p \in Payloads, Ingest(p)
      PROVE  \E pair \in EnteringPaper : pair \in ingested' \X ingested' /\ asked'[e] = Ids(pair)
  <2>1. UNCHANGED <<stage[e], held[e], asked[e]>>
    BY <1>1 DEF TypeOK, Inv, StagesInv, KindStages, Ingest, requestVars
  <2> QED
    BY <1>0, <2>1
<1>2. ASSUME NEW s \in Requests, NEW w \in Workflows, CheckBaseline(s, w)
      PROVE  \E pair \in EnteringPaper : pair \in ingested' \X ingested' /\ asked'[e] = Ids(pair)
  <2>1. UNCHANGED <<stage[e], held[e], asked[e]>>
    BY <1>2 DEF TypeOK, Inv, StagesInv, KindStages, CheckBaseline, Starts, Goes, runVars
  <2> QED
    BY <1>0, <2>1
<1>3. ASSUME NEW s \in Requests, SetBaseline(s)
      PROVE  \E pair \in EnteringPaper : pair \in ingested' \X ingested' /\ asked'[e] = Ids(pair)
  <2>1. UNCHANGED <<stage[e], held[e], asked[e]>>
    BY <1>3 DEF TypeOK, Inv, StagesInv, KindStages, SetBaseline, Goes, requestVars, runVars
  <2> QED
    BY <1>0, <2>1
<1>4. ASSUME NEW q \in Requests, FindCandidate(q)
      PROVE  \E pair \in EnteringPaper : pair \in ingested' \X ingested' /\ asked'[e] = Ids(pair)
  <2>1. UNCHANGED <<stage[e], held[e], asked[e]>>
    BY <1>4 DEF TypeOK, Inv, StagesInv, KindStages, FindCandidate, Starts, Goes
  <2> QED
    BY <1>0, <2>1
<1>5. ASSUME NEW q \in Requests, FindBaseline(q)
      PROVE  \E pair \in EnteringPaper : pair \in ingested' \X ingested' /\ asked'[e] = Ids(pair)
  <2>1. UNCHANGED <<stage[e], held[e], asked[e]>>
    BY <1>5 DEF TypeOK, Inv, StagesInv, KindStages, FindBaseline, Goes
  <2> QED
    BY <1>0, <2>1
<1>6. ASSUME NEW q \in Requests, NEW asking \in Pairs, AskFor(q, asking)
      PROVE  \E pair \in EnteringPaper : pair \in ingested' \X ingested' /\ asked'[e] = Ids(pair)
  <2>1. UNCHANGED <<stage[e], held[e], asked[e]>>
    BY <1>6 DEF TypeOK, Inv, StagesInv, KindStages, AskFor, Starts, Goes
  <2> QED
    BY <1>0, <2>1
<1>7. ASSUME NEW q \in Requests, ReadBaselineRun(q)
      PROVE  \E pair \in EnteringPaper : pair \in ingested' \X ingested' /\ asked'[e] = Ids(pair)
  <2>1. UNCHANGED <<stage[e], held[e], asked[e]>>
    BY <1>7 DEF TypeOK, Inv, StagesInv, KindStages, ReadBaselineRun, Goes
  <2> QED
    BY <1>0, <2>1
<1>8. ASSUME NEW q \in Requests, ReadCandidateRun(q)
      PROVE  \E pair \in EnteringPaper : pair \in ingested' \X ingested' /\ asked'[e] = Ids(pair)
  <2>1. CASE q # e
    <3>1. UNCHANGED <<stage[e], held[e], asked[e]>>
      BY <1>8, <2>1 DEF TypeOK, Inv, ReadCandidateRun, Goes
    <3> QED
      BY <1>0, <3>1
  <2>2. CASE q = e
    <3>1. held'[e] = None
      BY <1>8, <2>2 DEF TypeOK, Inv, ReadCandidateRun, Goes
    <3> QED
      BY <3>1
  <2> QED
    BY <2>1, <2>2
<1>9. ASSUME NEW q \in Requests, SaveReport(q)
      PROVE  \E pair \in EnteringPaper : pair \in ingested' \X ingested' /\ asked'[e] = Ids(pair)
  <2>1. UNCHANGED <<stage[e], held[e], asked[e]>>
    BY <1>9 DEF TypeOK, Inv, StagesInv, KindStages, SaveReport, Goes, AfterSaving
  <2> QED
    BY <1>0, <2>1
<1>10. ASSUME NEW q \in Requests, CreateProposal(q)
       PROVE  \E pair \in EnteringPaper : pair \in ingested' \X ingested' /\ asked'[e] = Ids(pair)
  <2>1. UNCHANGED <<stage[e], held[e], asked[e]>>
    BY <1>10 DEF TypeOK, Inv, StagesInv, KindStages, CreateProposal, Goes, requestVars
  <2> QED
    BY <1>0, <2>1
<1>11. ASSUME NEW d \in Requests, DrillIngest(d)
       PROVE  \E pair \in EnteringPaper : pair \in ingested' \X ingested' /\ asked'[e] = Ids(pair)
  <2>1. UNCHANGED <<stage[e], held[e], asked[e]>>
    BY <1>11 DEF TypeOK, Inv, StagesInv, KindStages, DrillIngest
  <2> QED
    BY <1>0, <2>1
<1>12. ASSUME NEW d \in Requests, DrillNext(d)
       PROVE  \E pair \in EnteringPaper : pair \in ingested' \X ingested' /\ asked'[e] = Ids(pair)
  <2>1. UNCHANGED <<stage[e], held[e], asked[e]>>
    BY <1>12 DEF TypeOK, Inv, StagesInv, KindStages, DrillNext, Goes
  <2> QED
    BY <1>0, <2>1
<1>13. ASSUME NEW d \in Requests, DrillReview(d)
       PROVE  \E pair \in EnteringPaper : pair \in ingested' \X ingested' /\ asked'[e] = Ids(pair)
  <2>1. CASE d # e
    <3>1. UNCHANGED <<stage[e], held[e], asked[e]>>
      BY <1>13, <2>1 DEF TypeOK, Inv, DrillReview, Goes
    <3> QED
      BY <1>0, <3>1
  <2>2. CASE d = e
    <3> DEFINE best == Best(results[e])
    <3>1. best \in ingested \X ingested
      BY <1>13, <2>2, DrillReviewsAComparison DEF Inv, DrillReview, Goes
    <3> HIDE DEF best
    <3>2. /\ held'[e] = PaperTradeRecommendation(best) /\ asked'[e] = Ids(best)
          /\ UNCHANGED ingested
      BY <1>13, <2>2 DEF TypeOK, Inv, DrillReview, Ids, runVars, best
    <3>3. best \in EnteringPaper
      BY <3>2 DEF PaperTradeRecommendation
    <3> QED
      BY <3>1, <3>2, <3>3
  <2> QED
    BY <2>1, <2>2
<1>14. CASE UNCHANGED vars
  BY <1>0, <1>14 DEF vars
<1> QED
  BY <1>1, <1>2, <1>3, <1>4, <1>5, <1>6, <1>7, <1>8, <1>9, <1>10, <1>11, <1>12,
     <1>13, <1>14 DEF Next

LEMMA AdvanceStep == Inv /\ [Next]_vars => AdvanceInv'
BY ProposalsStep, DrillsEndStep DEF AdvanceInv

-----------------------------------------------------------------------------
(* Theorems *)

LEMMA InvInit == Init => Inv
<1> SUFFICES ASSUME Init
             PROVE  Inv
  OBVIOUS
<1> USE PayloadParts, RequestKinds, ReportsHaveTypes
<1>1. \A d \in Drills : done[d] = 0 /\ stage[d] = "idle" /\ results[d] = <<>>
  BY DEF Init
<1>2. TypeOK
  <2>1. report \in [Runs -> [Runs -> (Payloads \X Payloads) \cup {None}]]
    BY DEF Init
  <2>2. results \in [Drills -> Seq(Payloads \X Payloads)]
    BY DEF Init
  <2>3. done \in [Drills -> 0 .. Len(DrillRuns) + 1]
    BY DrillConstants DEF Init
  <2>4. asked \in [Requests -> (Runs \cup {None}) \X (Runs \cup {None})]
    BY DEF Init
  <2> QED
    BY <2>1, <2>2, <2>3, <2>4 DEF Init, TypeOK
<1>3. RowsInv
  BY DEF Init, RowsInv
<1>4. StagesInv
  <2>1. KindStages
    BY DEF Init, KindStages
  <2>2. \A d \in Drills : DrillStages(d)
    <3>1. <<>> \in Seq(ingested \X ingested) /\ Len(<<>>) = 0
      OBVIOUS
    <3>2. 0 <= Len(DrillRuns)
      BY DrillConstants
    <3> QED
      BY <1>1, <3>1, <3>2 DEF DrillStages
  <2> QED
    BY <2>1, <2>2 DEF StagesInv
<1>5. HeldInv
  BY DEF Init, HeldInv, Holds
<1>6. ReportsInv /\ BaselinesInv
  BY DEF Init, ReportsInv, BaselinesInv, Pairs
<1>7. AdvanceInv
  BY DEF Init, AdvanceInv
<1> QED
  BY <1>2, <1>3, <1>4, <1>5, <1>6, <1>7 DEF Inv

LEMMA InvStep == Inv /\ [Next]_vars => Inv'
<1>1. Inv /\ UNCHANGED vars => TypeOK'
  BY ReportsHaveTypes DEF Inv, TypeOK, vars
<1> QED
  BY <1>1, TypeStep, RowsStep, KindsStep, DrillsStep, HeldStep, ReportsStep, BaselinesStep,
     AdvanceStep DEF Inv, StagesInv

\* The inductive invariant: rows are what was last ingested, requests and drills
\* come as far as their kind does and hold what the rows they have read say, and
\* reports, baselines, proposals and reviews rest on what was held.
THEOREM EvidenceInvariant == Spec => []Inv
<1> QED
  BY InvInit, InvStep, PTL DEF Spec

\* What the services and the store keep has the types they declare.
THEOREM EvidenceTypes == Spec => []TypeOK
<1>1. Inv => TypeOK
  BY DEF Inv
<1> QED
  BY <1>1, EvidenceInvariant, PTL

\* A candidate is proposed, and sent to paper trading, only by a comparison of two
\* ingested runs that meets a reader's own account of good evidence, whatever the
\* payloads are and however requests interleave.
THEOREM OnlyBackedAdvance == Spec => []OnlyBackedCandidatesAdvance
<1>1. ASSUME NEW ids, NEW pairs, NEW good, pairs \subseteq good, Advanced(ids, pairs)
      PROVE  \E pair \in good : {pair[1], pair[2]} \subseteq ingested
                                  /\ ids = <<IdOf(pair[1]), IdOf(pair[2])>>
  BY <1>1 DEF Advanced, Ids
<1>2. Inv => OnlyBackedCandidatesAdvance
  BY <1>1, StrongIsApprovable, EnteringIsTradable DEF Inv, AdvanceInv, OnlyBackedCandidatesAdvance
<1> QED
  BY <1>2, EvidenceInvariant, PTL

\* A report whose runs were not replaced since it read them is the comparison of
\* the rows as they are, and a baseline is a stored run that fits its workflow.
THEOREM ReportsMatch == Spec => []ReportsAndBaselinesMatchRuns
<1>1. Inv => ReportsAndBaselinesMatchRuns
  BY DEF Inv, ReportsInv, BaselinesInv, Fits, ReportsAndBaselinesMatchRuns
<1> QED
  BY <1>1, EvidenceInvariant, PTL
=============================================================================
