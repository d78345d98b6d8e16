----------------------------- MODULE SharedServices -----------------------------
(***************************************************************************)
(* Services of the harness that share no state, side by side: a behaviour  *)
(* is one of the service it begins with, and the variables of the others   *)
(* stay unused.  What each promises is a property of its own module.       *)
(***************************************************************************)
EXTENDS Integers, Sequences, FiniteSets

CONSTANTS
  Processes, \* commands, threads or coroutines of every service
  Clerks,    \* commands that archive a scenario
  Ticks,     \* of the learning loop
  None,
  Rows, Items, Given, RiskThresholds, MaxBaselines,                  \* ExperimentFeedback
  Outcomes, Bounds, Histories, Edits, MaxShadows, MaxOpen,           \* VersionRecommendations
  Prompts, MaxSize, Ttl, CallRetries, Timed, MaxTime, MaxAsks,       \* ResponseCache
  CostKeys, Scopes, Amounts, Budgets, MaxDay, MaxCalls, MaxOrders,       \* CostTracker
  Results, MetricThresholds, DecisionKinds, Blocked, Cooldown,               \* LearningLoop
  RemainingBudget, MaxObserved, MaxDecisions, MaxConfig,
  UrlLists, Channels, PostRetries, MaxEvents, MaxUrls,               \* EventDeliveries
  MaxLines, MaxSaves,                                                \* BusinessLines
  Tools, Plain, MaxDepth                                             \* DryRunMode

VARIABLES
  part, stage, held,
  adding, quality, feedback, experiment, baselines, threshold, applied, behind, torn,
  schemas, shadows, items, answered, original,
  entries, hits, misses, now, asks, mutated, lookups, answers,
  total, daily, budget, warned, asked, today, reset, calls, orders, spent, unsettled, changed,
  scenario, adapter, raw, summaries, creates,
  decisions, observations, proposals, findings, validations, killed,
  work, events, senders, deliveries, channels, notified, audience, arrived,
  line, rows, cache, clock, given, behindRows,
  configured, mode, provider, tools, allowed, contexts, call, order, crossed, base

feedbackOnly == <<adding, quality, feedback, experiment, baselines, threshold, applied, behind>>
recommendationVars == <<schemas, shadows, items, answered, original>>
cacheVars == <<entries, hits, misses, now, asks, mutated, lookups, answers>>
costVars == <<total, daily, budget, warned, asked, today, reset, calls, orders, spent, unsettled,
              changed>>
learningOnly == <<scenario, adapter, raw, summaries, creates,
                  decisions, observations, proposals, findings, validations, killed>>
eventVars == <<work, events, senders, deliveries, channels, notified, audience,
               arrived>>
lineVars == <<line, rows, cache, clock, given, behindRows>>
dryRunVars == <<configured, mode, provider, tools, allowed, contexts, call, order, crossed, base>>

-----------------------------------------------------------------------------
Feedback == INSTANCE ExperimentFeedback WITH
  Requests <- Processes, Thresholds <- RiskThresholds
Recommending == INSTANCE VersionRecommendations WITH
  Commands <- Processes, MaxItems <- MaxOpen
Caching == INSTANCE ResponseCache WITH
  Threads <- Processes, MaxRetries <- CallRetries
Costing == INSTANCE CostTracker WITH
  Threads <- Processes, Keys <- CostKeys
Learning == INSTANCE LearningLoop WITH
  Runs <- Processes, Thresholds <- MetricThresholds, Budget <- RemainingBudget,
  MaxItems <- MaxObserved, Kinds <- DecisionKinds
Delivering == INSTANCE EventDeliveries WITH
  Threads <- Processes, MaxRetries <- PostRetries
Lining == INSTANCE BusinessLines WITH
  behind <- behindRows
Drying == INSTANCE DryRunMode WITH
  Coroutines <- Processes

\* None is none of the values it stands in for, and bounds are numbers.
ASSUME ServicesAssumption ==
  /\ IsFiniteSet(Processes)
  /\ MaxSize \in Nat /\ Ttl \in Nat /\ CallRetries \in Nat /\ MaxTime \in Nat /\ MaxAsks \in Nat
  /\ MaxLines \in Nat /\ MaxSaves \in Nat /\ MaxDepth \in Nat
  /\ PostRetries \in Nat /\ MaxDay \in Nat \ {0}
  /\ Amounts \subseteq Nat /\ Budgets \subseteq Int /\ Scopes \subseteq SUBSET CostKeys
  /\ \A urls \in UrlLists : Len(urls) \in Nat /\ DOMAIN urls = 1 .. Len(urls)
  /\ None \notin [status : Lining!Statuses, active : Nat]

\* Feedback is numbered, and metrics are numbers, a finite number of them.
ASSUME FeedbackAssumption ==
  /\ Len(Items) \in Nat /\ DOMAIN Items = 1 .. Len(Items)
  /\ \A i \in DOMAIN Items : Items[i].kind = "number" => Items[i].value \in Int
  /\ \A m \in {Given} \cup {Rows[e].after : e \in DOMAIN Rows} :
       m \in [DOMAIN m -> Int] /\ IsFiniteSet(DOMAIN m)
  /\ None \notin {"experiment", "baseline"}

\* So are the metrics of shadow runs and what the optimizer is given; weights of schemas
\* are not negative.
ASSUME RecommendationAssumption ==
  /\ \A o \in Outcomes \ {None} :
       /\ o.kind \in Recommending!Kinds /\ o.samples \in Nat
       /\ \A m \in {o.metrics} \cup ({o.baseline} \ {None}) :
            m \in [DOMAIN m -> Int] /\ IsFiniteSet(DOMAIN m)
  /\ \A e \in Edits : e.schema.weight \in Nat /\ e.schema.threshold \in Int \cup {None}
  /\ Bounds.minimum \in Int /\ Bounds.maximum \in Int /\ Bounds.step \in Int
  /\ \A values \in Histories :
       /\ Len(values) \in Nat /\ DOMAIN values = 1 .. Len(values)
       /\ \A k \in DOMAIN values : values[k] \in Int

\* The parts of a risk are fractions: the models of an action and its score refuse others.
Fractions == 0 .. 1000
ASSUME RiskAssumption ==
  \A e \in DOMAIN Rows :
    /\ Rows[e].risk.magnitude \in Fractions /\ Rows[e].risk.reversibility \in Fractions
    /\ Rows[e].risk.confidence \in Fractions
    /\ Rows[e].risk.blast \in Fractions \cup {None}

\* Runs, clerks and ticks are different actors, thresholds are numbered, the bounds of the
\* loop are numbers, and no answer is taken for an adapter that has not answered in time.
ASSUME LearningAssumption ==
  /\ Processes \cap Clerks = {} /\ Processes \cap Ticks = {} /\ Clerks \cap Ticks = {}
  /\ Len(MetricThresholds) \in Nat /\ DOMAIN MetricThresholds = 1 .. Len(MetricThresholds)
  /\ MaxObserved \in Nat /\ MaxConfig \in Nat \ {0}
  /\ \A answer \in Results : answer.status \notin {"working", "abandoned", "late"}
  /\ None # Learning!Working

-----------------------------------------------------------------------------
NoFeedback ==
  /\ adding = None /\ quality = None /\ feedback = None /\ experiment = None /\ baselines = None
  /\ threshold = None /\ applied = None /\ behind = None
NoRecommendations ==
  schemas = None /\ shadows = None /\ items = None /\ answered = None /\ original = None
NoCache ==
  /\ entries = None /\ hits = None /\ misses = None /\ now = None /\ asks = None
  /\ mutated = None /\ lookups = None /\ answers = None
NoCosts ==
  /\ total = None /\ daily = None /\ budget = None /\ warned = None /\ asked = None
  /\ today = None /\ reset = None /\ calls = None /\ orders = None /\ spent = None
  /\ unsettled = None /\ changed = None
NoLearning ==
  /\ scenario = None /\ adapter = None /\ raw = None /\ summaries = None /\ creates = None
  /\ decisions = None /\ observations = None /\ proposals = None /\ findings = None
  /\ validations = None /\ killed = None

NoEvents ==
  /\ work = None /\ events = None /\ senders = None
  /\ deliveries = None /\ channels = None /\ notified = None /\ audience = None
  /\ arrived = None
NoLines ==
  /\ line = None /\ rows = None /\ cache = None /\ clock = None /\ given = None
  /\ behindRows = None
NoDryRuns ==
  /\ configured = None /\ mode = None /\ provider = None /\ tools = None /\ allowed = None
  /\ contexts = None /\ call = None /\ order = None /\ crossed = None /\ base = None

Init ==
  \/ /\ part = "feedback" /\ Feedback!Init
     /\ NoRecommendations /\ NoCache /\ NoCosts /\ NoLearning /\ NoEvents /\ NoLines
     /\ NoDryRuns
  \/ /\ part = "recommending" /\ Recommending!Init
     /\ torn = None /\ NoFeedback /\ NoCache /\ NoCosts /\ NoLearning /\ NoEvents /\ NoLines
     /\ NoDryRuns
  \/ /\ part = "caching" /\ Caching!Init
     /\ torn = None /\ NoFeedback /\ NoRecommendations /\ NoCosts /\ NoLearning /\ NoEvents
     /\ NoLines /\ NoDryRuns
  \/ /\ part = "costing" /\ Costing!Init
     /\ torn = None /\ NoFeedback /\ NoRecommendations /\ NoCache /\ NoLearning /\ NoEvents
     /\ NoLines /\ NoDryRuns
  \/ /\ part = "learning" /\ Learning!Init
     /\ NoFeedback /\ NoRecommendations /\ NoCache /\ NoCosts /\ NoEvents /\ NoLines
     /\ NoDryRuns
  \/ /\ part = "delivering" /\ Delivering!Init
     /\ held = None /\ torn = None /\ NoFeedback /\ NoRecommendations /\ NoCache /\ NoCosts
     /\ NoLearning /\ NoLines /\ NoDryRuns
  \/ /\ part = "lining" /\ Lining!Init
     /\ held = None /\ torn = None /\ NoFeedback /\ NoRecommendations /\ NoCache /\ NoCosts
     /\ NoLearning /\ NoEvents /\ NoDryRuns
  \/ /\ part = "drying" /\ Drying!Init
     /\ stage = None /\ held = None /\ torn = None /\ NoFeedback /\ NoRecommendations
     /\ NoCache /\ NoCosts /\ NoLearning /\ NoEvents /\ NoLines

Next ==
  /\ part' = part
  /\ \/ /\ part = "feedback" /\ Feedback!Next
        /\ UNCHANGED <<recommendationVars, cacheVars, costVars, learningOnly, eventVars,
                       lineVars, dryRunVars>>
     \/ /\ part = "recommending" /\ Recommending!Next
        /\ UNCHANGED <<torn, feedbackOnly, cacheVars, costVars, learningOnly, eventVars,
                       lineVars, dryRunVars>>
     \/ /\ part = "caching" /\ Caching!Next
        /\ UNCHANGED <<torn, feedbackOnly, recommendationVars, costVars, learningOnly,
                       eventVars, lineVars, dryRunVars>>
     \/ /\ part = "costing" /\ Costing!Next
        /\ UNCHANGED <<torn, feedbackOnly, recommendationVars, cacheVars, learningOnly,
                       eventVars, lineVars, dryRunVars>>
     \/ /\ part = "learning" /\ Learning!Next
        /\ UNCHANGED <<feedbackOnly, recommendationVars, cacheVars, costVars, eventVars,
                       lineVars, dryRunVars>>
     \/ /\ part = "delivering" /\ Delivering!Next
        /\ UNCHANGED <<held, torn, feedbackOnly, recommendationVars, cacheVars, costVars,
                       learningOnly, lineVars, dryRunVars>>
     \/ /\ part = "lining" /\ Lining!Next
        /\ UNCHANGED <<held, torn, feedbackOnly, recommendationVars, cacheVars, costVars,
                       learningOnly, eventVars, dryRunVars>>
     \/ /\ part = "drying" /\ Drying!Next
        /\ UNCHANGED <<stage, held, torn, feedbackOnly, recommendationVars, cacheVars,
                       costVars, learningOnly, eventVars, lineVars>>

vars ==
  <<part, stage, held, torn, feedbackOnly, recommendationVars, cacheVars, costVars,
    learningOnly, eventVars, lineVars, dryRunVars>>

Spec == Init /\ [][Next]_vars

-----------------------------------------------------------------------------
\* Each service has the types of its module.
TypeOK ==
  /\ part = "feedback" => Feedback!TypeOK
  /\ part = "recommending" => Recommending!TypeOK
  /\ part = "caching" => Caching!TypeOK
  /\ part = "costing" => Costing!TypeOK
  /\ part = "learning" => Learning!TypeOK
  /\ part = "delivering" => Delivering!TypeOK
  /\ part = "lining" => Lining!TypeOK
  /\ part = "drying" => Drying!TypeOK

\* Of ExperimentFeedback: what was applied to an experiment stays, and baselines are
\* backed by metrics that passed the gate.
FeedbackCounts == part = "feedback" => Feedback!FeedbackCounts

\* Of VersionRecommendations: recommendations and suggestions are sound, and answers
\* take their items out of the inbox.
RecommendationsStand == part = "recommending" => Recommending!RecommendationsStand

\* Of what threads, coroutines and processes share without a lock: the response cache
\* answers what is fresh and counts each lookup, a budget that was exceeded was put to
\* a human, each event reaches those it is for, a cached business line is its row, and
\* nothing is run within a dry run, all but where the parts say so.
SharedServicesHold ==
  /\ part = "caching" => Caching!CacheKeepsItsWord
  /\ part = "costing" => Costing!CostsAreWatched
  /\ part = "delivering" => Delivering!EventsAreDelivered
  /\ part = "lining" => Lining!CacheFollowsRows
  /\ part = "drying" => Drying!DryRunHolds

\* Of ScenarioRuns and LearningLoop: what is learned follows from runs as they were
\* recorded.
LearningIsGrounded == part = "learning" => Learning!LearningIsGrounded
=============================================================================
