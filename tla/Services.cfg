SPECIFICATION Spec
CONSTANTS
  p1 = p1
  p2 = p2
  clerk = clerk
  tick = tick
  None = None
  Processes <- Procs
  Clerks = {clerk}
  Ticks = {tick}
  Rows <- SmallRows
  Items <- SmallItems
  Given <- SmallGiven
  RiskThresholds = {300}
  MaxBaselines = 2
  Outcomes <- SmallOutcomes
  Bounds <- SmallBounds
  Histories <- SmallHistories
  Edits <- SmallEdits
  MaxShadows = 2
  MaxOpen = 2
  Prompts = {"a", "b"}
  MaxSize = 1
  Ttl = 1
  CallRetries = 1
  Timed = TRUE
  MaxTime = 2
  MaxAsks = 3
  CostKeys = {"k", "l"}
  Scopes <- SmallScopes
  Amounts = {3}
  Budgets = {5}
  MaxDay = 2
  MaxCalls = 2
  MaxOrders = 2
  Results <- SmallResults
  MetricThresholds <- SmallThresholds
  DecisionKinds = {"approve", "reject"}
  Blocked = {"sharpe"}
  Cooldown = {"sharpe"}
  RemainingBudget = 1
  MaxObserved = 2
  MaxDecisions = 1
  MaxConfig = 2
  UrlLists <- SmallUrlLists
  Channels = {"email"}
  PostRetries = 1
  MaxEvents = 2
  MaxUrls = 2
  MaxLines = 1
  MaxSaves = 3
  Tools = {"echo"}
  Plain = {"function"}
  MaxDepth = 2
SYMMETRY Symmetric
CHECK_DEADLOCK FALSE
INVARIANTS TypeOK FeedbackCounts RecommendationsStand SharedServicesHold LearningIsGrounded
