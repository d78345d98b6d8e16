SPECIFICATION FairSpec
CONSTANTS
  NumTasks = 5
  Deps <- JoinDeps
  NeedsApproval = {3}
  NeedsEvaluation = {2}
  Capable = {1, 2, 3, 5}
  MayRaise = {3}
  AutoApprove = "ask"
  MaxConcurrency = 2
  MaxCalls = 3
CHECK_DEADLOCK FALSE
INVARIANTS RunInv DependenciesFirst ApprovedBeforeExecution
PROPERTIES DecisionIsFinal OnlyDoomedAreSkipped ImplementsContract CallReturns
