SPECIFICATION FairSpec
CONSTANTS
  NumTasks = 3
  Deps <- BackwardChain
  NeedsApproval = {2}
  NeedsEvaluation = {3}
  Capable = {1, 2, 3}
  MayRaise = {2}
  AutoApprove = "yes"
  MaxConcurrency = 1
  MaxCalls = 3
CHECK_DEADLOCK FALSE
INVARIANTS RunInv
PROPERTIES UndisturbedRunsAreComplete SavedWorkIsKept
