SPECIFICATION Spec
CONSTANTS
  NumTasks = 2
  Deps <- NoDeps
  NeedsApproval = {}
  NeedsEvaluation = {}
  Capable = {1, 2}
  MayRaise = {1}
  AutoApprove = "yes"
  MaxConcurrency = 1
  MaxCalls = 2
CHECK_DEADLOCK FALSE
INVARIANTS ResumeContinuesUnexecuted
