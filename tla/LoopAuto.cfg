SPECIFICATION Spec
CONSTANTS
  Loops = {"a", "b"}
  Manual = {}
  Rollbacks = {"undo"}
  Requests = {"r"}
  Channels = {"api", "cli"}
  PatchSlot <- AutoSlots
  PatchOp <- AutoOps
  NoRow = NoRow
CHECK_DEADLOCK FALSE
INVARIANTS TypeOK AppliedIsInHistory AppliedAtMostOnce EveryVersionHasAnOrigin LoopTellsTheTruth
