SPECIFICATION FairSpec
CONSTANTS
  Loops = {"a", "b"}
  Manual = {"m"}
  Rollbacks = {}
  Requests = {"r"}
  Channels = {"api", "cli"}
  PatchSlot <- GuardedSlots
  PatchOp <- GuardedOps
  NoRow = NoRow
CHECK_DEADLOCK FALSE
INVARIANTS OnlyVettedChangePrompts
PROPERTIES LoopEnds
