SPECIFICATION Spec
CONSTANTS
  Loops = {"a"}
  Manual = {}
  Rollbacks = {}
  Requests = {"r"}
  Channels = {"api"}
  PatchSlot <- GuardedSlots
  PatchOp <- GuardedOps
  NoRow = NoRow
CHECK_DEADLOCK FALSE
PROPERTIES ResolvedItemsLeaveInbox
