SPECIFICATION Spec
CONSTANTS
  Versions = {v1}
  Updates = {u1}
  Lockers = {l1}
  Creations = {c1, c2}
  Backups = {b1}
  Restores = {r1, r2}
  Consoles = {r1, r2}
  MaxBreaks = 1
  None = None
SYMMETRY Symmetry
CHECK_DEADLOCK FALSE
INVARIANTS TypeOK LockedIsImmutable BranchesAreSound RestoreKeepsHistory
