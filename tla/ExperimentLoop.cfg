SPECIFICATION Spec
CONSTANTS
  Ticks = {t1, t2}
  Commands = {c1, c2}
  Feedback = {f1}
  NoTick = NoTick
SYMMETRY Symmetry
CHECK_DEADLOCK FALSE
INVARIANTS TypeOK LastTickIsLinked PauseHolds ExperimentsAreLinked TicksTellTheTruth
