SPECIFICATION Spec
CONSTANTS
  NumActions = 2
  Workers = {w1, w2}
  Entries = {"next", "id"}
  NoRow = NoRow
SYMMETRY Symmetry
INVARIANTS TypeOK AuditIsComplete RunningIsHandled HandledOncePerWorker
PROPERTIES PauseAdmitsNoOne
