SPECIFICATION Spec
CONSTANTS
  Payloads <- QuantPayloads
  Content <- QuantContent
  Setters = {s}
  Comparers = {q}
  Drafters = {p}
  Drills = {k}
  DrillBaseline = "base"
  DrillRuns <- QuantRuns
  Compared = 2
  MaxRequests = 2
  MaxPayloads = 4
  None = None
CHECK_DEADLOCK FALSE
INVARIANTS TypeOK OnlyBackedCandidatesAdvance ReportsAndBaselinesMatchRuns
