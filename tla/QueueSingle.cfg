SPECIFICATION Spec
CONSTANTS
  NumActions = 4
  Workers = {w1}
  Entries = {"next"}
  NoRow = NoRow
PROPERTIES ImplementsContract
