SPECIFICATION Spec
CONSTANTS
  Document = {d1, d2}
  Staged = {d1}
  Editable = {d1, d2}
  Opened = {1}
  MaxVersion = 2
  MaxEvents = 3
  MaxRevisions = 1
  MaxFaults = 1
INVARIANTS
  RecordsAreTrue
  NothingIsOwed
PROPERTIES
  NewestValidationStays
CHECK_DEADLOCK FALSE
