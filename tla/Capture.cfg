CONSTANTS
  Invocation = {draw, dispatch}
  MaxSessions = 2
  MaxReports = 2
  EntryLimit = 1
  PendingLimit = 1
  Backlog = 2
SPECIFICATION Spec
INVARIANTS
  CountsAreTrue
  QueuedReportsAreSent
  PreviewsAreOfShownEntries
PROPERTIES
  JoinsReturn
CHECK_DEADLOCK FALSE
