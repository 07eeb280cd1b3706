SPECIFICATION FairSpec
CONSTANTS
  Document = {d1}
  Stage = {p1}
  Fatal = {}
  Version = {1, 3}
  Arguments = {a1, a2}
  Sources = {s1}
  Capacity = 4
  MaxEntries = 1
  MaxCalls = 3
  MaxFaults = 2
INVARIANTS
  CachesAreTrue
  SharedStateIsTrue
PROPERTIES
  RecoveredOnce
  DocumentReported
ACTION_CONSTRAINTS
  FirstArgumentsAreGiven
  StagesHaveOneVersion
CHECK_DEADLOCK FALSE
