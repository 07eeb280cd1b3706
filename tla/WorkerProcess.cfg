SPECIFICATION FairSpec
CONSTANTS
  Caller = {c1, c2}
  MaxRequests = 2
  MaxChildren = 2
INVARIANTS
  RequestsAreApart
  ShutdownIsClean
PROPERTIES
  AllEnds
CHECK_DEADLOCK FALSE
