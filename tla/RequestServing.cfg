SPECIFICATION FairSpec
CONSTANTS
  Id = {i1, i2}
  Thread = {w1, w2}
  QueueCapacity = 1
  MaxRequests = 3
INVARIANTS
  Safety
PROPERTIES
  CancellationWins
  
ACTION_CONSTRAINTS
  FirstIdIsGiven
CHECK_DEADLOCK FALSE
