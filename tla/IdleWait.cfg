SPECIFICATION FairSpec
CONSTANTS
  Worker = {w1, w2}
  Waiter = {x1, x2}
  Capacity = 1
  MaxTasks = 3
INVARIANTS
  Safety
PROPERTIES
  ParkedWaitersReturn
CHECK_DEADLOCK FALSE
