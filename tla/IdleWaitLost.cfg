SPECIFICATION FairSpec
CONSTANTS
  Worker = {w1}
  Waiter = {x1}
  Capacity = 1
  MaxTasks = 1
PROPERTY WaitReturns
CHECK_DEADLOCK FALSE
