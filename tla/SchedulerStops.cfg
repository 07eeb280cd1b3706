SPECIFICATION FairSpec
CONSTANTS
  a = a
  b = b
  WorkerCount = 2
  QueueCapacity = 2
  Root = {a, b}
  Owner <- TwoOwners
  Requests <- SplitRequests
  MaxTasks = 2
PROPERTIES
  WorkAndShutdownEnd
CHECK_DEADLOCK FALSE
