SPECIFICATION Spec
CONSTANTS
  a = a
  b = b
  WorkerCount = 1
  QueueCapacity = 2
  Root = {a, b}
  Owner <- OneOwner
  Requests <- QueueRequests
  MaxTasks = 3
INVARIANTS
  TypeOK
  QueueOrder
  WorkIsAccountedFor
PROPERTIES
  KeepsContract
CHECK_DEADLOCK FALSE
