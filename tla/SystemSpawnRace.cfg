CONSTANTS
  worker = worker
  supervisor = supervisor
  NoId = NoId
  Ids <- Alone
  SupervisorOf <- Unsupervised
  Clients = {c1}
  Overflows = {"DropNewest"}
  Capacity = 1
  MaxCalls = 2
  MaxTells = 0
SPECIFICATION Spec
INVARIANTS ShutdownWaitsForAll
CHECK_DEADLOCK FALSE
