CONSTANTS
  worker = worker
  supervisor = supervisor
  NoId = NoId
  Ids <- Supervised
  SupervisorOf <- SupervisedBy
  Clients = {c1}
  Overflows = {"DropNewest", "DropOldest"}
  Capacity = 1
  MaxCalls = 3
  MaxTells = 0
SPECIFICATION Spec
INVARIANTS TypeOK RegistryIdentity WaitGroupExact FailedIsGone
CHECK_DEADLOCK FALSE
