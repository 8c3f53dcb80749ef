CONSTANTS
  worker = worker
  supervisor = supervisor
  NoId = NoId
  Ids <- Alone
  SupervisorOf <- Unsupervised
  Clients = {c1, c2}
  Overflows = {"DropNewest", "BlockSender", "DropOldest", "Unbounded"}
  Capacity = 1
  MaxCalls = 2
  MaxTells = 1
SPECIFICATION FairSpec
INVARIANTS PromisedHaveExited
PROPERTIES OnlyOwnerRemoves ShutdownReturns StopStops
CHECK_DEADLOCK FALSE
