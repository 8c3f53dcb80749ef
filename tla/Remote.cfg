CONSTANTS
  Callers = {c1}
  PayloadOf <- Mixed
  MaxCalls = 2
  MaxDials = 2
  Capacity = 1
  Strategies = {"DropNewest", "DropOldest", "BlockSender"}
  Operations = {"Tell", "Ask", "AskNoDeadline", "Stop"}
SPECIFICATION FairSpec
CHECK_DEADLOCK FALSE
INVARIANTS AtMostOnce AnswersAreTrue OrderUnlessError
PROPERTIES CallsReturn ActorNeverStuck GracefulStopReturns
