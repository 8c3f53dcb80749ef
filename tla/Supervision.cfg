CONSTANTS
  Ids = {a1, a2}
  Strategies <- AllStrategies
  Default <- Defaults
  Capacity = 2
  MaxAge = 2
  MaxCrashes = 2
  MaxCommands = 3
  MaxBeats = 1
  MaxTime = 2
SPECIFICATION FairSpec
INVARIANTS RecoveryExclusive NoFailureForgotten
PROPERTIES SupervisedComesBack EscalationGivesUp
CHECK_DEADLOCK FALSE
