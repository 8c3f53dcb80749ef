CONSTANTS
  Ids = {a1}
  Strategies <- OnlyOneForOne
  Default <- Defaults
  Capacity = 2
  MaxAge = 3
  MaxCrashes = 3
  MaxCommands = 1
  MaxBeats = 1
  MaxTime = 1
SPECIFICATION Spec
INVARIANTS FailuresAreCounted
CHECK_DEADLOCK FALSE
