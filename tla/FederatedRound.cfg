CONSTANTS
  Sensors = {s1, s2}
  MaxRounds = 3
  MaxFaults <- Faults
SPECIFICATION FairSpec
INVARIANTS UpdatesShareBase EverySensorCounts
PROPERTIES RoundCompletes ImplementsRounds
CHECK_DEADLOCK FALSE
