CONSTANTS
  Programs = {"demo", "service"}
  Sensors = {s1}
  NumRounds <- TwoThenOne
  DeviceTypes = {"ac"}
  MaxFaults = 1
SPECIFICATION FairSpec
INVARIANTS OneRoundAtRisk EvaluatesItsRound AppendedIsSaved
PROPERTIES DurableProgress MainEnds RoundIsSaved
CHECK_DEADLOCK FALSE
