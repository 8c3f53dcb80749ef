CONSTANTS
  Programs = {"demo", "service"}
  Sensors = {s1}
  NumRounds <- TwoThenOne
  DeviceTypes = {"ac"}
  MaxFaults = 1
SPECIFICATION Spec
INVARIANTS RestartContinues
CHECK_DEADLOCK FALSE
