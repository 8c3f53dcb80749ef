CONSTANTS
  InputDim = 2
  HiddenDim = 3
  OutputDim = 3
  Rate = 1
  Epochs = 1
  Clients = {c1, c2}
  DataSets <- SmallDataSets
  Globals <- SmallGlobals
  RandomWeights <- SmallRandomWeights
SPECIFICATION Spec
INVARIANTS EverySampleCounts TwinsStayTwins MetricsAgree
PROPERTIES GradientDescent
CHECK_DEADLOCK FALSE
