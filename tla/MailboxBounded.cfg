CONSTANTS
  Senders = {s1, s2}
  Capacity = 2
  MaxSends = 3
SPECIFICATION Spec
INVARIANTS Conservation DroppedIsExact
PROPERTIES ImplementsQueue RetryMeansProgress
CHECK_DEADLOCK FALSE
