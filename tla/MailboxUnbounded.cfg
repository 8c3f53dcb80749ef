CONSTANTS
  Senders = {s1, s2}
  DefaultMailboxSize = 1
  MaxSends = 3
SPECIFICATION FairSpec
INVARIANTS Conservation
PROPERTIES ImplementsQueue EnqueueNeverBlocks EventuallyReceived
CHECK_DEADLOCK FALSE
