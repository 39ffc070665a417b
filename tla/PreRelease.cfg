CONSTANTS
  NumRequests = 3
  MaxFlushes = 2
  NodesOf <- WithRaw
  Bad <- Failures
  MAX_PRE_RELEASE_PIPELINE = 2
  SlowFlushes = {1}
SPECIFICATION FairSpec
INVARIANTS
  ToldWhenDone
  FailureTold
  NoneForgotten
  OthersInOrder
PROPERTIES
  EveryCaptureTold
  SessionOpens
CHECK_DEADLOCK FALSE
