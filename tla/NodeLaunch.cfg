CONSTANTS
  NumNodes = 3
  order <- Against
  Callers = {"queue"}
  Owner = "owner"
SPECIFICATION FairSpec
INVARIANTS
  LaunchedInOrder
  ThroughMeansLaunched
  ReconfigAfterConfig
  IInv
PROPERTIES
  EveryWaiterGetsThrough
CHECK_DEADLOCK FALSE
