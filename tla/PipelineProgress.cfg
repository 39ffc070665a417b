CONSTANTS
  NumFrames = 2
  RequestNo <- OneRequestTwice
  RequestWidth = 8
  Nodes = {"p1a", "p1b", "p2"}
  Edges <- JoinGraph
  MayReject = {"p1b", "p2"}
  MaxFlushes = 2
SPECIFICATION FairSpec
INVARIANTS
  QuietAfterDrain
  FlushIsContagious
  RootsAlike
  JoinWaitsForAll
  GoneMeansThrough
  IInv
PROPERTIES
  NoQueueBehindSweep
  FlushedRangeNotQueued
  FlushCompletes
  EveryFrameReleased
CHECK_DEADLOCK FALSE
