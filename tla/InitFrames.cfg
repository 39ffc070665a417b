CONSTANTS
  NumFrames = 5
  mConfigInitFrameCount = 4
  Waiters = {"flush", "drain"}
  DrainBeforeDrop = TRUE
SPECIFICATION FairSpec
INVARIANTS
  NoFrameLost
  IInv
PROPERTIES
  ImplementsFrameOrder
  WaitTerminates
  EverySubmittedFrameIsSent
CHECK_DEADLOCK FALSE
