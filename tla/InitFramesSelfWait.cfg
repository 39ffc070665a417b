CONSTANTS
  NumFrames = 4
  mConfigInitFrameCount = 4
  Waiters = {"flush"}
  DrainBeforeDrop = FALSE
SPECIFICATION Spec
INVARIANT HandlerDoesNotAwaitItself
CHECK_DEADLOCK FALSE
