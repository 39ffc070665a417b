CONSTANTS
  Nodes = {"p1", "p2", "jpeg"}
  Edges <- AChain
  Aiawb = "aiawb"
  AppImages = {}
  HalImages = {"yuv"}
  AppMetas = {"result"}
  HalMetas = {}
  Outs <- CaptureOuts
  Ins <- CaptureIns
  OnDemand = {"yuv"}
  Fallible = {}
  PreReleasers = {"p2"}
  EarlyDispatchers = {"p1"}
  ToAiawb = {}
  ToKeep = {}
SPECIFICATION Spec
INVARIANTS
  OneUserAtATime
  CompletionNoted
CHECK_DEADLOCK FALSE
