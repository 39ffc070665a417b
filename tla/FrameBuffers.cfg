CONSTANTS
  Nodes = {"p1", "p2", "fd"}
  Edges <- ABranch
  Aiawb = "aiawb"
  AppImages = {"display"}
  HalImages = {"yuv"}
  AppMetas = {}
  HalMetas = {}
  Outs <- PreviewOuts
  Ins <- PreviewIns
  OnDemand = {"display", "yuv"}
  Fallible = {"display"}
  PreReleasers = {}
  EarlyDispatchers = {}
  ToAiawb = {"yuv"}
  ToKeep = {}
SPECIFICATION FairSpec
INVARIANTS
  IInv
  HeldWhileUsed
  BufferReachable
  GoesBack
PROPERTIES
  ImplementsLife
  EveryFrameEnds
CHECK_DEADLOCK FALSE
