CONSTANTS
  Nodes = {"p1", "p2", "fd"}
  Edges <- ABranch
  Aiawb = "aiawb"
  AppImages = {}
  HalImages = {"raw"}
  AppMetas = {}
  HalMetas = {"tuning"}
  Outs <- KeptOuts
  Ins <- KeptIns
  OnDemand = {}
  Fallible = {}
  PreReleasers = {}
  EarlyDispatchers = {}
  ToAiawb = {}
  ToKeep = {"raw", "tuning"}
SPECIFICATION FairSpec
INVARIANTS
  LeftIsExact
  KeptIfAsked
CHECK_DEADLOCK FALSE
