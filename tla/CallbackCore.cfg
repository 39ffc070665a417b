CONSTANTS
  preview = "preview"
  input = "input"
  NumFrames = 3
  RequestType <- TypeOf
  StreamsOf <- ImagesOf
  InputStreams = {"input"}
  MaxErrors = 2
  MaxQueue = 2
  MaxInFlight = 2
SPECIFICATION Spec
INVARIANTS
  LeavesComplete
  TellsTheTruth
  NoFrameStuck
PROPERTY CallbacksInOrder
CHECK_DEADLOCK FALSE
