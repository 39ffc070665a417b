CONSTANTS
  preview = "preview"
  input = "input"
  NumFrames = 3
  RequestType <- TypeOf
  StreamsOf <- ImagesOf
  InputStreams = {"input"}
  MaxErrors = 2
  MaxQueue = 2
  MaxInFlight = 2
SPECIFICATION Spec
INVARIANT DrainedMeansReturned
CHECK_DEADLOCK FALSE
