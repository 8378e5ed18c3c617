SPECIFICATION Spec
CONSTANTS
  Modes = {"transfer"}
  Requests <- MCGoodRequests
  Inputs <- MCOrderInputs
  ReadLimit = 6
  ReadSize = 5
  MessageLengthLimit = 4
  Compression = TRUE
  HasFrameHandler = TRUE
  SendSizes = {0, 3}
  MaxFrame = 2
  SendQueueSize = 3
  MaxControl = 2
INVARIANT OrderGuaranteed
CHECK_DEADLOCK FALSE
