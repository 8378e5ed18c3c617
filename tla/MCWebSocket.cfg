SPECIFICATION Spec
CONSTANTS
  Modes = {"poller", "transfer", "oneshot", "dial", "parser", "loop"}
  Requests <- MCRequests
  Inputs <- MCInputs
  ReadLimit = 6
  ReadSize = 5
  MessageLengthLimit = 4
  Compression = TRUE
  HasFrameHandler = TRUE
  SendSizes = {0, 3}
  MaxFrame = 2
  SendQueueSize = 3
  MaxControl = 2
INVARIANTS
  WsMessagesExact
  WsCachedBounded
  SendOrder
  SendBuffersOwned
  CallbackOrder
PROPERTIES
  CloseCompletes
CHECK_DEADLOCK FALSE
