SPECIFICATION Spec
CONSTANTS
  Inputs <- MCInputs
  Spare <- MCSpare
  ReadSizes <- MCReadSizes
  ReadLimit = 8
  MaxHTTPBodySize = 3
  ReadBufferSize = 5
  Heads <- MCHeads
  WriteSizes <- MCWriteSizes
  maxPacketSize = 8
  NoMsg = NoMsg
  CloseJob = CloseJob
INVARIANTS
  MessagesExact
  BodyInOrder
  ReleasedOnce
  CachedBounded
  ResponsesExact
CHECK_DEADLOCK FALSE
