SPECIFICATION Spec
CONSTANTS
  Setups <- MCSetups
  SndBuf = 2
  MaxCache = 2
  MaxWriteBufferSize = 3
  Sizes = {1, 3}
  Vecs <- MCVecs
  MaxBytes = 4
  MaxInputs = 1
INVARIANTS
  StreamInOrder
  ReportedIsKept
  LeftExact
  WriteEventSet
PROPERTIES
  ClosedIsSilent
  CachedIsFlushed
CHECK_DEADLOCK FALSE
