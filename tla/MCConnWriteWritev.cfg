SPECIFICATION Spec
CONSTANTS
  Setups <- MCAcceptedLT
  SndBuf = 2
  MaxCache = 2
  MaxWriteBufferSize = 0
  Sizes = {1}
  Vecs <- MCVecs
  MaxBytes = 3
  MaxInputs = 0
INVARIANT WritevCachesTheRest
CHECK_DEADLOCK FALSE
