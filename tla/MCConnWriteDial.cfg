SPECIFICATION Spec
CONSTANTS
  Setups <- MCDialedLT
  SndBuf = 2
  MaxCache = 2
  MaxWriteBufferSize = 0
  Sizes = {3}
  Vecs <- MCVecs
  MaxBytes = 3
  MaxInputs = 0
PROPERTY WriteIsFlushed
CHECK_DEADLOCK FALSE
