SPECIFICATION Spec
CONSTANTS
  Conns = {c1, c2}
  NoConn = NoConn
  NFds = 3
  MaxOpenFiles = 3
PROPERTY StopAlwaysEnds
CHECK_DEADLOCK FALSE
