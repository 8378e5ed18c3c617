SPECIFICATION Spec
CONSTANTS
  Conns = {c1, c2}
  NoConn = NoConn
  NFds = 3
  MaxOpenFiles = 3
INVARIANTS
  WgExact
  FdOwned
  TableExact
PROPERTIES
  ClosedIsNotified
  StopEnds
CHECK_DEADLOCK FALSE
