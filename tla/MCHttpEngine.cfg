SPECIFICATION Spec
CONSTANTS
  Conns = {1, 2, 3}
  MaxOnlineA = 1
  MaxLoad = 2
  Reqs = {1, 2, 3}
  MaxConnNum = 1
  MaxDials = 2
  Proxies <- MCProxies
  Scenarios <- MCScenarios
INVARIANTS
  PoolExact
  ResponseMatches
  TableAndOnlineExact
  ShutdownClosesAll
PROPERTIES
  RequestsAnswered
  ShutdownEnds
CHECK_DEADLOCK FALSE
