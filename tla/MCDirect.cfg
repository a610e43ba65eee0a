SPECIFICATION FairSpec
INVARIANTS TableSound PendingSound
PROPERTIES RetireKeepsConnections GateServes NodesReleased
CONSTANTS
  a = a
  b = b
  x = x
  None = None
  Conns = {a, b}
  Client <- OneClient
  Units <- UnitsOf
  Configured <- TotalOrClient
  SweepMax = 1
  PendingMax = 1
  MaxRequests = 2
  HttpStream = TRUE
CHECK_DEADLOCK FALSE
