SPECIFICATION FairSpec
INVARIANTS TypeOK StopInOrder WorkersAccounted
PROPERTY StopCompletes
CONSTANTS
  c1 = c1
  c2 = c2
  g1 = g1
  g2 = g2
  app = app
  sup = sup
  Pools = {app, sup}
  Pids = {c1, c2}
  Gateways = {g1, g2}
  ReadyGateways = {g1}
  Routed = {app}
  OnDemand = {app}
  TermPools = {sup}
  Terminated = {app}
  AccessLog = TRUE
  SparePools = {sup}
  HasTimeout = TRUE
  ReloadSelective = TRUE
CHECK_DEADLOCK FALSE
