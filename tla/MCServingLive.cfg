CONSTANTS
  k1 = k1
  k2 = k2
  s1 = s1
  s2 = s2
  c1 = c1
  c2 = c2
  Clients = {k1}
  WkConfs <- WkLive
  OutCap = 1
  Peers = {1, 2}
  WsConfs <- WsLive
  Slots = {s1}
  GpConfs <- GpLive
  Burst = 2
  RespawnWindow = 2
  QLen = 1
  Conns = {c1}
  LoopConfs <- LoopLive
  Inbox = 1
  High = 1
  Low = 0
  MaxBytes = 1
SPECIFICATION ServingFairSpec
PROPERTIES WorkersServe GatewaysEnd
CHECK_DEADLOCK FALSE
