CONSTANTS
  k1 = k1
  k2 = k2
  s1 = s1
  s2 = s2
  c1 = c1
  c2 = c2
  Clients = {k1, k2}
  WkConfs <- MCWkConfs
  OutCap = 2
  Peers = {1, 2}
  WsConfs <- MCWsConfs
  Slots = {s1, s2}
  GpConfs <- MCGpConfs
  Burst = 2
  RespawnWindow = 2
  QLen = 1
  Conns = {c1, c2}
  LoopConfs <- MCLoopConfs
  Inbox = 2
  High = 2
  Low = 1
  MaxBytes = 3
SPECIFICATION ServingSpec
INVARIANTS SocketSound TunnelSound
PROPERTIES WorkerSound  LoopSound
CHECK_DEADLOCK FALSE
