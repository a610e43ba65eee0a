CONSTANTS
  g1 = g1
  g2 = g2
  a1 = a1
  a2 = a2
  a3 = a3
  GatewayPools <- Order
  Confs <- MCHandConfs
  Fds = {1, 2, 3, 4, 5}
  Writers = {1, 2}
  Tokens = {1, 2}
  Answers = {1, 2}
  Entries = 2
  Attempts = 4
  MaxEdits = 3
  MaxWriterKills = 1
  Dialogues <- MCDialogues
  HttpMaxHead = 40
  MaxLine = 5
  SizeMax = 15
  MaxRead = 60
  Names <- MCNames
  Sup <- MCSupPools
  Plans <- MCPlans
  Grace = 1
  Slack = 1
  MaxSlots = 9
  MaxNow = 2
  MaxExecs = 3
  MaxForks = 3
  StoreConfs <- MCStoreConfs
  DefaultBuckets <- MCDefaultBuckets
  RtConfs <- MCRtConfs
  RtConns = {c1, c2}
  MaxRequests = 3
SPECIFICATION TablesSpec
INVARIANTS  AcmeSound 
PROPERTIES MetricSlotsSound StoreSound RouteSound
CHECK_DEADLOCK FALSE
