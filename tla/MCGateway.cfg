SPECIFICATION FairSpec
INVARIANTS BudgetExact UpstreamSound CompleteIsWhole
PROPERTY RequestEnds
CONSTANTS
  None = None
  p1 = p1
  p2 = p2
  c1 = c1
  c2 = c2
  Procs = {p1, p2}
  Reqs = {c1, c2}
  Configured <- Pools
  MaxLost = 1
CHECK_DEADLOCK FALSE
