SPECIFICATION FairSpec
INVARIANTS BackoffSound DrainGrace
PROPERTIES BackoffHonoured PoolServes
CONSTANTS
  WINDOW = 2
  SECOND = 2
  CAP = 4
  MaxFailures = 3
  Confs <- EveryPM
  ForkFails = FALSE
  MaxBacklog = 1
