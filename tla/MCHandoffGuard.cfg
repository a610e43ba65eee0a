SPECIFICATION FairSpec
CONSTANTS
    Pids = {1, 2, 3}
    Pools = {"a"}
    Want = 2
    Daemonize = TRUE
    MaxStart = 2
    MaxReloads = 1
    MayKill = TRUE
    AllocFails = TRUE
CHECK_DEADLOCK FALSE
PROPERTY GuardedSettled
PROPERTY CorpseRetired
