SPECIFICATION Spec
INVARIANT CarrySound
PROPERTY CustodySpec
CONSTANTS
    Pids = {1, 2, 3}
    Pools = {"a", "b"}
    Want = 1
    Daemonize = FALSE
    MaxStart = 2
    MaxReloads = 1
    MayKill = TRUE
    AllocFails = FALSE
CHECK_DEADLOCK FALSE
