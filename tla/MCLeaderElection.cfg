CONSTANTS
    Client = {c1, c2}
    None = None
    LeaseDuration = 4
    RenewDeadline = 2
    RetryPeriod = 1
    ReleaseOnCancel = {c1, c2}
    Latency = 2
    MaxTime = 4
    MaxFaults = 2
SYMMETRY Symmetry
SPECIFICATION Spec
INVARIANTS
    OneLeader
    WatchdogQuiet
    TakeoverInTime
PROPERTIES
    TakesOverExpired
CHECK_DEADLOCK FALSE
