CONSTANTS
    Item = {i1, i2}
    Goroutine = {g1}
    NoItem = NoItem
    Delay = {0, 1}
    BaseDelay = 3
    MaxDelay = 2
    Width = 3
    FastDelay = 0
    SlowDelay = 1
    MaxFastAttempts = 1
    BucketDelay = {0}
    ChanSize = 1
    MaxWait = 2
    NoTime = NoTime
    MaxTime = 2
    MaxCalls = 3

SPECIFICATION FairSpec
INVARIANTS
    ExpiredIsNoticed
PROPERTIES
    NoHotLoop
    AbsSpec
    FailedIsRetried
    ShutdownFreesCallers
CHECK_DEADLOCK FALSE
