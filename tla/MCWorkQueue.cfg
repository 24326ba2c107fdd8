CONSTANTS
    Item = {i1, i2, i3}
    Worker = {w1, w2, w3}
    NoItem = NoItem

SPECIFICATION FairSpec
INVARIANTS
    OneWorkerPerItem
    NoLostWakeup
PROPERTIES
    AbsSpec
    AcceptedIsStarted
    ShutdownEndsWorkers
CHECK_DEADLOCK FALSE
