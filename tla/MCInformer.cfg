CONSTANTS
    Key = {k1, k2}
    Handler = {h1}
    MaxVersion = 3
    MaxFaults = 1
    MaxResyncs = 1

SPECIFICATION FairSpec
INVARIANTS
    QueueMatchesItems
    StatesInOrder
    HandlersAgree
    SyncedIsFirstBatch
PROPERTIES
    PresentArrives
    KnownIsRemoved
CHECK_DEADLOCK FALSE
