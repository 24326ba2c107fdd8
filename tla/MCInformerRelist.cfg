CONSTANTS
    Key = {k1}
    Handler = {}
    MaxVersion = 2
    MaxFaults = 1
    MaxResyncs = 0

SPECIFICATION FairSpec
PROPERTIES
    RemovedEventually
CHECK_DEADLOCK FALSE
