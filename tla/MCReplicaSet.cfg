CONSTANTS
    Pod = {a, b, c}
    Existing = {a, b, c}
    MaxReplicas = 2
    BurstReplicas = 2
    MaxChanges = 1
    MaxFaults = 1
SPECIFICATION FairSpec
PROPERTIES
    CreatesOnlyMissing
    DeletesOnlySurplus
    Settles
CHECK_DEADLOCK FALSE
