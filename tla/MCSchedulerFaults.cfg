CONSTANTS
    Pod = {p1}
    Node = {n1, n2}
    Plugin = {fit}
    Event <- MCEvent
    Helps <- MCHelps
    NoNode = NoNode
    Pending = Pending
    Gone = Gone
    Loop = Loop
    Binder = {b1, b2}
    Capacity = 1
    PostFilter = TRUE
    Faults = {"lostAnswer", "expiry", "otherScheduler"}
    MaxCycle = 3
    MaxVersions = 3
SYMMETRY Symmetry
SPECIFICATION Spec
INVARIANTS
    NoPodLost
    OneBindingPerPod
CHECK_DEADLOCK FALSE
