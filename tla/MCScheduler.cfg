CONSTANTS
    Pod = {p1, p2}
    Node = {n1}
    Plugin = {fit}
    Event <- MCEvent
    Helps <- MCHelps
    NoNode = NoNode
    Pending = Pending
    Gone = Gone
    Loop = Loop
    Binder = {b1}
    Capacity = 1
    PostFilter = FALSE
    Faults = {}
    MaxCycle = 2
    MaxVersions = 3
SYMMETRY Symmetry
SPECIFICATION Spec
INVARIANTS
    CapacityRespected
PROPERTIES
    LoopHearsMoves
CHECK_DEADLOCK FALSE
