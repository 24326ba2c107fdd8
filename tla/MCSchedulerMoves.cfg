CONSTANTS
    Pod = {p1, p2}
    Node = {n1}
    Plugin = {fit}
    Event <- MCEvent
    Helps <- MCHelps
    NoNode = NoNode
    Pending = Pending
    Gone = Gone
    Loop = Loop
    Binder = {b1}
    Capacity = 1
    PostFilter = FALSE
    Faults = {}
    MaxCycle = 3
    MaxVersions = 2
SPECIFICATION Spec
PROPERTIES
    EveryoneHearsMoves
CHECK_DEADLOCK FALSE
