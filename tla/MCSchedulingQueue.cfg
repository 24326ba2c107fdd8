CONSTANTS
    Pod = {p1, p2}
    Node = {n1}
    Plugin = {fit}
    Event <- MCEvent
    Helps <- MCHelps
    NoNode = NoNode
    MaxPops = 2
SPECIFICATION FairClientSpec
INVARIANTS
    SubqueuesDisjoint
    PopNotAsleep
    MoveIsRemembered
PROPERTIES
    
    WaitingIsActivated
CHECK_DEADLOCK FALSE
