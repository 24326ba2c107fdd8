CONSTANTS
    p1 = p1
    p2 = p2
    z1 = z1
    z2 = z2
    i1 = i1
    Pod = {p1}
    Node = {n1, n2}
    Zone = {z1, z2}
    Image = {i1}
    NodeObj <- MCNodeObj
    TermKind <- MCTermKind
    Declares <- MCDeclares
    NoNode = NoNode
    Pending = Pending
    Gone = Gone
    Binder = {b1}
    MaxGen = 6
SYMMETRY Symmetry
SPECIFICATION Spec
INVARIANTS
    RecencyOrder
    IndexesHoldLiveNodes
PROPERTIES
    RefreshIsComplete
    AbsSpec
CHECK_DEADLOCK FALSE
