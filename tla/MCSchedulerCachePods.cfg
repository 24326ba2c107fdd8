CONSTANTS
    p1 = p1
    p2 = p2
    z1 = z1
    z2 = z2
    i1 = i1
    Pod = {p1, p2}
    Node = {n1, n2}
    Zone = {z1, z2}
    Image = {i1}
    NodeObj <- MCOneObj
    TermKind <- MCTermKind
    Declares <- MCDeclares
    NoNode = NoNode
    Pending = Pending
    Gone = Gone
    Binder = {b1, b2}
    MaxGen = 3
SPECIFICATION FairSpec
INVARIANTS
    CountedOnce
    CacheAgreesWithInformer
    NoAlarm
PROPERTIES
    AssumedIsTemporary
CHECK_DEADLOCK FALSE
