CONSTANTS
    p1 = p1
    p2 = p2
    t1 = t1
    t2 = t2
    d1 = d1
    d2 = d2
    None = None
    Process <- MCProcess
    Task <- MCTask
    DispatchId <- MCDispatchId
    MaxEntries = 2
SPECIFICATION Spec
SYMMETRY MCSymmetry
INVARIANTS
    IInv
    AtMostOnce
PROPERTY ImplementsOnceDispatch
