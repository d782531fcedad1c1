CONSTANTS
    h1 = h1
    d1 = d1
    t1 = t1
    t2 = t2
    i1 = i1
    i2 = i2
    None = None
    Hold <- MCHold
    DispatchId <- MCDispatchId
    Identity <- MCIdentity
    Handler <- MCHandler
    Intent <- MCIntent
    Grants <- MCGrants
    TTL = 2
    Stall = 2
    MaxCrashes = 1
SPECIFICATION Spec
INVARIANTS
    HeldInv
    ClaimExclusive
    AtMostOnce
    RecordIsTruthful
PROPERTIES
    TerminalStays
    DecidingEnds
