CONSTANTS
    alpha = alpha
    beta = beta
    o1 = o1
    sweep = sweep
    None = None
    MaxRequests = 2
    Host <- MCHost
    Target <- MCTarget
    Unreachable <- MCUnreachable
    Operator <- MCOperator
    Sweep = sweep
    Ttl = 1
    Durable = TRUE
    MaxCrashes = 1
SPECIFICATION LiveSpec
INVARIANTS
    ContainmentInv
    EffectIsTracked
    ClosedOnce
    ReversalsAreReal
    AnnouncedIsTrue
PROPERTY LeasesEnd
CHECK_DEADLOCK FALSE
