CONSTANTS
    a = a
    b = b
    block = block
    None = None
    Kind <- OneKind
    Request <- TwoRequests
    KindOf <- AllBlock
    Scope <- TwoRequests
    ScopeOf <- OwnScope
    Governor = {tom}
    LocalId = self
    Peer = {}
    Cap = 1
    TTL = 1
    MaxAge = 1
    MaxReports = 1
    MaxClock = 1
    SaveMayFail = FALSE
    MaxRestarts = 1
    MaxReleases = 0
    MaxGrants = 0
SYMMETRY Swapped
SPECIFICATION Spec
INVARIANTS
    RoutedInPartition
    BlastRadius
    AttemptsKept
