CONSTANTS
    a = a
    b = b
    block = block
    None = None
    Kind <- OneKind
    Request <- OneRequest
    KindOf <- AllBlock
    Scope <- TwoRequests
    ScopeOf <- OwnScope
    Governor = {tom}
    LocalId = self
    Peer = {p, self}
    Cap = 1
    TTL = 1
    MaxAge = 1
    MaxReports = 1
    MaxClock = 0
    SaveMayFail = FALSE
    MaxRestarts = 1
    MaxReleases = 1
    MaxGrants = 1
SPECIFICATION LiveSpec
INVARIANTS
    ActsAreApproved
PROPERTIES
    HealingSettles
