CONSTANTS
    a = a
    b = b
    block = block
    None = None
    Kind <- OneKind
    Request <- OneRequest
    KindOf <- AllBlock
    Scope <- OneRequest
    ScopeOf <- OwnScope
    Governor = {tom}
    LocalId = self
    Peer = {p}
    Cap = 1
    TTL = 1
    MaxAge = 1
    MaxReports = 1
    MaxClock = 0
    SaveMayFail = TRUE
    MaxRestarts = 1
    MaxReleases = 0
    MaxGrants = 0
SPECIFICATION Spec
INVARIANTS
    GovernanceInv
PROPERTIES
    PeersAreHeard
