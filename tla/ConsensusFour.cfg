CONSTANTS
    a = a
    b = b
    c = c
    d = d
    z = z
    p = p
    q = q
    x = x
    y = y
    Nil = Nil
    Garbled = Garbled
    Stale = Stale
    None = None
    Member <- FourMember
    Faulty <- FaultyOne
    MaxFaulty = 1
    Proposers <- Anyone
    ProposalId <- TwoIds
    Payload <- TwoPayloads
    Queued <- AllQueuedP
    LastRound = 0
    Forged <- Equivocation
    Heard <- AllOthers
    Exposed <- Nobody
SPECIFICATION Spec
SYMMETRY Followers
CHECK_DEADLOCK FALSE
INVARIANTS
    
    RoundZeroCommits
