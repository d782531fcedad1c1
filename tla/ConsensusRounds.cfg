CONSTANTS
    a = a
    b = b
    c = c
    d = d
    z = z
    p = p
    q = q
    x = x
    y = y
    Nil = Nil
    Garbled = Garbled
    Stale = Stale
    None = None
    Member <- ThreeMember
    Faulty <- FaultyOne
    MaxFaulty = 1
    Proposers <- ZThenA
    ProposalId <- TwoIds
    Payload <- TwoPayloads
    Queued <- QueuedPQ
    LastRound = 1
    Forged <- TwoRounds
    Heard <- OthersAndImposters
    Exposed <- OnlyA
SPECIFICATION Spec
CHECK_DEADLOCK FALSE
INVARIANTS
    
    ExclusionsHaveCause
