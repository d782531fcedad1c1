CONSTANTS
    c1 = c1
    c2 = c2
    a1 = a1
    a2 = a2
    NoChannel = NoChannel
    Channels <- TwoChannels
    Agents <- TwoAgents
    Modes <- SteerOrDrop
    MaxPending = 1
    MaxBatch = 1
    MaxRetries = 1
    CrashThreshold = 2
    Timers = FALSE
    Heartbeats = TRUE
    Overruns = FALSE
    MaxEvents = 2
CHECK_DEADLOCK FALSE
SYMMETRY Swapped
SPECIFICATION Spec
INVARIANTS
    AcpType
    NothingForgotten
    HeldOnce
    WithheldIsWatched
    SlotsAreExclusive
