CONSTANTS
    c1 = c1
    c2 = c2
    a1 = a1
    a2 = a2
    NoChannel = NoChannel
    Channels <- OneChannel
    Agents <- OneAgent
    Modes <- JustInterrupting
    MaxPending = 2
    MaxBatch = 2
    MaxRetries = 1
    CrashThreshold = 2
    Timers = TRUE
    Heartbeats = FALSE
    Overruns = FALSE
    MaxEvents = 2
CHECK_DEADLOCK FALSE
SPECIFICATION Spec
INVARIANTS
    NothingSpilled
