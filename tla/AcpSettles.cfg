CONSTANTS
    c1 = c1
    c2 = c2
    a1 = a1
    a2 = a2
    NoChannel = NoChannel
    Channels <- OneChannel
    Agents <- OneAgent
    Modes <- LazySteering
    MaxPending = 1
    MaxBatch = 1
    MaxRetries = 1
    CrashThreshold = 2
    Timers = TRUE
    Heartbeats = FALSE
    Overruns = TRUE
    MaxEvents = 2
CHECK_DEADLOCK FALSE
SPECIFICATION LiveSpec
PROPERTIES
    SleepStrandsNothing
    EventsSettle
