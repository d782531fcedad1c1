CONSTANTS
    MaxAlarms = 4
    Work <- TheWork
    Subject <- TheSubject
    Kind <- TheKind
    Hunt <- OneHunt
    Undeliverable = {}
    Foreign <- ThePromotion
    Willing = {h1}
    RefusalBudget = 2
    Capacity = 2
    SegmentRecords = 2
    SpoolMax = 3
    MaxFaults = 1
    MaxTroubled = 2
    None = None
    h1 = h1
    c1 = c1
    hunt = hunt
SPECIFICATION LiveSpec
CHECK_DEADLOCK FALSE
INVARIANTS
    LaneInv
    NothingLost
    DoneIsPublished
    AlarmIsBacked
PROPERTIES
    StaysClosed
    LaneDrains
    ParkedServed
