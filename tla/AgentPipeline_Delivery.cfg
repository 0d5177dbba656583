\* Three events through channels of one place and batches of two, one restart, one broken
\* connection, one failed write or dropped acknowledgement; or a start that replays a log of
\* seven records, one more than the places between the log and the commit manager.
SPECIFICATION FairSpec
CONSTANTS
    Backlog = {0, 7}
    MaxEvents = 3
    InCap = 1
    LaneCap <- OneEach
    BatchSize = 2
    BatchCap = 1
    NetCap = 1
    AckCap = 1
    MaxCrashes = 1
    MaxBreaks = 1
    MaxFaults = 1
INVARIANTS
    LogOK
    WatermarkIsAcknowledged
    FastAccountedFor
    CommittedIsReceived
PROPERTY FastDelivered
CHECK_DEADLOCK FALSE
