\* Four streams of two events; one restart, two failed calls, one cooldown that runs out,
\* redelivery at any time.
SPECIFICATION FairSpec
CONSTANTS
    Event = {"e", "f"}
    NoEvent = "no event"
    Group = {"g1"}
    Stream <- Streams
    Window = 3
    Threshold = 2
    PullBatch = 2
    AckWaitMayExpire = TRUE
    MaxCrashes = 1
    MaxFaults = 2
    MaxElapses = 1
INVARIANTS
    TypeOK
    CooldownHolds
    ProbeRaisesAlert
    BurstIsRepeated
PROPERTY EveryEventAcked
CHECK_DEADLOCK FALSE
