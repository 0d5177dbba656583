\* Six scenes of two batches on two lanes, one restart, one failed call, two ends of time.
SPECIFICATION FairSpec
CONSTANTS
    Message = {"m1", "m2"}
    NoMessage = "no message"
    LaneOf <- ByLane
    Scene <- Scenes
    MaxRules = 2
    Group = {"g"}
    MaxQueue = 1
    HighPct = 80
    MaxOpen = 1
    MaxCrashes = 1
    MaxFaults = 1
    MaxEnds = 2
INVARIANTS
    Consistent
    CooldownSurvives
    AckedIsAnswered
PROPERTY EveryBatchAcked
CHECK_DEADLOCK FALSE
