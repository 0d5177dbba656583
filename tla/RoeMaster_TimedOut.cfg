\* A scanner times out an approval while the approval is being processed.
SPECIFICATION Spec
CONSTANTS
    Run = {"r1"}
    NoRun = "no run"
    Step = {"s1"}
    Trigger = {"trigger"}
    Approval = {"approval"}
    NoMsg = "no message"
    RunFor <- OneRun
    Answer <- Answers
    Group = {}
    GroupOf <- NoGroups
    NoPlaybook = {}
    Rejected = {}
    Supervised = {"r1"}
    Unstored = {}
    Proc = {"p1"}
    TriggerWorker = {"tw1"}
    ResultWorker = {"rw1"}
    ApprovalWorker = {"aw1"}
    Scanner = {"sc1"}
    ProcOf <- OneProcess
    AckWaitMayExpire = FALSE
    LockMayExpire = FALSE
    GroupMayExpire = FALSE
    MayTimeOut = TRUE
    MaxCrashes = 0
    MaxFaults = 0
    MaxFailures = 0
PROPERTIES
    TimedOutHalts
CHECK_DEADLOCK FALSE
