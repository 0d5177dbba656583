\* A run of two steps in a group, whose lock may expire, of which the worker has stored only one
\* result; the process of the only goroutine of each kind is killed once or one call fails.
SPECIFICATION FairSpec
CONSTANTS
    Run = {"r1"}
    NoRun = "no run"
    Step = {"s1", "s2"}
    Trigger = {"trigger"}
    Approval = {}
    NoMsg = "no message"
    RunFor <- OneRun
    Answer <- Answers
    Group = {"g1"}
    GroupOf <- OneGroup
    NoPlaybook = {}
    Rejected = {}
    Supervised = {}
    Unstored = {"s2"}
    Proc = {"p1"}
    TriggerWorker = {"tw1"}
    ResultWorker = {"rw1"}
    ApprovalWorker = {}
    Scanner = {}
    ProcOf <- OneProcess
    AckWaitMayExpire = FALSE
    LockMayExpire = FALSE
    GroupMayExpire = TRUE
    MayTimeOut = FALSE
    MaxCrashes = 1
    MaxFaults = 1
    MaxFailures = 1
PROPERTIES
    ResultsApplied
    ResultKept
CHECK_DEADLOCK FALSE
