\* Two triggers of one group, of which the second is rejected, a group lock that expires, and two
\* result goroutines of two processes on the results of one run, of which its worker has not
\* stored one; run locks that expire while they are held.
SPECIFICATION HSpec
CONSTANTS
    Run = {"r1", "r2"}
    NoRun = "no run"
    Step = {"s1", "s2"}
    Trigger = {"trigger", "trigger2"}
    Approval = {}
    NoMsg = "no message"
    RunFor <- ThreeRuns
    Answer <- Answers
    Group = {"g1"}
    GroupOf <- OneGroup
    NoPlaybook = {}
    Rejected = {"r2"}
    Supervised = {}
    Unstored = {"s2"}
    Proc = {"p1", "p2"}
    TriggerWorker = {"tw1"}
    ResultWorker = {"rw1", "rw2"}
    ApprovalWorker = {}
    Scanner = {}
    ProcOf <- ByProcess
    AckWaitMayExpire = FALSE
    LockMayExpire = TRUE
    GroupMayExpire = TRUE
    MayTimeOut = FALSE
    MaxCrashes = 0
    MaxFaults = 0
    MaxFailures = 0
INVARIANTS
    TypeOK
    SucceededIsComplete
    PlannedBeforeReleased
    CountsAcknowledged
CHECK_DEADLOCK FALSE
