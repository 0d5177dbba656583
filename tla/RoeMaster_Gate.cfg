\* A supervised run, an approval and a denial that two goroutines take, a scanner that times the
\* approval out, and a second run of the same group, which is rejected; the process is killed once
\* or one of its calls fails.
SPECIFICATION Spec
CONSTANTS
    Run = {"r1", "r2"}
    NoRun = "no run"
    Step = {"s1"}
    Trigger = {"trigger", "trigger2"}
    Approval = {"approval", "denial"}
    NoMsg = "no message"
    RunFor <- ThreeRuns
    Answer <- Answers
    Group = {"g1"}
    GroupOf <- OneGroup
    NoPlaybook = {}
    Rejected = {"r2"}
    Supervised = {"r1"}
    Unstored = {}
    Proc = {"p1"}
    TriggerWorker = {"tw1"}
    ResultWorker = {"rw1"}
    ApprovalWorker = {aw1, aw2}
    Scanner = {"sc1"}
    ProcOf <- OneProcess
    AckWaitMayExpire = FALSE
    LockMayExpire = FALSE
    GroupMayExpire = FALSE
    MayTimeOut = TRUE
    MaxCrashes = 1
    MaxFaults = 1
    MaxFailures = 1
INVARIANTS
    PublishedOnce
    DeniedHalts
    ReleasedByApproval
    FailureIsJustified
CHECK_DEADLOCK FALSE
SYMMETRY Approvers
