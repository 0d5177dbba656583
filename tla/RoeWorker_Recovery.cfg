\* Two processes, each killed at most once, one failed call, two steps of one run that
\* compete for its lock; s1 is refused by the allowlist, s2 is retried.
SPECIFICATION FairSpec
CONSTANTS
    Step = {"s1", "s2"}
    Run = {"r1"}
    RunOf <- OneRun
    Msg = {"m1", "m2"}
    NoMsg = "no message"
    StepOf <- ByNumber
    Undecodable = {}
    Proc = {"p1", "p2"}
    Thread = {"t1", "t2"}
    ProcOf <- OwnProcess
    MaxAttempts = 1
    WindowAttempts = 1
    AgentStep = {"s2"}
    Denied = {"s1"}
    Invalid = {}
    AckWaitMayExpire = FALSE
    LockTTLMayExpire = FALSE
    MaxCrashes = 1
    MaxFaults = 1
INVARIANTS
    TypeOK
    RetryIsScheduled
    ExecutionsBounded
    OneExecutor
PROPERTIES
    OutcomeSpec
    ReportedOrStranded
CHECK_DEADLOCK FALSE
