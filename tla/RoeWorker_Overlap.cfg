\* One step, published twice, and an undecodable message that comes back for ever, one process
\* of two goroutines; AckWait may elapse while a handler is at work, so that two deliveries
\* of the step run at once.
SPECIFICATION Spec
CONSTANTS
    Step = {"s1"}
    Run = {"r1"}
    RunOf <- OneRun
    Msg = {"m1", "m2", "m3"}
    NoMsg = "no message"
    StepOf <- SameStep
    Undecodable = {"m3"}
    Proc = {"p1"}
    Thread = {"t1", "t2"}
    ProcOf <- OneProcess
    MaxAttempts = 2
    WindowAttempts = 0
    AgentStep = {}
    Denied = {}
    Invalid = {}
    AckWaitMayExpire = TRUE
    LockTTLMayExpire = TRUE
    MaxCrashes = 1
    MaxFaults = 0
INVARIANT PublishedIsPersisted
PROPERTY ResultStable
CHECK_DEADLOCK FALSE
