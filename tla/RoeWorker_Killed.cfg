\* One message, one process that is killed at most once and restarted; AckWait
\* elapses only for a message nobody handles.
SPECIFICATION FairSpec
CONSTANTS
    Step = {"s1"}
    Run = {"r1"}
    RunOf <- OneRun
    Msg = {"m1"}
    NoMsg = "no message"
    StepOf <- SameStep
    Undecodable = {}
    Proc = {"p1"}
    Thread = {"t1", "t2"}
    ProcOf <- OneProcess
    MaxAttempts = 2
    WindowAttempts = 0
    AgentStep = {}
    Denied = {}
    Invalid = {}
    AckWaitMayExpire = FALSE
    LockTTLMayExpire = FALSE
    MaxCrashes = 1
    MaxFaults = 0
PROPERTY EveryStepReported
CHECK_DEADLOCK FALSE
