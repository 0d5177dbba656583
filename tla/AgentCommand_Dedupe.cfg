\* Three requests of one step, two on the general subject and one on the agent's own;
\* one restart, one outage (which ends, or the client gives up), one failed read or write.
SPECIFICATION FairSpec
CONSTANTS
    Request = {"r1", "r2", "r3"}
    Key = {"k1"}
    KeyOf <- Keys
    Sub = {"all", "own"}
    SubOf <- Subjects
    Reply = {"ok", "error"}
    None = None
    MaxCrashes = 1
    MaxOutages = 1
    MaxFaults = 1
INVARIANTS
    CacheOK
    ExecutionsBounded
    AnsweredIsStored
PROPERTIES
    RequestAnswered
CHECK_DEADLOCK FALSE
