\* Three lines, the first no event; one restart, one outage, one lost answer, one failed
\* write, one truncation of the log file.
SPECIFICATION FairSpec
CONSTANTS
    MaxLines = 3
    Plain = {1}
    MaxTruncations = 1
    MaxCrashes = 1
    MaxOutages = 1
    MaxLost = 1
    MaxFaults = 1
INVARIANTS
    SpoolOK
    PassedIsKept
    InOrder
PROPERTY AllDelivered
CHECK_DEADLOCK FALSE
