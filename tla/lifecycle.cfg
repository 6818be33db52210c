SPECIFICATION ProcessSpec
CONSTANTS
    Attempts = 3
    AttemptTicks = {1, 2}
    SyncTicks = {0, 3, 7}
    SlowTicks = {9}
    ProbePeriod = 2
    ProbeFailures = 4
    Slots = {r1, r2}
    Buckets = 2
    MaxRequests = 3
    MaxOutages = 2
    MaxExceptions = 2
INVARIANTS
    ProcessTypeOK
    WarmupIsWaitedOut
 
CHECK_DEADLOCK FALSE
