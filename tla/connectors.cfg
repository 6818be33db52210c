SPECIFICATION Spec
CONSTANTS
    t1 = t1
    t2 = t2
    Thread <- TwoThreads
    Deployments <- Settings
    Items <- Contents
    Cursors = {0, 2}
    PageSize = 2
    MaxRetries = 2
    Lifetime = 4
    MaxTime = 5
    MaxSyncs = 2
    MaxFaults = 1
SYMMETRY ThreadSymmetry
INVARIANTS
    TypeOK
    
    LockoutIsExplained
    PassIsComplete
CHECK_DEADLOCK FALSE
