SPECIFICATION Spec
CONSTANTS
    Null = Null
    Objects <- OneOfEach
    Scenarios <- Stories
    MaxRetries = 2
    MaxArrivals = 2
    MaxFaults = 2
INVARIANTS
    TypeOK
    NothingVanishes

    
CHECK_DEADLOCK FALSE
