SPECIFICATION Spec
CONSTANTS
    late = late
    timely = timely
    Runs <- TwoRuns
    Assets = {a1}
    Nobody = Nobody
    TTL = 2
    MaxAttempts = 2
    Faults <- Mixed
CHECK_DEADLOCK FALSE
INVARIANTS
    PackIsBacked
    
PROPERTIES
    ImplementsSlotLock
