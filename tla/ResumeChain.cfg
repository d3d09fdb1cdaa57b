SPECIFICATION FairSpec
CONSTANTS
    Runs = {r1, r2, r3}
    NoRun = NoRun
    N = 2
    NeverReuse <- LastNever
    MaxAttempts <- MCSingleAttempts
    MaxReconcile = 5
    MaxLosses = 0
    Ops <- OpsResume
    Faults <- NoFaults
CHECK_DEADLOCK FALSE
PROPERTIES
    EveryRunSettles
