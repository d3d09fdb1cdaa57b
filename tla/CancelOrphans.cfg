SPECIFICATION FairSpec
CONSTANTS
    Runs = {r1}
    NoRun = NoRun
    N = 2
    NeverReuse <- NoNever
    MaxAttempts <- MCSingleAttempts
    MaxReconcile = 5
    MaxLosses = 0
    Ops <- OpsCancel
    Faults <- SlowApi
CHECK_DEADLOCK FALSE
PROPERTIES
    EveryRunSettles
