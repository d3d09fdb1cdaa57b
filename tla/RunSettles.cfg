SPECIFICATION FairSpec
CONSTANTS
    Runs = {r1, r2}
    NoRun = NoRun
    N = 2
    NeverReuse <- LastNever
    MaxAttempts <- MCMaxAttempts
    MaxReconcile = 5
    MaxLosses = 2
    Ops <- OpsStart
    Faults <- WorkerFaults
CHECK_DEADLOCK FALSE
PROPERTIES
    EveryRunSettles
    ImplementsRunOutcome
    ReconciledIsResumable
