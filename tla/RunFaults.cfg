SPECIFICATION Spec
CONSTANTS
    Runs = {r1, r2}
    NoRun = NoRun
    N = 2
    NeverReuse <- LastNever
    MaxAttempts <- MCSingleAttempts
    MaxReconcile = 5
    MaxLosses = 1
    Ops <- OpsStop
    Faults <- PromptApiFaults
SYMMETRY RunSymmetry
CHECK_DEADLOCK FALSE
INVARIANTS
    NodePrefix
    SuccessIsComplete
    UpstreamLoaded
    SingleAttemptRunsOnce
PROPERTIES
    NoNodeAfterCancel
