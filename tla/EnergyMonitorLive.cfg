SPECIFICATION MFairSpec
CONSTANTS
    a1 = a1  a2 = a2  p1 = p1  p2 = p2
    NoPause = NoPause
    Shutdown = Shutdown
    Stopper = Stopper
    Activations <- MCTwo
    Callers <- MCCallersTwo
    Monitored <- MCTwo
    Concurrency = 2
    Configs <- MCKillableOrNot
    PauseIDs <- MCTwoPauses
    MayFail <- MCNone
    KillConfirmBounded = FALSE
PROPERTIES
    InvocationReturns
CHECK_DEADLOCK FALSE
