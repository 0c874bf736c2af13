SPECIFICATION MSpec
CONSTANTS
    a1 = a1  a2 = a2  p1 = p1  p2 = p2
    NoPause = NoPause
    Shutdown = Shutdown
    Stopper = Stopper
    Activations <- MCOne
    Callers <- MCCallersOne
    Monitored <- MCOne
    Concurrency = 1
    Configs <- MCKillable
    PauseIDs <- MCOnePause
    MayFail <- MCAllFail
    KillConfirmBounded = FALSE
INVARIANTS
    ReportedKillMeansDead
CHECK_DEADLOCK FALSE
