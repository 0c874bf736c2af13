SPECIFICATION MFairSpec
CONSTANTS
    a1 = a1  a2 = a2  p1 = p1  p2 = p2
    NoPause = NoPause
    Shutdown = Shutdown
    Stopper = Stopper
    Activations <- MCOne
    Callers <- MCCallersOne
    Monitored <- MCOne
    Concurrency = 1
    Configs <- MCUnkillable
    PauseIDs <- MCOnePause
    MayFail <- MCResumeFails
    KillConfirmBounded = FALSE
PROPERTIES
    ExitReleasesInteract
CHECK_DEADLOCK FALSE
