SPECIFICATION MSpec
CONSTANTS
    a1 = a1  a2 = a2  p1 = p1  p2 = p2
    NoPause = NoPause
    Shutdown = Shutdown
    Stopper = Stopper
    Activations <- MCTwo
    Callers <- MCCallersTwo
    Monitored <- MCTwo
    Concurrency = 2
    Configs <- MCMixed
    PauseIDs <- MCTwoPauses
    MayFail <- MCAllFail
    KillConfirmBounded = TRUE
SYMMETRY MCPauseSymmetry
INVARIANTS
    MTypeOK
    UnkillableNeverKilled
    NoKillLost
    NotLeftFrozen
    FalseKillOnlyIfUnknown
    PauseIsOwned
    ThresholdOfLastResume
    EveryCycleRecorded
PROPERTIES
    ThawNeedsGrant
CHECK_DEADLOCK FALSE
