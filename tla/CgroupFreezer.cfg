SPECIFICATION FairSpec
CONSTANTS
    c1 = c1  c2 = c2  p1 = p1  p2 = p2
    NoPause = NoPause
    Shutdown = Shutdown
    Callers <- MCCallers
    PauseIDs <- MCPauseIDs
    MayFail <- MCAllFail
    KillConfirmBounded = FALSE
INVARIANTS
    TypeOK
    StateIsTrue
    NoUseAfterClose
    OneOperation
PROPERTIES
    ThawedUnderItsPause
    KeepsLifecycle
    CallsReturn
    ExitIsPublished
