SPECIFICATION FairSpec
CONSTANTS
    i1 = i1  i2 = i2  r1 = r1  r2 = r2
    None = None
    Inits <- MCTwoInits
    Runs <- MCRuns
    Configs <- MCAll
    MaxAttempts = 2
    MetricsLimit = 1
INVARIANTS
    PTypeOK
    MeasuredThenAnnounced
    InitPointOnce
    InitPointConserved
    NoPanic
    MeasuredAlone
PROPERTIES
    GivesUpItsOwn
    RequestsEnd
CHECK_DEADLOCK FALSE
