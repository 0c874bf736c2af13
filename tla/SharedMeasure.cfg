SPECIFICATION Spec
CONSTANTS
    i1 = i1  i2 = i2  r1 = r1  r2 = r2
    None = None
    Inits <- MCOneInit
    Runs <- MCRuns
    Configs <- MCShared
    MaxAttempts = 2
    MetricsLimit = 1
INVARIANTS
    MeasuredOnItsProcess
CHECK_DEADLOCK FALSE
