SPECIFICATION Spec
CONSTANTS
    NoState = NoState
    Bad = Bad
    NoClasses = NoClasses
    ClassMaps <- MCClassMaps
    RaplMax = 4
    Near = 3
    MaxUse = 2
    MaxLow = 1
    Cores = 2
    MaxBefore = 1
    MaxSteps = 2
    MaxTraces = 2
    MaxExtensions = 1
INVARIANTS
    PlumbingHidden
CHECK_DEADLOCK FALSE
