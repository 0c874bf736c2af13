SPECIFICATION Spec
CONSTANTS
    a1 = a1  a2 = a2
    Activations <- MCTwo
    Monitored <- MCTwo
    Concurrency = 2
    MaxEnergy = 3
    MaxCPU = 2
    MaxCycles = 2
    Share <- MCShare
INVARIANTS
    MeterMatchesMarks
CHECK_DEADLOCK FALSE
