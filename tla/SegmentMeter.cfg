SPECIFICATION Spec
CONSTANTS
    a1 = a1  a2 = a2
    Activations <- MCTwo
    Monitored <- MCTwo
    Concurrency = 1
    MaxEnergy = 3
    MaxCPU = 2
    MaxCycles = 2
    Share <- MCShare
SYMMETRY MCActivationSymmetry
INVARIANTS
    STypeOK
    MarksFollowMeter
    MeterMatchesMarks
    CPUCountedOnce
CHECK_DEADLOCK FALSE
