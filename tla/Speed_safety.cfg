CONSTANTS
    w1 = w1
    w2 = w2
    Workers = {w1, w2}
    CounterSize = 3
    ArithSize = 8
    MaxClock = 4
    MaxBurst = 2
    MaxSamples = 3
SPECIFICATION Spec
SYMMETRY Symmetry
INVARIANTS
    OutOverstatedOnlyAfterGap
    InOverstatedOnlyBackwards
    DiskOverstatedOnlyFirst
CHECK_DEADLOCK FALSE
