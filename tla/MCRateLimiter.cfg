SPECIFICATION Spec
CONSTANTS
    k1 = k1
    k2 = k2
    k3 = k3
    t1 = t1
    t2 = t2
    Keys <- MCKeys
    Threads <- MCThreads
    Maximum = 2
    Duration = 3
    Cap = 2
    Lag = 1
    MaxTime = 5
    None = None
SYMMETRY Symmetries
INVARIANTS TypeOK TableBounded RateBounded
PROPERTIES RefusalsJustified
