SPECIFICATION Spec
CONSTANTS
    Pods = {a, b}
    Rates = {3, 6}
    Fastest = 6
    Minute = 4
    MaxWait = 2
    MaxSkew = 1
    MaxTime = 4
SYMMETRY Symmetry
INVARIANTS
    RateRespected
    SkewBounded
    WaitIsCredited
CHECK_DEADLOCK FALSE
