SPECIFICATION FairSpec
CONSTANTS
    p = p
    q = q
    v1 = v1
    v2 = v2
    g1 = g1
    d1 = d1
    d2 = d2
    x1 = x1
    Managers = {m1, m2}
    GatewayCalls = {g1}
    DirectCalls = {d1, d2}
    DeadLetterRuns = {x1}
    ClientIds = {c}
    Names = {p, q}
    Fragile = {p}
    Inputs <- MCInputs
    Declared <- MCDeclared
    Values = {v1, v2}
    Bad = Bad
    Null = Null
    Absent = Absent
    NoCall = NoCall
    NoRow = NoRow
    NoPlan = NoPlan
    NoManager = NoManager
    NoObject = NoObject
    Unset = Unset
    MaxRequests = 2
    MaxFaults = 1
INVARIANTS
    OwnPlan
    OneTask
    VerdictHolds
    AcceptedCanRun
PROPERTIES
    Settles
CHECK_DEADLOCK FALSE
