SPECIFICATION FairSpec
CONSTANTS
    j1 = j1
    j2 = j2
    a = a
    b = b
    r1 = r1
    r2 = r2
    r3 = r3
    Jobs = {j1, j2}
    Records = {a, b}
    Runs = {r1, r2, r3}
    JobOf <- MCJobOf
    Plans <- MCPlans
    Earlier <- MCEarlier
    NoJob = NoJob
    NoRun = NoRun
    MaxSends = 2
    MaxFaults = 1
INVARIANTS
    OneJobDelivers
    DeliveredOnce
    NothingLost
    FailedHoldsNothing
PROPERTIES
    RunsEnd
CHECK_DEADLOCK FALSE
