SPECIFICATION FairSpec
CONSTANTS
    kept = kept
    dropped = dropped
    Schedules = {kept, dropped}
    Pods = {a, b}
    Crons = {1, 2}
    Declared <- MCDeclared
    Earlier <- MCEarlier
    NoPod = NoPod
    MaxTime = 2
    MaxRuns = 1
    MaxFaults = 1
INVARIANTS
    FiredOncePerSlot
    NotRerunAfterManual
    RowsFollowCode
PROPERTIES
    TimerAdvances
CHECK_DEADLOCK FALSE
