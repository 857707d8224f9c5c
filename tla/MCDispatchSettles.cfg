SPECIFICATION FairSpec
CONSTANTS
    Jobs = {j1, j2}
    Oversized = {j2}
    Workers = {w1}
    Loops = {l1, l2}
    MAX_IN_FLIGHT_JOBS = 1
    DISPATCH_FETCH_LIMIT = 2
    JOB_MAX_ATTEMPTS = 2
    ApiCalls = {"pause", "resume"}
    MaxCalls = 2
    FaultKinds = {"worker", "lost", "manager", "db", "lease", "stall"}
    MaxFaults = 1
    MaxMessages = 1
    NoJob = NoJob
    NoDriver = NoDriver
    DeadDriver = DeadDriver
PROPERTIES
    Settles
CHECK_DEADLOCK FALSE
