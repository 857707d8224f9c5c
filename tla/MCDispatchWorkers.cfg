SPECIFICATION Spec
CONSTANTS
    Jobs = {j1, j2}
    Oversized = {}
    Workers = {w1, w2}
    Loops = {l1}
    MAX_IN_FLIGHT_JOBS = 2
    DISPATCH_FETCH_LIMIT = 2
    JOB_MAX_ATTEMPTS = 2
    ApiCalls = {"cancel", "retry"}
    MaxCalls = 1
    FaultKinds = {"worker", "kafka", "lost", "db", "lease"}
    MaxFaults = 2
    MaxMessages = 1
    NoJob = NoJob
    NoDriver = NoDriver
    DeadDriver = DeadDriver
SYMMETRY Symmetry2
INVARIANTS
    AttemptsBounded
    ClaimExclusive
    RunnersHoldClaims
PROPERTIES
    CancelledJobStays
    SettledJobStays
CHECK_DEADLOCK FALSE
