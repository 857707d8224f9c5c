SPECIFICATION Spec
CONSTANTS
    Jobs = {j1}
    Oversized = {}
    Workers = {w1}
    Loops = {l1, l2}
    MAX_IN_FLIGHT_JOBS = 1
    DISPATCH_FETCH_LIMIT = 2
    JOB_MAX_ATTEMPTS = 2
    ApiCalls = {"pause", "resume", "cancel", "fail", "retry"}
    MaxCalls = 2
    FaultKinds = {"manager", "db", "producer", "registry", "resume", "session", "lease", "stall"}
    MaxFaults = 2
    MaxMessages = 1
    NoJob = NoJob
    NoDriver = NoDriver
    DeadDriver = DeadDriver
SYMMETRY SymmetryLoops
INVARIANTS
    DriverExclusive
    CancelStopsUnstarted
    CompletedMeansDelivered
CHECK_DEADLOCK FALSE
