SPECIFICATION FairSpec
CONSTANTS
    Kinds = {"kafka", "api"}
    Concurrencies = {1, 2, 3}
    N = 3
    Cases <- MCCases
    Partitions = {1, 2}
    Offsets = {0, 1}
    LagThreshold = 1
    MaxSteps = 2
    MaxAttempts = 2
INVARIANTS
    OutputKeepsOrder
    NoStrayTasks
PROPERTIES
    ContractKept
    Ends
CHECK_DEADLOCK FALSE
