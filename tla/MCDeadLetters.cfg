SPECIFICATION FairSpec
CONSTANTS
    Jobs = {j1, j2}
    Pollers = {p1, p2}
    Handlers = {h1}
    PipelineOf <- MCPipelineOf
    ParamsOf <- MCParamsOf
    MaxRetries = 2
    NoProc = NoProc
    MaxCalls = 1
    MaxFaults = 1
INVARIANTS
    OneRunAtATime
    CompletedRanOwnParams
    ArchivedAfterRetries
PROPERTIES
    Ends
CHECK_DEADLOCK FALSE
