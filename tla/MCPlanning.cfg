SPECIFICATION FairSpec
CONSTANTS
    Batches = 2
    Planner = p
    Managers = {m1}
    PlanOwner = PlanOwner
    NoDriver = NoDriver
    ApiCalls = {"pause", "resume", "cancel", "fail"}
    MaxCalls = 2
    MaxStarts = 2
    FaultKinds = {"manager", "stall", "db", "plan", "registry", "resume"}
    MaxFaults = 2
INVARIANTS
    FragmentNeverDriven
    StoppedPlanIsCancelled
PROPERTIES
    LivePlannerProtected
    AbandonedPlanSettles
CHECK_DEADLOCK FALSE
