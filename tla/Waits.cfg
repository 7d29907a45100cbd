SPECIFICATION WaitsSpec
CONSTANTS
    a1 = a1
    s1 = s1
    Agents = {a1}
    RunIds = {r1, r2}
    None = None
    MaxConcurrentRuns = 2
    MaxConcurrentPerAgent = 2
    MaxConcurrentCluster = 2
    MaxRunsPerHourPerAgent = 2
    MaxRunsPerHourCluster = 2
    BurstAllowance = 0
    Hour = 1
    StaleAge = 0
    TriggerCap = 1
    HttpDeciders = {h1}
    Clis = {c1, c2}
    CreatedPhases = {"", "Pending"}
    Faults = TRUE
    NoPhase = NoPhase
    HookAgents = {a1}
    Sources = {s1}
    Handlers = {h1, h2}
    TriggerLists <- MCLists
    Window = 2
    MaxStall = 1
    ChannelCap = 1
    RunAgents = {a1, a2}
    MaxRuns = 3
    PreserveMinPerAgent = 1
    MaxDeleteBatch = 1
    DeviceNames = {d1, d2}
    Commands = {c1, c2}
    MaxTokens = 3
    DeviceLifetime = 1
INVARIANTS ResultWasDecided  WaitsInv
PROPERTIES CheckedDecisionFinal PreservesNewest RequestReturns TriggersGetThrough
    
CHECK_DEADLOCK FALSE
