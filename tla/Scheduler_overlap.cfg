SPECIFICATION Spec
CONSTANTS
    Agents = {a1}
    Scheduled = {a1}
    Unparsable = {}
    RunIds = {r1}
    None = None
    MaxConcurrentRuns = 1
    MaxConcurrentPerAgent = 1
    MaxConcurrentCluster = 1
    MaxRunsPerHourPerAgent = 2
    MaxRunsPerHourCluster = 2
    BurstAllowance = 0
    Hour = 0
    StaleAge = 0
    TriggerCap = 0
    Interval = 1
    MaxWrites = 1
    MaxManual = 1
INVARIANT NoOverlappingRuns
