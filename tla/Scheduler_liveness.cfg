SPECIFICATION FairSpec
CONSTANTS
    Agents = {a1}
    Scheduled = {a1}
    Unparsable = {}
    RunIds = {r1}
    None = None
    MaxConcurrentRuns = 1
    MaxConcurrentPerAgent = 1
    MaxConcurrentCluster = 1
    MaxRunsPerHourPerAgent = 1
    MaxRunsPerHourCluster = 1
    BurstAllowance = 0
    Hour = 0
    StaleAge = 0
    TriggerCap = 1
    Interval = 0
    MaxWrites = 1
    MaxManual = 1
PROPERTIES NewAgentStarts RunNowServed
