SPECIFICATION Spec
CONSTANTS
    Agents = {a1}
    Scheduled = {a1}
    Unparsable = {}
    RunIds = {r1, r2}
    None = None
    MaxConcurrentRuns = 2
    MaxConcurrentPerAgent = 2
    MaxConcurrentCluster = 2
    MaxRunsPerHourPerAgent = 2
    MaxRunsPerHourCluster = 2
    BurstAllowance = 0
    Hour = 0
    StaleAge = 0
    TriggerCap = 0
    Interval = 0
    MaxWrites = 1
    MaxManual = 1
SYMMETRY RunSymmetry
INVARIANTS SchedulerInv
PROPERTIES RunNowAtMostOnce LastRunMonotone AdmissionSpec
