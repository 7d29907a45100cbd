SPECIFICATION AdmissionSpec
CONSTANTS
    Agents = {a1, a2}
    RunIds = {r1, r2, r3}
    None = None
    MaxConcurrentRuns = 1
    MaxConcurrentPerAgent = 1
    MaxConcurrentCluster = 1
    MaxRunsPerHourPerAgent = 2
    MaxRunsPerHourCluster = 2
    BurstAllowance = 1
    Hour = 1
    StaleAge = 0
    TriggerCap = 1
SYMMETRY RunSymmetry
INVARIANTS AdmissionInv ConcurrencyBounded 
