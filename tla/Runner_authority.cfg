SPECIFICATION Spec
CONSTANTS
    None = None
    restart = restart
    scale = scale
    drop = drop
    kubectl = kubectl
    other = other
    pod = pod
    db = db
    ActionIds = {restart, scale, drop}
    Names = {kubectl, other}
    Targets = {pod, db}
    Calls <- MCAllCalls
    Specs <- MCAllSpecs
    MaxIterations = 1
    TokenBudget = 2
    KeepPairs = 1
    PerCallCap = 2
    InputTokens = {1}
    MaxCalls = 2
    Faults = TRUE
INVARIANTS
    
    AuditComplete
CHECK_DEADLOCK FALSE
