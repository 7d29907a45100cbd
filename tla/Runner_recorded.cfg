SPECIFICATION Spec
CONSTANTS
    None = None
    restart = restart
    scale = scale
    drop = drop
    kubectl = kubectl
    other = other
    pod = pod
    db = db
    ActionIds = {restart, scale, drop}
    Names = {kubectl, other}
    Targets = {pod, db}
    Calls <- MCFewCalls
    Specs <- MCApproving
    MaxIterations = 2
    TokenBudget = 2
    KeepPairs = 1
    PerCallCap = 1
    InputTokens = {1}
    MaxCalls = 1
    Faults = FALSE
INVARIANTS
    DecisionsRecorded
CHECK_DEADLOCK FALSE
