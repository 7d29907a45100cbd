SPECIFICATION FairSpec
CONSTANTS
    None = None
    restart = restart
    scale = scale
    drop = drop
    kubectl = kubectl
    other = other
    pod = pod
    db = db
    ActionIds = {restart, scale, drop}
    Names = {kubectl, other}
    Targets = {pod, db}
    Calls <- MCLoopCalls
    Specs <- MCAutomating
    MaxIterations = 3
    TokenBudget = 4
    KeepPairs = 1
    PerCallCap = 2
    InputTokens = {0, 2}
    MaxCalls = 1
    Faults = FALSE
INVARIANTS
    OvershootBounded
    ToolResultsPaired
    RunnerInv
PROPERTIES
    
    RunCompletes
CHECK_DEADLOCK FALSE
