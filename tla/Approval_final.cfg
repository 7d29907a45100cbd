SPECIFICATION ApprovalSpec
CONSTANTS
    HttpDeciders = {h1}
    Clis = {c1}
    CreatedPhases = {""}
    Faults = FALSE
    NoPhase = NoPhase
PROPERTIES DecisionFinal
CHECK_DEADLOCK FALSE
