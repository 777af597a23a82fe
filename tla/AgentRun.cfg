SPECIFICATION FairSpec
CONSTANTS
    r1 = r1
    configured = configured
    parent = parent
    spare = spare
    Runs = {r1}
    RunKinds <- MCKinds
    Models <- MCModels
    Threshold = 2
    MaxTurns = 1
    GraceTurns = 1
    MaxTools = 1
    RevisionBudget = 1
    LevelLimit = 1
    ValidationRetries = 1
INVARIANTS
    GateHolds
    NoSilentFailure
PROPERTIES
    AbortCauseIsKept
    RunSettles
CHECK_DEADLOCK FALSE
