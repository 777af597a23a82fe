SPECIFICATION FairSpec
CONSTANTS
    a1 = a1
    a2 = a2
    Agents = {a1, a2}
    SpawnKinds <- MCAllKinds
    Limits = {2}
    DefaultLimit = 1
    RunOutcomes = {"completed"}
    SessionLimit = 0
    MaxResumes = 1
PROPERTIES
    StopIsKept
    QueueDrains
    PromiseSettles
CHECK_DEADLOCK FALSE
