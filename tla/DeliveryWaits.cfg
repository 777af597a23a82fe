SPECIFICATION FairSpec
CONSTANTS
    a1 = a1
    a2 = a2
    Agents = {a1, a2}
    SingleModes = {"async", "smart", "swarm"}
    DispatchModes = {"group", "swarm"}
    MaxBatches = 2
    Watched = {a1}
    MaxWaiters = 2
    RateLimit = 1
PROPERTIES
    AnsweredIsQuiet
    ResultArrives
CHECK_DEADLOCK FALSE
