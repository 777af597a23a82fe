SPECIFICATION Spec
SYMMETRY MCSymmetry
CONSTANTS
    a1 = a1
    a2 = a2
    a3 = a3
    Agents = {a1, a2, a3}
    SingleModes = {"smart"}
    DispatchModes = {"group", "swarm"}
    MaxBatches = 1
    Watched = {}
    MaxWaiters = 0
    RateLimit = 1
INVARIANTS
    NothingForgotten
    AnnouncedOnce
    HeldHasTimer
CHECK_DEADLOCK FALSE
