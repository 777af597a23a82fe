SPECIFICATION Spec
SYMMETRY MCSymmetry
CONSTANTS
    a1 = a1
    a2 = a2
    a3 = a3
    Agents = {a1, a2, a3}
    SpawnKinds <- MCBackgroundKinds
    Limits = {0, 2}
    DefaultLimit = 1
    RunOutcomes = {"completed"}
    SessionLimit = 2
    MaxResumes = 0
INVARIANTS
    SessionLimitHolds
    SlotAccounting
    QueueExact
    NoIdleSlot
    OpenGateIsServed
    ReportedOnce
    SettledIsFinal
PROPERTIES
    FifoStart
    OvershootOnlyBySetup
CHECK_DEADLOCK FALSE
