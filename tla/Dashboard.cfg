SPECIFICATION FairSpec
CONSTANTS
    a1 = a1
    a2 = a2
    Agents = {a1, a2}
    Old <- MCOld
    Queued = {a1}
    Sessions = {a1}
    MaxResumes = 1
    MaxRemoved = 1
    MaxKeys = 2
INVARIANTS
    CacheIsCurrent
PROPERTIES
    ChangeIsDrawn
CHECK_DEADLOCK FALSE
