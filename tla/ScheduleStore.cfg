SPECIFICATION FairSpec
CONSTANTS
    p1 = p1
    p2 = p2
    c1 = c1
    c2 = c2
    j1 = j1
    j2 = j2
    n1 = n1
    j3 = j3
    n2 = n2
    n3 = n3
    Free = Free
    Processes = {p1, p2}
    Calls = {c1, c2}
    Home <- MCHome
    Ids = {j1, j2, j3}
    Names = {n1, n2, n3}
    Wanted <- MCWanted
    Saved <- MCSaved
    MaxSchedules = 2
    MaxReadable = 2
    IoFaults = TRUE
INVARIANTS
    LockExclusion
    LimitAndNames
PROPERTIES
    CacheFollowsFile
    IsOneTable
    CallsReturn
CHECK_DEADLOCK FALSE
