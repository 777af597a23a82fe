SPECIFICATION Spec
CONSTANTS
    p1 = p1
    p2 = p2
    m1 = m1
    agents = agents
    Processes = {p1, p2}
    LimitKeys = {agents}
    Models = {m1}
    Ceiling = 2
    DefaultConcurrent = 1
    DefaultTurns = 1
    HandFiles <- MCHandFiles
    MenuNumbers = {0, 2, 3}
    MaxChanges = 4
    Absent = Absent
    Empty = Empty
    Malformed = Malformed
    None = None
SYMMETRY Symmetry
INVARIANTS
    RestartRestores
    FileOnlySurvives
    NoticesFit
CHECK_DEADLOCK FALSE
