SPECIFICATION Spec
CONSTANTS
    a1 = a1
    a2 = a2
    name = name
    Agents = {a1, a2}
    Components = {name}
    Component <- MCComponent
    OldBranches = {}
    Stamps = {1}
INVARIANTS
    ChangesAreKept
    ReportIsTrue
CHECK_DEADLOCK FALSE
