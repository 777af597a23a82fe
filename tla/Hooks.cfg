SPECIFICATION Spec
CONSTANTS
    h1 = h1
    h2 = h2
    h3 = h3
    h4 = h4
    d1 = d1
    Handlers = {h1, h2, h3, h4}
    Priority <- MCPriority
    Dispatches = {d1}
    MaxChanges = 8
INVARIANTS
    OrderIsKept
    MissesAreRemovals
CHECK_DEADLOCK FALSE
