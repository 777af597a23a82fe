SPECIFICATION Spec
CONSTANTS
    every = every
    soon = soon
    r1 = r1
    r2 = r2
    c1 = c1
    s1 = s1
    Ids = {every, soon}
    Once = {soon}
    Runs = {r1, r2}
    Starters = {s1}
    Callers = {c1}
    MaxStarts = 2
    MaxStops = 1
    MaxFaults = 1
INVARIANTS
    NoOverlap
    StoppedIsUnarmed
    EnabledIsArmed
SYMMETRY MCSymmetry
CHECK_DEADLOCK FALSE
