CONSTANTS
    t1 = t1
    t2 = t2
    i1 = i1
    i2 = i2
    none = none
    other = other
    Task = {t1, t2}
    Idx = {i1, i2}
    Trace = {none, other}
    NoTrace = none
    Absent = Absent
    None = None
    MaxRuns = 2
    MaxFaults = 0
    MaxResults = 2
SYMMETRY Symmetry
SPECIFICATION Spec
INVARIANT TraceInStep
PROPERTY KeepsItsPromise
CHECK_DEADLOCK FALSE
