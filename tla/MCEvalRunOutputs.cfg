CONSTANTS
    t1 = t1
    i1 = i1
    i2 = i2
    w1 = w1
    w2 = w2
    Task = {t1}
    Idx = {i1, i2}
    Worker = {w1, w2}
    Absent = Absent
    Budget = 50
    Chunk = 1
    Shared = FALSE
    MaxAttempts = 1
    MaxFaults = 1
SPECIFICATION Spec
PROPERTY OutputsBeforeDiscard
CHECK_DEADLOCK FALSE
