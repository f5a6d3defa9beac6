CONSTANTS
    t1 = t1
    t2 = t2
    i1 = i1
    i2 = i2
    none = none
    other = other
    Task = {t1, t2}
    Idx = {i1}
    Trace = {none, other}
    NoTrace = none
    Absent = Absent
    None = None
    MaxRuns = 2
    MaxFaults = 1
    MaxResults = 1
SPECIFICATION FairSpec
INVARIANT TypeOK
INVARIANT NeverRefused
PROPERTY SegmentsWrittenOnce
PROPERTY RecordsReachDisk
PROPERTY KeepsItsPromise
CHECK_DEADLOCK FALSE
