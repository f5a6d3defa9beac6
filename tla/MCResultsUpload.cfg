CONSTANTS
    t1 = t1
    t2 = t2
    Task = {t1, t2}
    None = None
    Batches = 2
    MaxSessions = 3
    MaxFaults = 2
SYMMETRY Symmetry
SPECIFICATION Spec
INVARIANT FinalizedMatchesRows
INVARIANT UploadStores
CHECK_DEADLOCK FALSE
