CONSTANTS
    w1 = w1
    w2 = w2
    i1 = i1
    i2 = i2
    i3 = i3
    None = None
    Pill = Pill
    Worker = {w1, w2}
    Item = {i1, i2, i3}
    Samples <- TwoSamples
    Rollout = {i3}
    ChunkSize = 2
    Budget = 2
    Limit = 2
    MaxRetries = 1
    MaxErrors = 2
    MaxFaults = 1
SPECIFICATION FairSpec
INVARIANT TypeOK
INVARIANT BatchWithinBudget
PROPERTY WorksAsPool
PROPERTY EveryWorkerEnds
CHECK_DEADLOCK FALSE
