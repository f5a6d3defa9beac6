CONSTANTS
    s1 = s1
    s2 = s2
    c1 = c1
    c2 = c2
    c3 = c3
    None = None
    Slot = {s1, s2}
    Caller = {c1, c2, c3}
    Pools = {{s1}, {s1, s2}}
    MaxConcurrency = 2
    MinInstances = 1
    MaxRestarts = 2
    MaxUnremoved = 1
SPECIFICATION FairSpec
INVARIANT TypeOK
INVARIANT CapacityRespected
INVARIANT NotReplacedInUse
INVARIANT WaitsForSomething
INVARIANT OnlyUnremovedLeft
PROPERTY EveryRequestReturns
CHECK_DEADLOCK FALSE
