CONSTANTS
    j1 = j1
    j2 = j2
    j3 = j3
    Job = {j1, j2, j3}
    None = None
    Work = 1
    Retention = 1
    MaxTime = 1
    MaxFaults = 2
SPECIFICATION FairSpec
INVARIANT TypeOK
INVARIANT LiveLockKept
INVARIANT NeverStuck
PROPERTY FinishedIsFinal
PROPERTY NothingLostOnResume
PROPERTY Finishes
CHECK_DEADLOCK FALSE
