CONSTANTS
    c1 = c1
    c2 = c2
    Call = {c1, c2}
    None = None
    Attempts = 2
    Probes = 2
    MaxFaults = 2
SPECIFICATION FairSpec
INVARIANT TypeOK
INVARIANT NothingLeftBehind
INVARIANT AnswerIsTrue
PROPERTY EveryCallReturns
CHECK_DEADLOCK FALSE
