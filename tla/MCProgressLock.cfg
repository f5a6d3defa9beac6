CONSTANTS
    p1 = p1
    p2 = p2
    p3 = p3
    h1 = h1
    h2 = h2
    n1 = n1
    n2 = n2
    j1 = j1
    Proc = {p1, p2, p3}
    Host = {h1, h2}
    Pid = {n1, n2}
    None = None
    Job = {None, j1}
    MaxRounds = 2
    MaxTries = 2
SPECIFICATION FairSpec
INVARIANT HolderOwnsFile
PROPERTY NextRunStarts
CHECK_DEADLOCK FALSE
