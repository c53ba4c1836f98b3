SPECIFICATION FairSpec
CONSTANTS
    None = None
    p1 = p1
    p2 = p2
    w1 = w1
    w2 = w2
    Jobs = {1, 2}
    Clients = {c1}
    Procs = {p1}
    Workers = {w1, w2}
    ProcOf <- OnePool
    Embedded = {p1}
    Requests = {r1}
    MaxAttempts = 1
    MaxRestarts = 1
    MaxHangs = 1
    DbFaults = FALSE
 
INVARIANT SingleExecutor
PROPERTY ImplementsOneShot
PROPERTY EveryJobEnds
