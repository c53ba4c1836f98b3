SPECIFICATION Spec
CONSTANTS
    None = None
    p1 = p1
    p2 = p2
    w1 = w1
    w2 = w2
    Jobs = {1}
    Clients = {c1}
    Procs = {p1, p2}
    Workers = {w1, w2}
    ProcOf <- TwoPools
    Embedded = {p1}
    Requests = {r1}
    MaxAttempts = 2
    MaxRestarts = 1
    MaxHangs = 1
    DbFaults = TRUE
INVARIANT FencedAttempts
INVARIANT PersistOncePerAttempt
INVARIANT SucceededMeansPersisted
