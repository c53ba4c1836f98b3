SPECIFICATION SpendSpec
CONSTANTS
    c1 = c1
    c2 = c2
    Clients = {c1, c2}
    Costs = {1, 2}
    RunLimit = 1
    DayLimit = 1
    MaxPasses = 2
    MaxDay = 1
    MaxRuns = 2
    MaxCrashes = 1
SYMMETRY Alike
CHECK_DEADLOCK FALSE
 
INVARIANT NeverOverstated
