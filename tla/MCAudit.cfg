SPECIFICATION Spec
CONSTANTS
    s1 = s1
    s2 = s2
    p1 = p1
    p2 = p2
    Sessions = {s1, s2}
    Procs = {p1, p2}
    ProcOf <- TwoProcesses
    Orgs = {"f", "g"}
    Texts = {"a", "b"}
    None = None
    MaxOpenPerOrg = 2
    MaxEvents = 3
    MaxTampers = 1
INVARIANT SerialChainIntact
INVARIANT NoDanglingLink
 
