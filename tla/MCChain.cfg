SPECIFICATION FairSpec
CONSTANTS
    None = None
    t1 = t1
    t2 = t2
    p1 = p1
    p2 = p2
    Threads = {t1, t2}
    Chain <- TwoProviders
    Limit <- OneRun
    Threshold = 2
    Cooldown = 1
    MaxAttempts = 2
    Burst = 1
    Rate = 1
INVARIANT HalfOpenHasProbe
 
PROPERTY EveryLookupEnds
