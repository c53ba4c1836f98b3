SPECIFICATION Spec
CONSTANTS
    None = None
    Parts = {"value"}
    Attempts = {r1, r2}
    r1 = r1
    r2 = r2
    LOGIN_MAX_FAILURES = 3
    LockTicks = 1
    MaxVersion = 1
    MaxKeys = 3
    KeyRequests = {r1, r2}
    Lifetimes = {1, 3}
    Graces = {0, 1, 2}
    caller = caller
    other = other
    login = login
    run = run
    Callers = {caller, other, login, run}
    LimitOf <- Limit
    WindowOf <- Window
    SweepSize = 2
    RateStateMaxKeys = 3
    advisor = advisor
    officer = officer
    chief = chief
    Users = {advisor, officer}
    RoleOf <- Role
    PolicyRequests = {r1, r2}
    MinCash = {0, 1}
    MaxCash = {1, 2}
    TierDefaults <- NoPolicy
    MaxRows = 3
    horizon = horizon
    reserve = reserve
    reaction = reaction
    Capacity = {horizon, reserve}
    Tolerance = {reaction}
    Options <- Points
    Horizons = {2, 6, 20}
    Ages = {None, 80}
    ClientRequests = {r1, r2}
    CLIENT_RETENTION_DAYS = 2
    Writers = {r1, r2}
    Closes = {1, 2}
    Amounts = {1}
    InitCash = 0
    InitShares = 1
    LastDay = 2
    MaxFlows = 2
    OutcomeRuns = {r1, r2}
    horizons = {1, 3}
    OutcomePrices = {1, 2}
    EvaluationLimit = 2
    _HORIZON_PRICE_TOLERANCE_DAYS = 1
    EndOfCalendar = 4
SYMMETRY Alike
CHECK_DEADLOCK FALSE
INVARIANT DepositIsNoReturn
