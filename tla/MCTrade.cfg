SPECIFICATION FairSpec
CONSTANTS
    r1 = r1
    r2 = r2
    Requests = {r1, r2}
    None = None
    Proposals = {1, 2}
    SideOf <- SellThenBuy
    QuantityOf <- OneThenTwo
    Quantities = {1, 2}
    Prices = {2, 3}
    Fee = 1
    Headroom = 1
    InitCash = 4
    InitShares = 2
    MaxInFlight = 2
    MaxStarts = 2
    MaxCrashes = 1
CHECK_DEADLOCK FALSE
INVARIANT SerialBooks
INVARIANT NoStrandedHold
INVARIANT OverdraftBounded
 
 
