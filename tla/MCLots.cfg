SPECIFICATION Spec
CONSTANTS
    None = None
    joint = joint
    ira = ira
    other = other
    c1 = c1
    c2 = c2
    Accounts = {joint, ira}
    ClientOf <- TwoAccounts
    Taxable = {joint}
    Seeds <- Opened
    Prices = {32, 80}
    Quantities = {1, 2}
    WASH_SALE_WINDOW_DAYS = 1
    LONG_TERM_DAYS = 1
    ShortRate = 37
    LongRate = 20
    MaxDay = 2
    MaxLots = 4
    MaxTrades = 3
CHECK_DEADLOCK FALSE
INVARIANT BooksBalance
INVARIANT LookbackFindsLoss
INVARIANT HIFOLeastGain
PROPERTY OneDeferralWithinLoss
