SPECIFICATION PlanSpec
CONSTANTS
    NoSector = NoSector
    joint = joint
    ira = ira
    tech = tech
    chips = chips
    drug = drug
    fund = fund
    Accounts = {joint, ira}
    Taxable = {joint}
    Symbols = {tech, chips, drug, fund}
    Sectors = {"technology", "health"}
    Classes = {"equity", "bonds"}
    SectorOf <- Sector
    ClassOf <- Class
    PriceOf <- Price
    Candidates <- Screen
    Portfolios <- Views
    max_position_pct = 30
    max_sector_pct = 50
    min_cash_pct = 10
    target <- Target
    band <- Band
    min_position_notional = 300
    CostPct = 2
    max_proposals = 5
CHECK_DEADLOCK FALSE
INVARIANT CashKept
INVARIANT TrimsCure
INVARIANT BuysFit
