SPECIFICATION FairSpec
CONSTANTS
    Tickers = {"wash", "a"}
    ClassOf <- TwoClasses
    WashSale = {"wash"}
    Prohibited <- Tightening
    MaxVersion = 2
    MAX_RESEARCH_ATTEMPTS = 3
    Reviewers = {r1, r2}
    None = None
    MaxFaults = 1
CHECK_DEADLOCK FALSE
INVARIANT WithheldNeverBought
INVARIANT UnattendedIsChecked
INVARIANT RejectedIssuesNothing
INVARIANT DecisionsSettle
PROPERTY EveryRunSettles
