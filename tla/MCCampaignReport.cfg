SPECIFICATION MCSpec
CONSTANTS
    Campaigns = {"c1", "c2", "c3"}
    NoCampaign = "none"
    Results <- LossesAndProfit
    InitialAccount = 10
    InitialTrading = 4
    MinimumTrading = 1
    Reinvest <- Half
    Surplus = 6
    MaxCrashes = 1
    NoState = NoState
    Instances = {"early"}
INVARIANTS
    RiskIsOwned
CHECK_DEADLOCK FALSE
