SPECIFICATION MCSpec
CONSTANTS
    Campaigns = {"c1", "c2", "c3"}
    NoCampaign = "none"
    Results <- LossesAndProfit
    InitialAccount = 10
    InitialTrading = 4
    MinimumTrading = 1
    Reinvest <- Half
    Surplus = 6
    MaxCrashes = 1
    NoState = NoState
    Instances = {"doubt", "limited", "one fault", "two symbols", "crash", "partial",
                 "drop", "books", "faulty", "stopped", "ledger", "two orders", "reports",
                 "early", "fees", "corrected"}
INVARIANTS
    EntriesBounded
    LeaseCoversRisk
    CapitalIsBooked
    JournalKeepsEvents
    LedgerIsTrue
CHECK_DEADLOCK FALSE
