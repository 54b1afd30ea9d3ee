SPECIFICATION MCSpec
CONSTANTS
    Symbols = {"btc", "alt"}
    Categories = {"crypto"}
    CategoryOf <- AllCoins
    Coin = {"crypto"}
    Mainstream = {"btc"}
    Traded = {"alt"}
    Syncers = {"w1"}
    GuardCount = 2
    MaxListings = 1
    MaxDecisions = 1
    MaxFaults = 2
    MaxDays = 2
    Instances = {"callbacks"}
INVARIANTS
    FailureIsFatal
CHECK_DEADLOCK FALSE
