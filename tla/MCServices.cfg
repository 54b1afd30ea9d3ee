SPECIFICATION MCSpec
CONSTANTS
    Symbols = {"btc", "alt"}
    Categories = {"crypto"}
    CategoryOf <- AllCoins
    Coin = {"crypto"}
    Mainstream = {"btc"}
    Traded = {"alt"}
    Syncers = {"w1"}
    GuardCount = 2
    MaxListings = 1
    MaxDecisions = 1
    MaxFaults = 2
    MaxDays = 2
    Instances = {"delivery", "changes", "alerts", "hours", "edits", "routes", "sync",
                 "listings", "scans", "callbacks", "broken", "reconnects", "limited",
                 "orders"}
INVARIANTS
    MessagesAreHonest
    OpenEntriesAllowed
    ExchangeLinkIsSound
PROPERTIES
    OperatorDecides
    OperatorWins
    NoMassInactivation
CHECK_DEADLOCK FALSE
