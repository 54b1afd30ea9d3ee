SPECIFICATION Spec
CONSTANTS
    Instances = {"trading", "replay", "twice", "rotated", "waiting", "klines", "seconds", "v3", "v22", "box"}
INVARIANTS
    CampaignIsManaged
    SignalsAreExact
    BreakoutIsSound
CHECK_DEADLOCK FALSE
