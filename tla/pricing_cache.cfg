SPECIFICATION Spec
CONSTANTS
    Models <- OneModel
    Workers = {w1, w2}
    ModelOf <- AllOfOneModel
    Quotes = {cheap, dear}
    NoPricing = NoPricing
    Ttl = 1
    MaxLatency = 2
    MaxPause = 1
    MaxTime = 5
    MaxChanges = 2
INVARIANTS
    CacheInvariant
    PriceIsRecent
    UnknownIsRecent
CHECK_DEADLOCK FALSE
