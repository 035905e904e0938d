SPECIFICATION CacheSpec
CONSTANTS
    Request = {r1, r2}
    TTL = 2
    Timeout = 3
    SetDelay = 0
    Horizon = 8
INVARIANT
    TotalsLagByTTL
CHECK_DEADLOCK FALSE
