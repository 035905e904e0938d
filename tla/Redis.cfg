SPECIFICATION RedisSpec
CONSTANTS
    Rate = 2
    Capacity = 3
    TicksPerSecond = 2
    Slack = 0
    MaxTime = 9
    Request = {r1, r2}
    TTL = 2
    Timeout = 3
    SetDelay = 1
    Horizon = 8
INVARIANTS
    ExpiryIsInvisible
    WindowBounded
    StalenessBounded
PROPERTIES
    ImplementsRateLimit
CHECK_DEADLOCK FALSE
