SPECIFICATION Spec
CONSTANTS
    Event = {e1}
    Endpoint = {p1}
    Token = {t1}
    StatusCode <- Codes
    MaxAttempts = 2
    MaxGeneration = 0
    NULL = NULL
INVARIANT
    TimeoutsAreRetryable
CHECK_DEADLOCK FALSE
