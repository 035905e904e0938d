SPECIFICATION ProgressSpec
CONSTANTS
    Event = {e1}
    Endpoint = {p1}
    Token <- Tokens
    StatusCode <- Codes
    MaxAttempts = 2
    MaxGeneration = 0
    MaxFaults = 2
    NULL = NULL
PROPERTIES
    EventuallySettled
    OrphansAreReclaimed
CHECK_DEADLOCK FALSE
