CONSTANTS
    Request <- Requests
    Key = {k1}
    EventId = {e1}
    Content <- Contents
    Endpoint = {p1}
    MaxConns = 2
    NULL = NULL
SPECIFICATION MCSpec
INVARIANTS
    AnswerIsTrue
    StoredWasAuthorized
    FanOutIsFair
PROPERTIES
    EventsAreImmutable
    EveryRequestAnswered
