SPECIFICATION Spec
CONSTANTS
    Event = {e1}
    Endpoint = {p1}
    Token = {t1, t2, t3}
    StatusCode <- Codes
    MaxAttempts = 2
    MaxGeneration = 1
    NULL = NULL
SYMMETRY Symmetry
INVARIANTS
    OwnerIsCurrent
    AttemptLogExact
    StatusMatchesLog
    DeadLetterIsLastError
    BudgetRespected
    NoPhantomSuccess
PROPERTIES
    NeverRewinds
    TerminalIsFinal
    ImplementsLifecycle
CHECK_DEADLOCK FALSE
