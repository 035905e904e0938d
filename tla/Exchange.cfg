CONSTANTS
    Delivery = {1, 2}
    Secret = {s1, s2}
    Window = 6
    MaxCounts = 1
    MaxSleep = 3
    Setup <- Setups
    Budget <- Budgets
    HTTPTimeout = 2
    MaxLosses = 2
    MaxChanges = 1
SYMMETRY Symmetry
SPECIFICATION Spec
INVARIANTS
    BackoffFollowsRule
    RecoversWithinBudget
    RefusalHasCause
CHECK_DEADLOCK FALSE
