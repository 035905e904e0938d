CONSTANTS
    Caller = {"a", "b", "w"}
    Seeds = {"a", "b"}
    Spelling = {"Demo", "demo", "other"}
    Canonical <- Lower
    Password = {"long", "longer", "short"}
    Weak = {"short"}
    None = None
    Start <- Starts
    MaxFaults = 1
SPECIFICATION Spec
INVARIANTS
    RowsStayInTheAccount
    SeedFailsWithCause
    SeededIsComplete
CHECK_DEADLOCK FALSE
