CONSTANTS
    Filter = {1, 2}
    Rows <- RowCount
    PageSize = 2
    MaxLoads = 5
CHECK_DEADLOCK FALSE
SPECIFICATION Spec
INVARIANTS
    ShownIsCurrent
    StaleErrorWasCut
    OffsetFitsFilter
