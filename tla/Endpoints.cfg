CONSTANTS
    Request = {r1, r2}
    Field <- Fields
    Value = {0, 1, 2}
    Valid = {0, 1}
    Default <- Defaults
    NULL = NULL
SYMMETRY Symmetry
CHECK_DEADLOCK FALSE
SPECIFICATION Spec
INVARIANTS
    NothingInvented
    PatchesMerge
PROPERTY
    DeletedForGood
