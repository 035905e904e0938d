CONSTANTS
    Worker = {w1, w2}
    Job = {j1, j2, j3}
    Mode <- Modes
    Conn = {c1}
    ReadHeaderTimeout = 1
    RequestTimeout = 3
    ShutdownTimeout = 4
    Self = self
    Migrator = {self, other}
    Files <- Versions
    MaxFaults = 1
    NONE = NONE
SPECIFICATION MCSpec
INVARIANTS
    ClaimedHasIdleWorker
    CleanReturn
    PoolsOutliveUsers
    ServesMigrated
    SchemaMatchesRecord
    MigratorsNeverCollide
PROPERTIES
    ProcessExits
    DueIsProcessed
CHECK_DEADLOCK FALSE
