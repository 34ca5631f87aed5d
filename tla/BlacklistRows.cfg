SPECIFICATION Spec
CONSTANTS
    Ips = {a, b}
    Administered = {a}
    Http = {h1}
    None = none
    a = a
    b = b
    h1 = h1
    Retention = 1
    Detections <- MCDetections
    Removals <- MCRemovals
    Tables <- MCTables
    Faults = {"save", "cleanup", "expiry", "crash"}
    MaxDay = 2
    MaxWrites = 2
    MaxMishaps = 1
INVARIANTS
    TypeOK
    RowsFollowTheirDates
PROPERTIES
    JobsErrOnlyWhenRenewed
    BatchesAreWhole
CHECK_DEADLOCK FALSE
