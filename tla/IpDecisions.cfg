SPECIFICATION Spec
CONSTANTS
    Checkers = {c1, c2}
    c1 = c1
    c2 = c2
    CacheTtl = 2
    CheckTicks = 1
    OtherWriters = {"collector", "expiry"}
    Faults = {"database", "redis", "restart"}
    MaxMishaps = 1
    MaxChanges = 2
SYMMETRY Symmetry
INVARIANTS
    TypeOK
    UndisturbedKeysAreExact
PROPERTIES
    DecisionsAreRecent
    WhitelistOutlivesFailures
CHECK_DEADLOCK FALSE
