SPECIFICATION FairSpec
CONSTANTS
    Http = {h1, h2}
    Sched = sched
    h1 = h1
    h2 = h2
    BackfillDays = 3
    WindowDays = 2
    Published <- MCPublished
    CredentialStates = {"blank", "enabled"}
    Faults = {"login", "page", "save", "collector", "database", "crash"}
    MaxMishaps = 2
    MaxRequests = 1
    MaxDay = 2
INVARIANTS
    TypeOK
    SingleForcedRun
    NoWindowSkipped
    NoBackfillAfterDecision
PROPERTIES
    LedgerSpec
    SlotIsReleased
    BackfillIsDecided
CHECK_DEADLOCK FALSE
