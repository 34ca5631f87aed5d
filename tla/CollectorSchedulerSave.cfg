SPECIFICATION Spec
CONSTANTS
    Http = {}
    Sched = sched
    BackfillDays = 3
    WindowDays = 2
    Published <- MCPublished
    CredentialStates = {"enabled"}
    Faults = {"save"}
    MaxMishaps = 1
    MaxRequests = 0
    MaxDay = 2
INVARIANT
    FinishedWindowsAreKept
CHECK_DEADLOCK FALSE
