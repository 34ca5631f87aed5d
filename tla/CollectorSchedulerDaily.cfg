SPECIFICATION Spec
CONSTANTS
    Http = {}
    Sched = sched
    BackfillDays = 3
    WindowDays = 2
    Published <- MCPublished
    CredentialStates = {"enabled"}
    Faults = {"crash"}
    MaxMishaps = 1
    MaxRequests = 0
    MaxDay = 2
INVARIANT
    DailyRunLogsIn
CHECK_DEADLOCK FALSE
