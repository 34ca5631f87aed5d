SPECIFICATION CollectionSpec
CONSTANTS
    None = None
    Threads = {"daily", "forced"}
    OneToken = 10
    BurstSize = 1
    MinRate = 5
    InitialRate = 10
    MaxRate = 20
    AdjustAfter = 2
    MaxBackoff = 3
    MaxAttempts = 2
    Lockout = 2
    MaxTime = 7
    MaxGrants = 5
    Logins = {"forced"}
    MaxPages <- MCMaxPages
    Rows <- MCRows
    NewRows = {"private"}
    Unusable = {"private"}
    PageSize = 2
    PageAttempts = 2
    BlockThreshold = 2
    PageTtl = 1
    AuthTtl = 2
    JwtSpan = 1
    ArchiveCap = 1
    Faults = {"noTable", "json", "curl", "session", "news", "password", "network", "export"}
    MaxMishaps = 1
    MaxRuns = 1
    MaxFails = 4
INVARIANTS PortalIsSpared VerdictsAreRight RejectedSessionsAreDropped ArchiveStaysNearItsCap
CHECK_DEADLOCK FALSE
