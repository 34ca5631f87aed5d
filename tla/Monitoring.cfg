SPECIFICATION MonitoringSpec
CONSTANTS
    Nil = Nil
    t1 = t1
    t2 = t2
    Threads = {t1, t2}
    Endpoints = {"/api/stats", "/api/lists"}
    ApiErrors = {"NotFoundError"}
    HttpExceptions = {"NotFound", "TooManyRequests"}
    Bugs = {"KeyError"}
    StatusOf <- MCStatusOf
    HookErrors = {"TooManyRequests"}
    Keys = {"stats:a", "ip:1", "ip:2"}
    PrefixOf <- MCPrefixOf
    CacheTtl = 1
    RingSize = 2
    ErrorLimit = 2
    CacheLimit = 1
    TopLimit = 2
    MaxRequests = 3
    MaxTime = 2
SYMMETRY MCSymmetry
INVARIANTS LedgersHold ReportsHold
CHECK_DEADLOCK FALSE
