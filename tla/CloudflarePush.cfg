SPECIFICATION FairSpec
CONSTANTS
    Rows = {ra, rb, sb}
    IpOf <- MCIpOf
    a = a
    b = b
    ra = ra
    rb = rb
    sb = sb
    RateLimit = 2
    Backoff = 2
    GuardMinBaseline = 1
    MaxChangePercent = 50
    Faults = {"api", "database", "lost", "timeout", "operation", "listener", "crash"}
    MaxMishaps = 2
    MaxChanges = 2
INVARIANTS
    TypeOK
    SettledIsInSync
    PushesAreSpaced
PROPERTIES
    GuardedSwings
    ListSettles
CHECK_DEADLOCK FALSE
