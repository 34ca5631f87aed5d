SPECIFICATION FairSpec
CONSTANTS
    Rows = {ra, rb}
    IpOf <- MCIpOf
    a = a
    b = b
    ra = ra
    rb = rb
    sb = sb
    RateLimit = 2
    Backoff = 2
    GuardMinBaseline = 2
    MaxChangePercent = 50
    Faults = {}
    MaxMishaps = 0
    MaxChanges = 2
PROPERTIES
    ListFollowsChanges
CHECK_DEADLOCK FALSE
