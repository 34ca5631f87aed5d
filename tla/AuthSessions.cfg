SPECIFICATION FairSpec
CONSTANTS
    Http = {h1, h2}
    h1 = h1
    h2 = h2
    Clients = {c1, c2}
    Admin = "admin"
    Names = {"admin"}
    Passwords = {"old", "new"}
    Weak = {}
    Default = "old"
    Tables <- MCTables
    Tokens = {t1}
    t1 = t1
    FailureLimit = 2
    LockTicks = 1
    TokenTicks = 2
    None = none
    Faults = {"redis", "database", "crash"}
    MaxRotations = 1
    MaxMishaps = 1
INVARIANTS
    TypeOK
    SessionsKnowThePassword
    GuessesAreBounded
    LoggedOutStaysOut
PROPERTIES
    LocksEnd
CHECK_DEADLOCK FALSE
