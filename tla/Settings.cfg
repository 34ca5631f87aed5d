SPECIFICATION SystemSpec
CONSTANTS
    None = None
    Http = {h1, h2}
    Keys = {"admin_hash", "interval", "url"}
    Sensitive = {"admin_hash"}
    Values = {v1, v2}
    Incomplete = Incomplete
    Malformed = Malformed
    Batches <- MCBatches
    Ttl = 2
    MaxTime = 2
    MaxRequests = 3
    Sources = {"REGTECH", "CLOUDFLARE"}
    Forms <- MCForms
    Users = {"", "bob"}
    Passwords = {"q"}
    EnvPair <- MCEnvPair
    MasterKeys = {"k1", "k2"}
    InitialRows <- MCRows
    MaxCalls = 3
INVARIANTS CachedSettingsAreRecent BatchesAreAccountedFor PasswordsAreKept ReadersAgree EndpointsTellTheTruth
CHECK_DEADLOCK FALSE
SYMMETRY MCSymmetry
