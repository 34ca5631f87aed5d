SPECIFICATION SystemSpec
CONSTANTS
    None = None
    Ips = {"a", "b", "c"}
    Payloads <- MCPayloads
    Tables <- MCTables
    LastId = 6
    Today = 40
    Retention = 30
    Size = 2
    MaxWrites = 2
    Http = {h1, h2}
    MaxJobs = 2
    JobWrites = 1
INVARIANTS FirewallsAreTold FiguresHold ListsAreComplete FirewallHoldsTheWorst
SYMMETRY MCSymmetry
CHECK_DEADLOCK FALSE
