SPECIFICATION Spec
CONSTANTS
    Writers = {s1}
    Ledgers <- MCLedgers
    NumTables = 2
    StagedIn <- MCStagedIn
    First = 3
    Last = 5
    PublicLake = FALSE
    Concurrency = 1
    Retries = 1
    MaxReceive = 1
    MaxFaults = 2
INVARIANTS
    LPTypeOK
    OrderInv
    WritesAtCursor
    PublishedIsDurable
PROPERTY ImplementsLog
