SPECIFICATION FairSpec
CONSTANTS
    Writers = {s1, s2}
    Ledgers <- MCLedgers
    NumTables = 1
    StagedIn <- MCStagedIn
    First = 3
    Last = 4
    PublicLake = TRUE
    Concurrency = 2
    Retries = 0
    MaxReceive = 1
    MaxFaults = 1
INVARIANTS
    NoGaps
PROPERTIES
    ImplementsFairLog
    Drains
