SPECIFICATION Spec
CONSTANTS
    Parts = {"shared"}
    s = s
    a = a
    b = b
    d1 = d1
    Writers = {s, a, b}
    Runs = {a, b}
    Live = {s}
    Ledgers <- MCLedgers
    NumTables = 2
    StagedIn <- MCStagedIn
    PartitionSize = 2
    FirstClosed = 3
    Asked <- Disjoint
    TempDir <- MCTempDir
    Reindex = {}
    KeepPartitions = {}
    First = 3
    Last = 5
    PublicLake = FALSE
    Concurrency = 1
    Retries = 0
    MaxReceive = 1
    MaxFaults = 2
    MaxRuns = 2
INVARIANT
    DisjointRangesRun
CHECK_DEADLOCK FALSE
