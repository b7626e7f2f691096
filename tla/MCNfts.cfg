SPECIFICATION Spec
CONSTANTS
    Parts = {"routing", "upgrades", "worker", "drain", "both", "beside", "fetcher"}
    c1 = c1
    c2 = c2
    Contracts = {c1}
    LedgerKinds = {"upload", "deploy", "emit", "uploadDeploy", "deployEmit"}
    Writers = {"live", "run"}
    LiveDuring = {}
    MaxLedger = 4
    MaxBatch = 2
    MaxFailures = 1
    AssetKeys = {}
    NftKeys = {1, 2}
    ContractOf <- OneContract
    BatchSize = 1
    ChunkSize = 1
    MaxReceive = 2
    Drains = {"Untried", "Sentinels", "All", "CollectionName"}
    Beside = FALSE
    MaxDrains = 2
    MaxMessages = 0
    MaxWrites = 9
    MaxFaults = 1
    MaxChanges = 1
INVARIANTS
    NothingIsLost
    VerdictsSettle
PROPERTIES
    ValuesKept
    ReportsAreTrue
    AttemptsEnd
CHECK_DEADLOCK FALSE
