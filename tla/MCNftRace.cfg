SPECIFICATION Spec
CONSTANTS
    Parts = {"reclassify_live"}
    c1 = c1
    c2 = c2
    Contracts = {c1}
    LedgerKinds = {"upload", "deploy", "emit", "uploadDeploy", "deployEmit"}
    Writers = {"live"}
    LiveDuring = {"reclassify"}
    MaxLedger = 4
    MaxBatch = 1
    MaxFailures = 1
    AssetKeys = {}
    NftKeys = {1, 2}
    ContractOf <- OneContract
    BatchSize = 1
    ChunkSize = 1
    MaxReceive = 2
    Drains = {"Untried", "Sentinels", "All", "CollectionName"}
    Beside = FALSE
    MaxDrains = 2
    MaxMessages = 0
    MaxWrites = 9
    MaxFaults = 1
    MaxChanges = 1
INVARIANT
    NothingIsLost
CHECK_DEADLOCK FALSE
