SPECIFICATION Spec
CONSTANTS
    Parts = {"claims", "state", "config", "direct", "apart", "zero", "config_moves", "sacs", "classic", "tokens", "authored", "deposits"}
    Routers = {r}
    Old = {old}
    Pairs = {a1}
    Configs = {cfg}
    Factory = factory
    Others = {other}
    Planes = {p1}
    Tokens = {t1, t2}
    FirstToken = t1
    Archived = {r, a1}
    MaxAmount = 2
    MaxLedger = 3
    MaxTx = 2
INVARIANTS
    PoolsTypeOK
    RegistryIsGenuine
    ServedIsCurrent
    RowsAreMovements
    NetIsFlow
PROPERTIES
    NothingLost
CHECK_DEADLOCK FALSE
