SPECIFICATION Spec
CONSTANTS
    Parts = {"late_sac"}
    Routers = {r}
    Old = {old}
    Pairs = {a1}
    Configs = {cfg}
    Factory = factory
    Others = {other}
    Planes = {p1}
    Tokens = {t1, t2}
    FirstToken = t1
    Archived = {r, a1}
    MaxAmount = 2
    MaxLedger = 3
    MaxTx = 2
INVARIANT
    RowsAreMovements
CHECK_DEADLOCK FALSE
