SPECIFICATION Spec
CONSTANTS
    Parts = {"accounts", "changes", "signing", "passes", "holdings", "claims", "state", "pool", "sac_live", "sac_seed", "sac_rekey", "sac_beside",
             "ledger", "trace", "archive", "samples",
             "code", "again", "metadata", "proxy"}
    a = a
    b = b
    d = d
    lp = lp
    t = t
    h = h
    Native = {}
    Lines = {}
    Claims = {b, d}
    Pools = {}
    Amounts = {1}
    Counters = {0}
    CHECKPOINT_FREQUENCY = 3
    Floor = 0
    MaxLedger = 5
    MaxSkips = 1
    MaxReparses = 0
    MaxSeeds = 1
SYMMETRY Symmetry
INVARIANTS
    TablesTypeOK
    RowsAreTrue
    SeedSettles
    NothingMissing
PROPERTIES
    NeverWorse
CHECK_DEADLOCK FALSE
