SPECIFICATION Spec
CONSTANTS
    Parts = {"transactions", "ledgers", "entity_transactions", "contract_events", "nft_transfers", "assets", "pools", "accounts", "participants", "contracts", "nfts", "classic_activity", "soroban_activity", "rounds", "decompile", "sponsors", "verified", "search"}
INVARIANTS
    ListsTypeOK
    WalkSeesAll
    ShownIsTrue
PROPERTIES
    PagesFit
    Answers
CHECK_DEADLOCK FALSE
