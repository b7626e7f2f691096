SPECIFICATION Spec
CONSTANTS
    Parts = {"busy_contract"}
INVARIANT
    WalkSeesAll
CHECK_DEADLOCK FALSE
