SPECIFICATION FairPacing
CONSTANTS
    FirstClosed = 3
    Last = 6
    MaxKeepalives = 1
    MaxFaults = 2
INVARIANTS
    OneChain
    ExpectsNext
PROPERTIES
    StaleChainsEnd
    CatchesUp
