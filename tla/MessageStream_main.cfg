SPECIFICATION FairSpec
CONSTANTS
    Limit = 1
    MaxMsgs = 4
    MaxDrops = 1
    MaxOlder = 1
    None = None
CHECK_DEADLOCK FALSE
INVARIANTS
    NoHole
    KnownIsNewest
    RefetchDelivers
PROPERTIES
    NoSilentDrop
    ResyncSettles
