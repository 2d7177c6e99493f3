SPECIFICATION HeaderFairSpec
CONSTANTS
    Rows = {session}
    Patchable = {session}
    Fields = {status, metadata}
    NEngines = 2
    MaxSeq = 3
    MaxDrops = 1
    Absent = Absent
CHECK_DEADLOCK FALSE
INVARIANTS
    RefetchDelivers
PROPERTIES
    NoSilentDrop
    ResyncSettles
