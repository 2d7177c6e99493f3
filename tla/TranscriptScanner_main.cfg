SPECIFICATION FairSpec
CONSTANTS
    Sessions = {s1, s2}
    Entries = {e1}
    Flushers = {f1, f2}
    NoOne = NoOne
INVARIANTS OnePass FlushIsFresh TailMapped
PROPERTY Delivered
CHECK_DEADLOCK FALSE
