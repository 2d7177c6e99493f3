SPECIFICATION FairSpec
CONSTANTS
    MaxBatchSize = 2
    MaxQueueBytes = 3
    MaxEnvelopes = 5
    MaxCrashes = 1
    MaxExits = 1
    Nil = Nil
CHECK_DEADLOCK FALSE
INVARIANTS
    TypeOK
    InOrderOnce
    AtMostOnce
    NothingLost
PROPERTY QueuedDelivered
