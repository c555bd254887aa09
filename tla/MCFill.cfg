SPECIFICATION FairSpec
CONSTANTS
    MaxActive = 3
    ChunkSize = 2
    BatchSize = 2
    Concurrency = 2
    Free = Free
    Environments <- Weathers
INVARIANTS TypeOK NoLostCount JobsEndTruly DoneMeansProcessed DoneMeansNoneFailed
PROPERTIES VerdictIsFinal FillSettles
CHECK_DEADLOCK FALSE
