SPECIFICATION Spec
CONSTANTS
    MaxActive = 2
    ChunkSize = 1
    BatchSize = 1
    Concurrency = 1
    Free = Free
    Environments <- OnlyPolled
INVARIANTS EndedMeansProcessed
CHECK_DEADLOCK FALSE
