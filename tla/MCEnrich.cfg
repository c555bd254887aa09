SPECIFICATION FairSpec
CONSTANTS
    Clicks = {r1, r2}
    Readers = {o1}
    Total = 3
    KeyCount = 2
    ChunkSize = 50
    Concurrency = 2
    Raw = Raw
    Free = Free
    Environments <- Weathers
INVARIANTS TypeOK NoLostItem DoneIsEnriched
PROPERTIES EnrichmentSettles
CHECK_DEADLOCK FALSE
