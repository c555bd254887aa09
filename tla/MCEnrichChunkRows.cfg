SPECIFICATION Spec
CONSTANTS
    Clicks = {r1}
    Readers = {}
    Total = 3
    KeyCount = 2
    ChunkSize = 50
    Concurrency = 2
    Raw = Raw
    Free = Free
    Environments <- Undisturbed
INVARIANTS EndedChunksAreTerminal
CHECK_DEADLOCK FALSE
