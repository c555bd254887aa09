SPECIFICATION FairSpec
CONSTANTS
    Callers <- AllCallers
    InWorker <- OfTheWorker
    Documents <- Doc
    Absent = Absent
    Total = 1
    Environments <- Weathers
INVARIANTS TypeOK PreparedUnlessOverlapped DeletedIsGone
PROPERTIES PrepareSettles
CHECK_DEADLOCK FALSE
