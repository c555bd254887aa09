SPECIFICATION Spec
CONSTANTS
    Callers <- AllCallers
    InWorker <- OfTheWorker
    Documents <- Doc
    Absent = Absent
    Total = 1
    Environments <- OnlyHeartbeat
INVARIANT PreparedIsKept
CHECK_DEADLOCK FALSE
