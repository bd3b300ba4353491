SPECIFICATION FairSpec
CONSTANTS
    MaxCycles = 2
    MaxSets = 2
    FetchCapacity = 2
    MaterialCapacity = 1
    MaxRequests = 3
    WallTime = 3
    Reserve = 1
    CloseReserve = 1
    MinNextCycle = 1
    MaxBatch = 2
    ReviewerEnabled = TRUE
    MaxRevisions = 0
PROPERTIES Termination
CHECK_DEADLOCK FALSE
