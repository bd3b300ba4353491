SPECIFICATION Spec
CONSTANTS
    MaxCycles = 2
    MaxSets = 2
    FetchCapacity = 2
    MaterialCapacity = 9
    MaxRequests = 3
    WallTime = 4
    Reserve = 1
    CloseReserve = 1
    MinNextCycle = 2
    MaxBatch = 2
    ReviewerEnabled = TRUE
    MaxRevisions = 1
INVARIANTS TypeOK RequestsAnswered FetchesWithinCapacity OneSetPerCycle OneRevisionPerCycle
PROPERTIES AnswerAfterIntegration RunRefinement BoundaryEvaluated DegradedRunsNoTools
CHECK_DEADLOCK FALSE
