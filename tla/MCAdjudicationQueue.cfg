SPECIFICATION Spec
CONSTANTS
    NumShards = 4
    Sessions = 2
    MaxFailures = 2
    MaxRuns = 4
INVARIANTS
    FailuresStopQueue
    DoneShardsAreReused
    OnlyReviewedRecorded
PROPERTIES
    ReviewedDecisionIsKept
    ImplementsLedger
CONSTRAINT
    Followed
CHECK_DEADLOCK FALSE
