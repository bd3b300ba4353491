SPECIFICATION Spec
CONSTANTS
    NumCandidates = 2
    Predicates = {p}
    Jobs = {job}
    Importers = {}
    MaxStarts = 1
    p = p
    job = job
INVARIANTS PublishedHasNoFailures
CHECK_DEADLOCK FALSE
