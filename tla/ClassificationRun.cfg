SPECIFICATION Spec
CONSTANTS
    NumCandidates = 2
    Predicates = {p}
    Jobs = {job}
    Importers = {import1, import2}
    MaxStarts = 3
    p = p
    job = job
    import1 = import1
    import2 = import2
INVARIANTS RecordsAgree
PROPERTIES ImplementsResults
CHECK_DEADLOCK FALSE
