SPECIFICATION Spec
CONSTANTS
    Corpora = {"old", "new"}
    Docs <- MCDocs
    Links <- MCLinks
    Law <- MCLaw
    Scenarios = {"new"}
    Requests = {r1, r2}
    MaxSeeds = 2
    MaxReads = 1
    Tasks = {t1, t2}
    BulkSize = 2
    MaxTasks = 3
    Run = Run
    None = None
SYMMETRY ActorSymmetry
INVARIANTS SuccessIsWhole LoadIsExact ServedIsSeeded
CONSTRAINTS CacheBesideSeeds TwoBesideEachOther
CHECK_DEADLOCK FALSE
