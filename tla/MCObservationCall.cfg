SPECIFICATION Spec
CONSTANTS
    root = root
    child = child
    WorkItems = {root, child}
    NoParent = noparent
    Parent <- MCParent
    MaxAttempts = 2
    MaxFetches = 2
    Traced = {child}
INVARIANTS ResolvedInTimeIsComplete
PROPERTIES SettledByAudit AssessmentsKept
CHECK_DEADLOCK FALSE
