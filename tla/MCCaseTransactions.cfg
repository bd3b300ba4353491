SPECIFICATION CaseSpec
CONSTANTS
    Items = {root, child}
    Root = root
    CaseHypotheses = {hypothesis}
    Actions = {action1, action2}
    Operations = {operation}
    Artifacts = {artifact}
    Clients = {client1, client2}
    BirthStatuses = {"ready"}
    MaxDelta = 2
    MaxVersion = 5
    root = root
    child = child
    hypothesis = hypothesis
    action1 = action1
    action2 = action2
    operation = operation
    artifact = artifact
    client1 = client1
    client2 = client2
INVARIANTS OperationsObservedOnce JournalTellsRevisions
PROPERTIES DecisionsResolveUpwards
CHECK_DEADLOCK FALSE
SYMMETRY Symmetry
