SPECIFICATION Spec
CONSTANTS
    Articles = {a, b}
    NoArticle = none
    MaxCycles = 2
    MaxActions = 1
    MaxToolCalls = 3
SYMMETRY ArticleSymmetry
INVARIANTS StartsAreAllowed ReadyHasItsTexts
PROPERTIES CompletedIsHistory
CHECK_DEADLOCK FALSE
