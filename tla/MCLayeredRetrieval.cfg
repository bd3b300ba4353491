SPECIFICATION Spec
CONSTANTS
  NoArticle = "none"
  Articles = {"p", "q", "s"}
  Guides = {"g"}
  Cues <- MCCues
  Relations <- MCRelations
  Units <- MCUnits
  Plans <- MCPlans
  MaxRequirements = 3
  ActiveIssues = 1
  MaxChildRelations = 1
  MaxChunks = 2
  MaxChunksPerArticle = 2
  MaxAuxiliaryChunks = 1
  MaxRounds = 1
  MaxArticles = 2
  MaxAccepted = 1
  MaxCandidates = 3
  MaxSearches = 3
  MaxRoundSearches = 2
  MaxGraphCalls = 2
  MaxRoundGraphCalls = 1
  MaxReranks = 2
  MaxRoundReranks = 1
  MaxPairs = 5
  MaxPairsPerCall = 4
INVARIANTS
  AcceptedKeepTheirText
  NamedIsAccepted
  NothingLeftOpen
  CallsWithinLimits
  IncludedIsCovered
