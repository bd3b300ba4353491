SPECIFICATION AnswerSpec
CONSTANTS
    Listing <- MCListing
    ArticleOf <- MCArticleOf
    DocumentOf <- MCDocumentOf
    Laws = {"L", "M"}
    Coverage <- MCCoverage
    Links <- MCLinks
    SiblingCue = {"b1"}
    Explains <- MCExplains
    Queries = {"broad", "focused", "follow"}
    MaxQueryRank = 3
    RrfK = 2
    TopK = 3
    CandidateTopK = 3
    MaxPaths = 3
    PerArticle = 1
    PinSlack = 1
    MaxTrusted = 2
    MaxPinned = 2
    Questions <- MCQuestions
    Plans <- MCPlans
    Focused <- MCFocused
    Found <- MCFound
    InLaw <- MCInLaw
    FollowUps <- MCFollowUps
    NamedIn <- MCNamedIn
    Referring = {"b1"}
    Evidence <- MCEvidence
    Assembled <- MCEvidence
    MaxTotalToolCalls = 5
    MaxRetryRounds = 1
    RerankTop = 4
    CitationTopK = 2
    MaxExplained = 1
    AspectPerQuery = 2
    MaxAspects = 2
    MaxFollowAspects = 1
    MaxRounds = 2
    MaxMoved = 1
INVARIANTS NamedReachesAnswer SupportedIsReturned CitedIsReturned
CHECK_DEADLOCK FALSE
