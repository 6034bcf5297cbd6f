CONSTANTS
    Proposals <- SmallProposals
    Queries = {"q1", "q2", "q3"}
    Words <- SmallWords
    Items <- SmallItems
    Matches <- SmallMatches
    Score <- SmallScore
    Serial <- SmallSerial
    Size <- SmallSize
    Supports <- SmallSupports
    Admissible = {"i1", "i2", "i4", "i5"}
    Clashes <- SmallClashes
    NoDim = "no_dim"
    MaxDepth = 2
    MaxInitialTasks = 3
    MaxTasks = 4
    MaxChildren = 1
    MaxWorkers = 2
    MaxRetrievals = 3
    MaxAnalyses = 1
    MaxItems = 2
    MaxCharacters = 2
    AllowPartial = TRUE

SPECIFICATION FairSpec

INVARIANTS
    LedgerCountsEveryCall
    SearchesAreNew
    OutcomeIsDetermined

PROPERTIES
    RunsRounds
    EveryResearchEnds

CHECK_DEADLOCK FALSE
