SPECIFICATION AllSpec
CONSTANTS
    ClarificationMaxTurns = 2
    NormalizationEnabled = TRUE
    AmbiguityTypes = {"FORMULA", "CONTEXT"}
    ParseRetries = 2
    MaxChunks = 2
    Letters = {"<", "/", ">", "a"}
    MaxText = 6
    MaxChunk = 2
    StreamingDisabled = FALSE
    TraceEnabled = FALSE
    Cases = {1, 2, 3, 4}
    Manuals = {1, 2, 3}
    Blank = {2}
    TopK = 2
    PrefetchLimit = 3
    MaxPrefetch = 4
    ManualTopK = 1
    ManualMaxLimit = 2
    Thresholds = {0, 3}
    MinCandidates = 2
    MaxCalls = 3
    MaxSearches = 3
    Words = {"k", "l", "s"}
    Short = {"s"}
    MaxDocs = 4
    MaxValue = 4
    Hits = {1, 2, 3}
    MaxRows = 4
    Size = 2
    MaxPage = 2
    DateLimit = 3
    Recent = 2
INVARIANTS
    ReasonHasQuery
    AnswerIsComplete
    CutsDoNotMatter
    AnsweredOnce
    SearchesGoOn
PROPERTIES
    ReturnsToAsker
    EveryPartMovesOn
