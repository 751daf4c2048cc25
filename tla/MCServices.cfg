SPECIFICATION AllSpec
CONSTANTS
    Runs = 2
    MaxFailures = 2
    PendingMax = 1
    LostAcks = TRUE
    LlmAnswers <- Answers
    Texts <- TextsOfSlots
    Statements <- Queries
    Tables = {1, 2}
    ColumnsOf <- ColumnsOfTable
    MaxLocalFixes = 2
    MaxGenerates = 2
    PiiMasking = TRUE
    Phase2Enabled = TRUE
    Stopwords = {"the"}
    Seen = {t1, t2}
    MaxSteps = 2
    MaxStatements = 2
    Written <- AllStatements
    MaxDepth = 1
    SeekDepth = 3
    Databases = {"BDP", "TEST"}
    PoolBackend = TRUE
    RedisBackend = TRUE
    Reranking = TRUE
    Quantize = TRUE
    MaxChanges = 2
    MaxStarts = 2
    Limits = {2000, 40000}
    MaxCompletion = 32768
    MaxPieces = 3
    Parts = {"MessageStore", "Normalizer", "Validation", "Insight", "Formatter", "Connections", "LlmClient"}
INVARIANTS
    ReturnedRowIsOwn
    HistoryIsRead
    NothingLost
    NormalizedQueryHolds
    OnlyRunSqlPasses
    AccountsAreTrue
    PlainIsKept
    ConnectionsHold
    LlmCallHolds
SYMMETRY SeenSymmetry
