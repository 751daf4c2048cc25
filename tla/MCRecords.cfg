SPECIFICATION AllSpec
CONSTANTS
    t1 = t1
    t2 = t2
    u1 = u1
    u2 = u2
    Tables = {t1, t2}
    UseCases = {u1, u2}
    TablesOf <- TablesOfCase
    Conns = {c1, c2, c3}
    Sessions = {s1, s2}
    SessionOf <- ThreeConns
    OldThreads <- TwoThreads
    Named = {t2}
    Items = {"output_scope"}
    Scope = "output_scope"
    Queries = {"query"}
    QueryOfTurn = "query"
    MaxToolCalls = 3
    MaxSteps = 3
    Limit = 2
    OldTurns = 3
    MaxTurns = 5
    Channels = {"ws", "rest"}
    Faults = {"history", "seqs", "skip"}
    c1 = c1
    c2 = c2
    c3 = c3
    s1 = s1
    s2 = s2
    MaxCache = 2
    MaxCachedTurns = 4
    Nodes = {"analyzer", "error_end"}
    Shown = {"analyzer"}
    MaxChains = 4
    MaxEvents = 5
    MaxRuns = 2
    Rows = {1, 2}
    BatchSizes = {1, 2}
    MaxClock = 2
    MaxBatches = 2
    MaxPoints = 3
    Threads = {1, 2, 3}
    PageSize = 1
    MaxQuestions = 2
INVARIANTS
    FindingsReachState
    ShownAreOfReference
    DownloadIsNewest
    TraceTellsRun
    IndexFollowsTable
PROPERTIES
    KnowledgeOnlyGrows
CHECK_DEADLOCK FALSE
