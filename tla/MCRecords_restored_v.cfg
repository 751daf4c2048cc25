SPECIFICATION AllSpec
CONSTANTS
    t1 = t1
    t2 = t2
    u1 = u1
    u2 = u2
    Tables = {t1, t2}
    UseCases = {u1, u2}
    TablesOf <- TablesOfCase
    Conns = {c1, c2, c3}
    Sessions = {s1, s2}
    SessionOf <- ThreeConns
    OldThreads <- TwoThreads
    Named = {t2}
    Items = {"output_scope"}
    Scope = "output_scope"
    Queries = {"query"}
    QueryOfTurn = "query"
    MaxToolCalls = 3
    MaxSteps = 3
    Limit = 2
    OldTurns = 0
    MaxTurns = 2
    Channels = {"ws"}
    Faults = {}
    c1 = c1
    c2 = c2
    c3 = c3
    s1 = s1
    s2 = s2
    MaxCache = 1
    MaxCachedTurns = 1
    Nodes = {"analyzer"}
    Shown = {}
    MaxChains = 0
    MaxEvents = 0
    MaxRuns = 0
    Rows = {1}
    BatchSizes = {1}
    MaxClock = 0
    MaxBatches = 0
    MaxPoints = 0
    Threads = {1, 2}
    PageSize = 1
    MaxQuestions = 0
INVARIANT FreshTurnIsRestored
CHECK_DEADLOCK FALSE
