SPECIFICATION Spec
CONSTANTS
    MaxToolCalls = 2
    MaxReplans = 2
    MaxGenerates = 0
    MaxLocalFixes = 2
    MaxAskUserRounds = 1
    ForceAfterReplans = 1
    MaxPlanSteps = 1
    Systems = {s1, s2}
    Connectors = {s1}
    TargetDbCode = noDb
    NoDb = noDb
    Sqls = {q1}
    NoSql = noSql
    Layer2bEnabled = TRUE
    CancelStoreMayFail = FALSE
PROPERTIES
    LoopGuardEndsTurn
    FixLoopIsLeft
    CancelledOutsideFixLoopEnds
    NoWorkAfterCancel
