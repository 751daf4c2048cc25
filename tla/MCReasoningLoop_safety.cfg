SPECIFICATION Spec
CONSTANTS
    MaxToolCalls = 3
    MaxReplans = 2
    MaxGenerates = 3
    MaxLocalFixes = 4
    MaxAskUserRounds = 1
    ForceAfterReplans = 1
    MaxPlanSteps = 2
    Systems = {s1, s2}
    Connectors = {s1, s2}
    TargetDbCode = noDb
    NoDb = noDb
    Sqls = {q1, q2}
    NoSql = noSql
    Layer2bEnabled = TRUE
    CancelStoreMayFail = TRUE
PROPERTY ContractKept
INVARIANTS
    TypeOK
    ExecutedSqlIsValidated
    TargetFollowsSelection
    ExplorationWithinBudget
    FailureIsFinal
    RegenerateRecoversAfterLocalFixes
    GenerateLimitNeedsForce
