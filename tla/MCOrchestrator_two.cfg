SPECIFICATION Spec
CONSTANTS
    Issues = {i1, i2}
    RunIds = {r1}
    NoRun = NoRun
    JobIds = {}
    AgentLimits = {1, 2}
    MaxTurns = 1
    MaxContinuationTurns = 1
    MaxCleanupRetries = 0
    MaxAttempt = 1
    TimerIds = {t1}
    PromptReschedule = TRUE
SYMMETRY IssueSymmetry
PROPERTIES
    AgentLimitRespected
