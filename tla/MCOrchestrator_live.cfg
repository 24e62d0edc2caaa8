SPECIFICATION FairSpec
CONSTANTS
    Issues = {i1}
    RunIds = {r1}
    NoRun = NoRun
    JobIds = {j1}
    AgentLimits = {1}
    MaxTurns = 1
    MaxContinuationTurns = 2
    MaxCleanupRetries = 1
    MaxAttempt = 1
    TimerIds = {t1, t2}
    PromptReschedule = TRUE
PROPERTIES
    RetryIsConsidered
    ReservationEnds
    StopIsFinal
