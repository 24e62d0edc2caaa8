SPECIFICATION Spec
CONSTANTS
    Issues = {i1}
    RunIds = {r1, r2}
    NoRun = NoRun
    JobIds = {j1, j2}
    AgentLimits = {1}
    MaxTurns = 2
    MaxContinuationTurns = 2
    MaxCleanupRetries = 1
    MaxAttempt = 2
    TimerIds = {t1, t2}
    PromptReschedule = FALSE
SYMMETRY IdSymmetry
INVARIANT OneWorkerPerIssue
