CONSTANTS
    Issues = {i1}
    RunIds = {r1, r2}
    NoRun = NoRun
    JobIds = {j1, j2}
    AgentLimits = {2}
    MaxTurns = 2
    MaxContinuationTurns = 2
    MaxCleanupRetries = 1
    MaxAttempt = 2
    TimerIds = {t1, t2}
    PromptReschedule = TRUE
SYMMETRY IdSymmetry
SPECIFICATION Spec
INVARIANTS
    IInv
    OneWorkerPerIssue
    CleanupIsExclusive
    ClaimHasDriver
    LatchedStaysStopped
    TurnBudgetHeld
PROPERTIES
    ImplementsLifecycle
