CONSTANTS
  Procs = {p1, p2}
  Roots = {ra, rb}
  Issues = {i1}
  NoRun = NoRun
  NoRoot = NoRoot
  RunnerErrors = {"deadline"}
SPECIFICATION FairSpec
INVARIANTS LiveWorkspaceIsSafe
PROPERTIES SweepHasEvidence 
CHECK_DEADLOCK TRUE
