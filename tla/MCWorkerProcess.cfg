CONSTANTS
  w1 = w1
  w2 = w2
  Versions = {1, 2, 3, 4}
  Valid = {1, 2}
  Missing = 4
  Port <- ThePort
  Off = 0
  None = none
  Workers = {w1, w2}
  Worlds <- TheWorlds
SPECIFICATION FairSpec
INVARIANTS DrainedMeansNoAgent
PROPERTIES RefreshRunsAPoll ServerFollowsConfig EditIsApplied
CHECK_DEADLOCK FALSE
