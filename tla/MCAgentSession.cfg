CONSTANTS
  Policies = {"never", "on-failure", "granular-rules", "untrusted"}
  TurnLimit = 2
  Budget = 1
  MaxWire = 2
  MaxAsks = 2
  MaxTokens = 2
  MaxRuns = 2
SPECIFICATION FairSpec
INVARIANTS TurnEndsByItsOwnWord NoTokenCountedTwice
PROPERTIES ServerIsAnswered
CHECK_DEADLOCK FALSE
