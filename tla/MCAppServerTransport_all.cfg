CONSTANTS
    MaxLines = 7
    StdoutCap = 1
    StdinCap = 1
    BacklogCap = 2
    LongLines = TRUE
SPECIFICATION FairSpec
INVARIANTS
    NoLineLost
    OutcomeNamesTheCause
PROPERTIES
    ReplyGetsThrough
    RunReturns
    OutputKeepsFlowing
CHECK_DEADLOCK FALSE
