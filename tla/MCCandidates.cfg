CONSTANTS
    Issues = {i1, i2, i3}
    Priorities = {0, 1, 4, 7}
    Created = {0, 1}
SYMMETRY IssueSymmetry
SPECIFICATION OrderSpec
INVARIANTS
    PlacedByRank
    OverflowIsRedundant
CHECK_DEADLOCK FALSE
