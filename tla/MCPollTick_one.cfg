CONSTANTS
    i1 = i1
    i2 = i2
    Issues = {i1}
    Key <- TheKey
    Rows <- AllRows
    Limit = 1
SPECIFICATION FairSpec
PROPERTIES
    ReleaseHasEvidence
    StartedWasWorkable
    TickFollowsLifecycle
    LeftIsReleased
    
