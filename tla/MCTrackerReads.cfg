CONSTANTS
  Kinds = {"linear", "gitea", "github"}
  Issues = {1, 2, 3}
  Values <- TheValues
  Wanted <- TheWanted
  Terminal = {"done"}
  Native <- TheNative
  Body <- TheBody
  Foreign = {1}
  Claimable = {2}
  PageSize = 1
  MaxPages = 2
  MaxEdits = 1
SPECIFICATION Spec
INVARIANTS AbsentHasEvidence QuietListingIsExact 
