CONSTANTS
  Kinds = {"gitea", "linear", "workpad"}
  Priority <- ThePriority
  LabelsUsed = {"progress", "review", "todo", "done"}
  Active = {"progress", "todo"}
  Terminal = {"done", "canceled"}
  None = None
  PageSize = 2
  MaxPages = 3
  MaxComments = 6
SPECIFICATION Spec
INVARIANTS AuditMatchesServer OneWorkpad
PROPERTIES PostStopWritesDontCount MaskedStopWasAgents
