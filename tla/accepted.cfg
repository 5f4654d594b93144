SPECIFICATION Spec
CONSTANTS
  nil = nil
  NoValue = nil
  FieldName <- GoodNames
  Workflows <- MCWorkflows
  Repository = "none"
  MaxDepth = 3
INVARIANTS VisitedOnce EveryCallChecked  ArtifactsReachMain
CHECK_DEADLOCK FALSE
