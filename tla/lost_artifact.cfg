SPECIFICATION Spec
CONSTANTS
  nil = nil
  NoValue = nil
  FieldName <- GoodNames
  Workflows <- MCPods
  Repository = "none"
  MaxDepth = 3
INVARIANT NoArtifactLost
CHECK_DEADLOCK FALSE
