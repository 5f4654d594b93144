SPECIFICATION Spec
CONSTANTS
  Node <- Nested
  NoNode <- None
  Kind <- NestedKind
  Kids <- NestedKids
  Root = "root"
  OnExit = "x"
  Limit <- NestedLimit
  Daemon = {}
  When <- NestedWhen
  Unresolvable = {"e0"}
  ValidSpec = TRUE
  NumClaims = 0
  InSync = TRUE
  MaxLag = 1
  ChannelSize = 2
  Budget <- CrashAndSlow
PROPERTIES
  StepsInOrder
  ImplementsLifecycle
CHECK_DEADLOCK FALSE
