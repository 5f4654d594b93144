SPECIFICATION Spec
CONSTANTS
  Node <- Retried
  NoNode <- None
  Kind <- RetriedKind
  Kids <- RetriedKids
  Root = "r"
  OnExit = "x"
  Limit <- RetriedLimit
  Daemon = {}
  When <- RetriedWhen
  Unresolvable = {}
  ValidSpec = TRUE
  NumClaims = 0
  InSync = TRUE
  MaxLag = 1
  ChannelSize = 1
  Budget <- CrashAndSlow
INVARIANTS
  RetriesBounded
  NoneForgotten
PROPERTIES
  RetriesSequential
  OnExitLast
CHECK_DEADLOCK FALSE
