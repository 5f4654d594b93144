SPECIFICATION Spec
CONSTANTS
  Node <- Single
  NoNode <- None
  Kind <- SingleKind
  Kids <- SingleKids
  Root = "a"
  OnExit <- None
  Limit <- SingleLimit
  Daemon = {}
  When <- SingleWhen
  Unresolvable = {}
  ValidSpec = FALSE
  NumClaims = 0
  InSync = FALSE
  MaxLag = 2
  ChannelSize = 2
  Budget <- ManyFaults
INVARIANTS
  InvalidRunsNothing
CHECK_DEADLOCK FALSE
