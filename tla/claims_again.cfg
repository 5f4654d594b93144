SPECIFICATION Spec
CONSTANTS
  Node <- Single
  NoNode <- None
  Kind <- SingleKind
  Kids <- SingleKids
  Root = "a"
  OnExit <- None
  Limit <- SingleLimit
  Daemon = {}
  When <- SingleWhen
  Unresolvable = {}
  ValidSpec = TRUE
  NumClaims = 1
  InSync = TRUE
  MaxLag = 1
  ChannelSize = 2
  Budget <- OneCrash
INVARIANTS
  ClaimsCreatedOnce
CHECK_DEADLOCK FALSE
