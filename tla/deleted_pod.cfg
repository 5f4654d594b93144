SPECIFICATION FairSpec
CONSTANTS
  Node <- Pair
  NoNode <- None
  Kind <- PairKind
  Kids <- PairKids
  Root = "root"
  OnExit <- None
  Limit <- PairLimit
  Daemon = {}
  When <- PairWhen
  Unresolvable = {}
  ValidSpec = TRUE
  NumClaims = 0
  InSync = TRUE
  MaxLag = 1
  ChannelSize = 2
  Budget <- OneDeletion
PROPERTIES
  DeletedPodsNoticed
CHECK_DEADLOCK FALSE
