SPECIFICATION Spec
CONSTANTS
  Node <- Chain
  NoNode <- None
  Kind <- ChainKind
  Kids <- ChainKids
  Root = "root"
  OnExit <- None
  Limit <- ChainLimit
  Daemon = {}
  When <- ChainWhen
  Unresolvable = {}
  ValidSpec = TRUE
  NumClaims = 2
  InSync = TRUE
  MaxLag = 1
  ChannelSize = 2
  Budget <- ClusterFaults
INVARIANTS
  SuccessIsEarned
  ClaimsReleased
PROPERTIES
  ImplementsLifecycle
CHECK_DEADLOCK FALSE
