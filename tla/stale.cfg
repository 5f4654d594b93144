SPECIFICATION Spec
CONSTANTS
  Node <- Chain
  NoNode <- None
  Kind <- ChainKind
  Kids <- ChainKids
  Root = "root"
  OnExit <- None
  Limit <- ChainLimit
  Daemon = {}
  When <- ChainWhen
  Unresolvable = {}
  ValidSpec = TRUE
  NumClaims = 0
  InSync = FALSE
  MaxLag = 2
  ChannelSize = 2
  Budget <- OneOfEach
INVARIANTS
  TypeOK
  LabelledAfterPersist
  SuccessIsEarned
PROPERTIES
  StepsInOrder
CHECK_DEADLOCK FALSE
