SPECIFICATION FairSpec
CONSTANTS
  Node <- Broken
  NoNode <- None
  Kind <- BrokenKind
  Kids <- BrokenKids
  Root = "root"
  OnExit = "x"
  Limit <- BrokenLimit
  Daemon = {"b"}
  When <- BrokenWhen
  Unresolvable = {"s"}
  ValidSpec = TRUE
  NumClaims = 1
  InSync = TRUE
  MaxLag = 1
  ChannelSize = 2
  Budget <- AnyFailure
INVARIANTS
  LabelledAfterPersist
PROPERTIES
  EventuallyCompleted
  DaemonsStopped
  CompletedPodsLabelled
CHECK_DEADLOCK FALSE
