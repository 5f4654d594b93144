SPECIFICATION FairSpec
CONSTANTS
  Sidecar = {"s"}
  Template <- AllKinds
  Budget <- SomeFaults
  Attempts = 5
  MaxFeed = 2
INVARIANTS TypeOK SuccessHasOutputs StoppedForReason SuccessWasShown
PROPERTIES ExecutorEnds CancelIsNoticed SidecarsTold ResourceWaitEnds
CHECK_DEADLOCK FALSE
