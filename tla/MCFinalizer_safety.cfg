CONSTANTS
  Size <- TxSizes
  BlockRes = 1
  Deployments <- AllDeployments
  MaxDepth = 6
SPECIFICATION Spec
INVARIANTS ChainIsConsistent ImFollowsFinal StoredIsFlushed DownOnlyWithoutRoom
PROPERTY ClosedIsFinal
CHECK_DEADLOCK FALSE
