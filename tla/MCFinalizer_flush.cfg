CONSTANTS
  Size <- TxSizes
  BlockRes = 1
  Deployments <- OneTx
  MaxDepth = 6
SPECIFICATION FairSpec
PROPERTY ProcessedIsStored
CHECK_DEADLOCK FALSE
