CONSTANTS
  BlockNumber <- SameNumbers
  Finality = 1
  MaxL1Block = 4
  Deployments <- AllDeployments
SPECIFICATION FairSpec
INVARIANTS ForcedInOrder NoneLost
 
CHECK_DEADLOCK FALSE
