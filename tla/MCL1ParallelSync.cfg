CONSTANTS
  NumWorkers = 2
  Genesis = 2
  MaxBlock = 5
  Amount = 1
  Capacity = 2
  UnsafeDistance = 96
  Deployments <- AllDeployments
SPECIFICATION FairSpec
INVARIANTS NothingSkipped NeverFatal
PROPERTIES AllStored
CHECK_DEADLOCK FALSE
