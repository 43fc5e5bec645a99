SPECIFICATION FairSpec
CONSTANTS
  MaxBatch = 6
  Size <- Sizes
  MaxTxSizeForL1 = 2
  Unestimable = {5}
  Upgrades = {0, 3}
  MaxEmpty = 1
  MaxFaults = 2
INVARIANTS VirtualIsTrusted Continues UpgradeIsBoundary AddIsNew
PROPERTY ClosedGetsVirtual
CHECK_DEADLOCK FALSE
