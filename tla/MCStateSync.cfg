SPECIFICATION FairSpec
CONSTANTS
  MaxBatch = 3
  MaxL2Blocks <- TwoThenOne
  MaxL1 = 4
  MaxSequence = 2
  MaxForced = 0
  MaxVerify = 0
  MaxReorgs = 0
  MaxDiverge = 1
  MaxFaults = 1
  SyncChunkSize = 1
  ExitsDiffer = FALSE
  ReorgsMidPass = FALSE
  UsesL1Info = {}
INVARIANTS RootsChain RootsAreDurable LastFollowsDB
PROPERTIES CatchesUp
CHECK_DEADLOCK FALSE
