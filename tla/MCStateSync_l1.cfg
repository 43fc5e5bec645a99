SPECIFICATION Spec
CONSTANTS
  MaxBatch = 3
  MaxL2Blocks <- OneBlock
  MaxL1 = 4
  MaxSequence = 2
  MaxForced = 1
  MaxVerify = 2
  MaxReorgs = 1
  MaxDiverge = 0
  MaxFaults = 0
  SyncChunkSize = 1
  ExitsDiffer = TRUE
  ReorgsMidPass = FALSE
  UsesL1Info = {3}
INVARIANTS VirtualIsL1 VerifiedMatches VirtualInSequence
PROPERTIES VirtualIsKept
CHECK_DEADLOCK FALSE
