SPECIFICATION FairSpec
CONSTANTS
  seq = seq
  alice = alice
  Ids = {seq}
  Senders = {alice}
  From <- OneSender
  MaxPrice = 1
  MaxBlocks = 4
  MaxReverts = 2
  MaxEmpty = 1
  MaxReorgs = 0
  MaxCrashes = 1
  RpcErrors = FALSE
INVARIANTS AtMostOneSuccess NonceDiscipline
PROPERTIES AddedGetsDone KeepsPromise
CHECK_DEADLOCK FALSE
