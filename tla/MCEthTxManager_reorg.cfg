SPECIFICATION Spec
CONSTANTS
  seq = seq
  alice = alice
  Ids = {seq}
  Senders = {alice}
  From <- OneSender
  MaxPrice = 1
  MaxBlocks = 2
  MaxReverts = 1
  MaxEmpty = 1
  MaxReorgs = 1
  MaxCrashes = 1
  RpcErrors = TRUE
INVARIANTS HistoryCoversNetwork CopiesAgree
PROPERTY RowsOnlyAdvance
CHECK_DEADLOCK FALSE
