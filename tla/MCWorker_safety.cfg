CONSTANTS
  Addrs = {"a", "b"}
  Txs = {"a0", "a0dear", "a0cheap", "a1", "a1dear", "a1more", "b0", "b0pay"}
  From <- TxFrom
  To <- TxTo
  Nonce <- TxNonce
  GasPrice <- TxGasPrice
  Fee <- TxFee
  Cost <- TxCost
  Value <- TxValue
  Funds <- TxFunds
  Deployments <- AllDeployments
SPECIFICATION Spec
INVARIANTS QueuesConsistent NonceFollows NoTxLost
PROPERTY SelectedIsFinal
CHECK_DEADLOCK FALSE
