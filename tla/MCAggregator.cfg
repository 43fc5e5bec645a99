CONSTANTS
  Provers = {p1, p2}
  Sequences <- TwoSequences
  Deployments <- AllDeployments
SPECIFICATION FairSpec
INVARIANTS RowsDisjoint NoDoubleWork FinalProofIsNext
PROPERTY AllVerified
CHECK_DEADLOCK FALSE
