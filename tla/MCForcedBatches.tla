--------------------------- MODULE MCForcedBatches ---------------------------
(***************************************************************************)
(* Instances of ForcedBatches for TLC.                                     *)
(***************************************************************************)
EXTENDS ForcedBatches

\* Forced batch n is sent in L1 block n: the case in which the block that
\* processForcedBatch looks up is the right one.
SameNumbers == <<1, 2, 3>>

\* One forced batch has txs and the executor fails; or neither.
AllDeployments ==
  {[withTxs |-> {2}, execErrors |-> TRUE, closes |-> 2, crashes |-> 2],
   [withTxs |-> {}, execErrors |-> FALSE, closes |-> 1, crashes |-> 1]}
=============================================================================
