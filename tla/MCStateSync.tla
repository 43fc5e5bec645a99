---------------------------- MODULE MCStateSync ----------------------------
(* Instances of StateSync for TLC.  Batch 1 comes with the genesis block.   *)
EXTENDS StateSync

OneBlock == [b \in 1 .. MaxBatch |-> 1]
TwoThenOne == [b \in 1 .. MaxBatch |-> IF b = 2 THEN 2 ELSE 1]
=============================================================================
