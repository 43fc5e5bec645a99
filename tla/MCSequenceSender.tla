-------------------------- MODULE MCSequenceSender --------------------------
(* Instance of SequenceSender for TLC. *)
EXTENDS SequenceSender

\* Batch 4 is large; two batches of size 1 fit in a transaction, batch 4 alone.
Sizes == [b \in Batches |-> IF b = 4 THEN 2 ELSE 1]
=============================================================================
