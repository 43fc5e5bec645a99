----------------------------- MODULE MCFinalizer -----------------------------
(***************************************************************************)
(* Instances of Finalizer for TLC.                                         *)
(***************************************************************************)
EXTENDS Finalizer

TxSizes == [a |-> 2, b |-> 2, x |-> 4, y |-> 4]

Node(txs, maxRes, maxTxs, times) ==
  [txs |-> txs, maxRes |-> maxRes, threshold |-> 0, maxTxs |-> maxTxs, buffer |-> 1,
   sequential |-> TRUE, storeErrors |-> FALSE, timeouts |-> times, crashes |-> 0]

\* Block times and batch deadlines; a restart at any point; txs that do not fit
\* into the rest of a batch; blocks that cannot be stored, with the sanity check
\* in parallel; batches whose resources run out, with room for an L2 block and
\* without; a restart on a batch that holds more than a batch may.
Timeouts == Node({"a", "b"}, 10, 2, 2)
Restarts == [Node({"a", "b"}, 10, 1, 1) EXCEPT !.crashes = 1]
TightFit == [Node({"x", "y"}, 8, 3, 1) EXCEPT !.buffer = 2]
StoreFailures ==
  [Node({"a", "b"}, 10, 1, 1) EXCEPT !.storeErrors = TRUE, !.sequential = FALSE]
Exhaustion == [Node({"a"}, 6, 2, 3) EXCEPT !.threshold = 1]
NoRoom == Node({"a"}, 5, 2, 2)
Overfull == [Node({"a"}, 2, 2, 1) EXCEPT !.crashes = 1]

AllDeployments == {Timeouts, Restarts, TightFit, StoreFailures, Exhaustion, NoRoom, Overfull}

\* One tx, one batch of one tx.
OneTx == {Node({"a"}, 10, 1, 0)}
=============================================================================
