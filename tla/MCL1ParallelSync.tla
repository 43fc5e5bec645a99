-------------------------- MODULE MCL1ParallelSync --------------------------
(***************************************************************************)
(* Small instances of L1ParallelSync.                                      *)
(***************************************************************************)
EXTENDS L1ParallelSync

\* First and last length of L1, reorgs, failing requests, failing stores.
Deploy(i, b, r, f, s) ==
  [start |-> i, blocks |-> b, reorgs |-> r, failures |-> f, storeErrors |-> s]

\* L1 grows from genesis; the node is three blocks behind, and requests and stores fail;
\* a reorg, and stores fail.
AllDeployments ==
  {Deploy(2, 5, 0, 0, 0), Deploy(5, 5, 0, 1, 1), Deploy(3, 4, 1, 0, 1)}

\* A reorg while a node that is behind catches up.
OneReorg == {Deploy(3, 5, 1, 0, 0)}
=============================================================================
