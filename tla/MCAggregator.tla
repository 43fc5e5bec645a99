---------------------------- MODULE MCAggregator ----------------------------
(***************************************************************************)
(* Small instances of Aggregator.                                          *)
(***************************************************************************)
EXTENDS Aggregator

TwoSequences == {<<1, 2>>, <<3, 3>>}

Deploy(f, c, r) == [failures |-> f, cleanups |-> c, crashes |-> r]
Failing == Deploy(2, 0, 1)
Cleaning == Deploy(1, 1, 0)
AllDeployments == {Failing, Cleaning}
Slow == {Deploy(0, 1, 0)}
=============================================================================
