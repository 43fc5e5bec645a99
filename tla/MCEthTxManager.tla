--------------------------- MODULE MCEthTxManager ---------------------------
(* Instances of EthTxManager for TLC. *)
EXTENDS EthTxManager

CONSTANTS seq, alice

\* All owners send from one account.
OneSender == [i \in Ids |-> alice]
=============================================================================
