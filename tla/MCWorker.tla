------------------------------ MODULE MCWorker ------------------------------
(* Instances of Worker: a table of transactions of two senders, of which a   *)
(* configuration picks some.                                                 *)
EXTENDS Worker

Tx(from, to, nonce, price, fee, cost, value) ==
  [from |-> from, to |-> to, nonce |-> nonce, price |-> price,
   fee |-> fee, cost |-> cost, value |-> value]

\* a0, a1 and b0 cost little; a0dear replaces a0, a1more replaces a1dear and they
\* cost all that a has; a0cheap passes the pool by its gas limit and loses in the
\* worker by its gas price; b0pay sends money from b to a.
Table(t) ==
  CASE t = "a0"      -> Tx("a", "a", 0, 2, 2, 1, 0)
    [] t = "a0dear"  -> Tx("a", "a", 0, 3, 3, 3, 0)
    [] t = "a0cheap" -> Tx("a", "a", 0, 1, 3, 3, 0)
    [] t = "a1"      -> Tx("a", "a", 1, 2, 2, 1, 0)
    [] t = "a1dear"  -> Tx("a", "a", 1, 2, 3, 3, 0)
    [] t = "a1more"  -> Tx("a", "a", 1, 3, 4, 3, 0)
    [] t = "b0"      -> Tx("b", "b", 0, 2, 2, 1, 0)
    [] t = "b0pay"   -> Tx("b", "a", 0, 3, 2, 2, 2)

TxFrom == [t \in Txs |-> Table(t).from]
TxTo == [t \in Txs |-> Table(t).to]
TxNonce == [t \in Txs |-> Table(t).nonce]
TxGasPrice == [t \in Txs |-> Table(t).price]
TxFee == [t \in Txs |-> Table(t).fee]
TxCost == [t \in Txs |-> Table(t).cost]
TxValue == [t \in Txs |-> Table(t).value]
TxFunds == [a \in Addrs |-> 3]

Sequencer(txs) == [txs |-> txs, overLimit |-> {}, execErrors |-> FALSE,
                   expiries |-> 0, crashes |-> 0]

\* One tx per nonce, with expiries and a restart; txs that replace each other;
\* failing calls; restarts with a tx over the batch constraints.
OnePerNonce ==
  [Sequencer({"a0", "a1", "b0"}) EXCEPT !.expiries = 2, !.crashes = 1]
Replacing == Sequencer({"a0", "a0dear", "a0cheap", "a1dear", "b0pay"})
Failing == [Sequencer({"a0", "a1"}) EXCEPT !.execErrors = TRUE, !.expiries = 1]
Restarting ==
  [Sequencer({"a0", "a1", "b0pay"}) EXCEPT !.overLimit = {"b0pay"}, !.crashes = 2]
AllDeployments == {OnePerNonce, Replacing, Failing, Restarting}

Paying == {[Sequencer({"a0", "a1", "b0pay"}) EXCEPT !.crashes = 1]}
=============================================================================
