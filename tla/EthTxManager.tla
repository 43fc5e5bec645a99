---------------------------- MODULE EthTxManager ----------------------------
(***************************************************************************)
(* The L1 transaction manager (ethtxmanager/): rows of monitored L1        *)
(* transactions, the goroutine that monitors each of them, the owner that  *)
(* waits for their results, the synchronizer that reports L1 reorgs, and   *)
(* the L1 network they all talk to.                                        *)
(*                                                                         *)
(* A signed transaction is identified by the fields that change its hash   *)
(* while a row is monitored: the row it was built from, its nonce and its  *)
(* gas price (gas and gas price are one number here, both only ever grow). *)
(***************************************************************************)
EXTENDS Naturals, Sequences, FiniteSets

CONSTANTS
  Ids,        \* identifiers (owner, id) of the monitored transactions
  Senders,    \* L1 accounts
  From,       \* From[i]: the account that signs the transactions of row i
  MaxPrice,   \* highest gas price the L1 suggests
  MaxBlocks,  \* bound on the length of the L1 chain
  MaxReverts, \* bound on the transactions of the node that revert on L1
  MaxEmpty,   \* bound on the blocks without a transaction of the node
  MaxReorgs,  \* bound on the number of L1 reorgs
  MaxCrashes, \* bound on the number of restarts of the node
  RpcErrors   \* may calls to the L1 node fail or lose their answer?

ASSUME ConstantsAssumption ==
  /\ From \in [Ids -> Senders]
  /\ MaxPrice \in Nat /\ MaxBlocks \in Nat /\ MaxReverts \in Nat /\ MaxEmpty \in Nat
  /\ MaxReorgs \in Nat /\ MaxCrashes \in Nat
  /\ RpcErrors \in BOOLEAN

Status == {"none", "created", "sent", "failed", "confirmed", "reorged", "done"}
Monitored == {"created", "sent", "reorged"}   \* what monitorTxs loads

Tx == [id : Ids, nonce : Nat, price : Nat]
NoBlock == 0                                  \* a NULL block_num

ReceiptStatus == {"successful", "failed"}
Row == [status : Status, nonce : Nat, price : Nat, hist : SUBSET Tx, block : Nat]
NoRow == [status |-> "none", nonce |-> 0, price |-> 0, hist |-> {}, block |-> NoBlock]
Receipt == [block : Nat, status : ReceiptStatus]
NoReceipt == [block |-> NoBlock, status |-> "failed"]

VARIABLES
  chain,    \* the canonical L1 chain: a sequence of blocks
  net,      \* transactions the L1 network has accepted
  forks,    \* number of L1 reorgs so far
  synced,   \* the L1 blocks the synchronizer has stored in the state
  mtx,      \* state.monitored_txs: one row per identifier
  (* the goroutine running monitorTx on row i *)
  pc,       \* where it is
  mTx,      \* its copy of the row
  todo,     \* transactions of the history it has still to check
  unmined,  \* transactions it found not to be mined
  reverted, \* transactions it found mined with a failed receipt
  receipt,  \* lastReceiptChecked
  (* the owner of row i in ProcessPendingMonitoredTxs *)
  ownPc,    \* where it is
  ownTx,    \* its copy of the row
  crashes   \* number of restarts so far

l1Vars == <<chain, net, forks>>
monVars == <<pc, mTx, todo, unmined, reverted, receipt>>
ownVars == <<ownPc, ownTx>>
vars == <<l1Vars, synced, mtx, monVars, ownVars, crashes>>

-----------------------------------------------------------------------------
(* The L1 network, as the node uses it.                                    *)

\* A block: the fork it belongs to, the transaction of the node it holds if
\* any, the status of its receipt and the account nonces after it.
Block == [fork : Nat, txs : SUBSET Tx, status : ReceiptStatus, acct : [Senders -> Nat]]

Accounts(c) == IF c = <<>> THEN [s \in Senders |-> 0] ELSE c[Len(c)].acct

\* CurrentNonce: the nonce of the account in the latest block.
CurrentNonce(s) == Accounts(chain)[s]

Mined(tx) == \E b \in DOMAIN chain : tx \in chain[b].txs
Succeeded(tx) == \E b \in DOMAIN chain : tx \in chain[b].txs /\ chain[b].status = "successful"
Reverted(tx) == \E b \in DOMAIN chain : tx \in chain[b].txs /\ chain[b].status = "failed"

\* The L1 includes an accepted transaction whose nonce is next.
MineTx ==
  /\ Len(chain) < MaxBlocks
  /\ \E tx \in net, status \in ReceiptStatus :
       /\ tx.nonce = CurrentNonce(From[tx.id])
       /\ status = "failed" =>
            Cardinality({b \in DOMAIN chain : chain[b].status = "failed"}) < MaxReverts
       /\ chain' = Append(chain,
            [fork |-> forks, txs |-> {tx}, status |-> status,
             acct |-> [Accounts(chain) EXCEPT ![From[tx.id]] = @ + 1]])
  /\ UNCHANGED <<net, forks, synced, mtx, monVars, ownVars, crashes>>

\* The L1 adds a block without transactions of the node.
MineEmpty ==
  /\ Len(chain) < MaxBlocks
  /\ Cardinality({b \in DOMAIN chain : chain[b].txs = {}}) < MaxEmpty
  /\ chain' = Append(chain, [fork |-> forks, txs |-> {}, status |-> "successful",
                             acct |-> Accounts(chain)])
  /\ UNCHANGED <<net, forks, synced, mtx, monVars, ownVars, crashes>>

\* The L1 replaces the end of its chain.
ReorgL1 ==
  /\ forks < MaxReorgs
  /\ \E n \in 0 .. Len(chain) - 1 : chain' = SubSeq(chain, 1, n)
  /\ forks' = forks + 1
  /\ UNCHANGED <<net, synced, mtx, monVars, ownVars, crashes>>

-----------------------------------------------------------------------------
(* The synchronizer.                                                       *)

IsPrefix(s, t) == Len(s) <= Len(t) /\ \A b \in DOMAIN s : s[b] = t[b]

\* ProcessBlockRange stores the next L1 block (checkReorg found no reorg).
SyncBlock ==
  /\ IsPrefix(synced, chain)
  /\ Len(synced) < Len(chain)
  /\ synced' = Append(synced, chain[Len(synced) + 1])
  /\ UNCHANGED <<l1Vars, mtx, monVars, ownVars, crashes>>

\* Mutant: the block number is not cleared.
ReorgedKeepBlock(rows, fromBlock) ==
  [i \in Ids |->
     IF rows[i].block # NoBlock /\ rows[i].block >= fromBlock
     THEN [rows[i] EXCEPT !.status = "reorged"]
     ELSE rows[i]]

\* Mutant: the rows are to be sent again.
ReorgedToSent(rows, fromBlock) ==
  [i \in Ids |->
     IF rows[i].block # NoBlock /\ rows[i].block >= fromBlock
     THEN [rows[i] EXCEPT !.status = "sent", !.block = NoBlock]
     ELSE rows[i]]

\* Client.Reorg: every row with a block from fromBlock on becomes reorged.
Reorged(rows, fromBlock) ==
  [i \in Ids |->
     IF rows[i].block # NoBlock /\ rows[i].block >= fromBlock
     THEN [rows[i] EXCEPT !.status = "reorged", !.block = NoBlock]
     ELSE rows[i]]

\* checkReorg and resetState: the state goes back to the last common block
\* and the transaction manager is told, in one database transaction.
ResetState ==
  /\ Len(chain) >= Len(synced)
  /\ ~IsPrefix(synced, chain)
  /\ \E n \in 0 .. Len(synced) - 1 :
       /\ IsPrefix(SubSeq(synced, 1, n), chain)
       /\ synced[n + 1] # chain[n + 1]
       /\ synced' = SubSeq(synced, 1, n)
       /\ mtx' = Reorged(mtx, n + 1)
  /\ UNCHANGED <<l1Vars, monVars, ownVars, crashes>>

-----------------------------------------------------------------------------
(* Client.Add and the goroutines of monitorTxs.                            *)

\* monitoredTx.Tx: the transaction built from the fields of a row.
TxOf(i, row) == [id |-> i, nonce |-> row.nonce, price |-> row.price]

Add(i) ==
  /\ mtx[i].status = "none"
  /\ \E price \in 0 .. MaxPrice :
       mtx' = [mtx EXCEPT ![i] = [status |-> "created", nonce |-> CurrentNonce(From[i]),
                                  price |-> price, hist |-> {}, block |-> NoBlock]]
  /\ UNCHANGED <<l1Vars, synced, monVars, ownVars, crashes>>

\* One cycle of monitorTxs starts when the previous one has finished.
MonitorTxs ==
  LET found == {i \in Ids : mtx[i].status \in Monitored} IN
  /\ found # {}
  /\ \A i \in Ids : pc[i] = "idle"
  /\ pc' = [i \in Ids |-> IF i \in found THEN "check" ELSE "idle"]
  /\ mTx' = [i \in Ids |-> IF i \in found THEN mtx[i] ELSE NoRow]
  /\ todo' = [i \in Ids |-> IF i \in found THEN mtx[i].hist ELSE {}]
  /\ UNCHANGED <<l1Vars, synced, mtx, unmined, reverted, receipt, ownVars, crashes>>

Goto(i, label) == pc' = [pc EXCEPT ![i] = label]

\* storage.Update of the goroutine: the whole row is written from memory.
Update(i, row) == mtx' = [mtx EXCEPT ![i] = row]

\* monitorTx returns.
Return(i) ==
  /\ Goto(i, "idle")
  /\ mTx' = [mTx EXCEPT ![i] = NoRow]
  /\ todo' = [todo EXCEPT ![i] = {}]
  /\ unmined' = [unmined EXCEPT ![i] = {}]
  /\ reverted' = [reverted EXCEPT ![i] = {}]
  /\ receipt' = [receipt EXCEPT ![i] = NoReceipt]

\* CheckTxWasMined on one transaction of the history (in any order).
CheckHistory(i) ==
  /\ pc[i] = "check"
  /\ \E h \in todo[i] :
       \/ /\ \/ RpcErrors /\ UNCHANGED <<unmined, reverted>>
             \/ ~Mined(h) /\ unmined' = [unmined EXCEPT ![i] = @ \cup {h}] /\ UNCHANGED reverted
             \/ Reverted(h) /\ reverted' = [reverted EXCEPT ![i] = @ \cup {h}] /\ UNCHANGED unmined
          /\ todo' = [todo EXCEPT ![i] = @ \ {h}]
          /\ UNCHANGED <<pc, receipt>>
       \/ \E b \in DOMAIN chain :
            /\ h \in chain[b].txs /\ chain[b].status = "successful"
            /\ receipt' = [receipt EXCEPT ![i] = [block |-> b, status |-> "successful"]]
            /\ Goto(i, "synced")
            /\ UNCHANGED <<todo, unmined, reverted>>
  /\ UNCHANGED <<l1Vars, synced, mtx, mTx, ownVars, crashes>>

\* Mutant: allHistoryTxsWereMined is not required.
NonceToReviewEager(i) == reverted[i] # {}

\* Mutant: the nonce is never reviewed.
NonceToReviewNever(i) == FALSE

\* hasFailedReceipts && allHistoryTxsWereMined: no transaction of the history
\* is expected to succeed any more.
NonceToReview(i) == reverted[i] # {} /\ unmined[i] = {}

\* reviewMonitoredTxNonce.
WithNonce(row, nonce) == IF nonce > row.nonce THEN [row EXCEPT !.nonce = nonce] ELSE row

\* No successful receipt in the history: the nonce is reviewed if need be.
\* A reorged row is left alone after that.
ReviewNonce(i) ==
  /\ pc[i] = "check" /\ todo[i] = {}
  /\ LET row == IF NonceToReview(i) THEN WithNonce(mTx[i], CurrentNonce(From[i])) ELSE mTx[i]
     IN \/ /\ IF NonceToReview(i) THEN Update(i, row) ELSE UNCHANGED mtx
           /\ \/ mTx[i].status = "reorged" /\ Return(i)
              \/ /\ mTx[i].status # "reorged"
                 /\ mTx' = [mTx EXCEPT ![i] = row]
                 /\ Goto(i, "review")
                 /\ UNCHANGED <<todo, unmined, reverted, receipt>>
        \/ RpcErrors /\ NonceToReview(i) /\ UNCHANGED mtx /\ Return(i)
  /\ UNCHANGED <<l1Vars, synced, ownVars, crashes>>

\* reviewMonitoredTx of a row already sent: gas and gas price may rise.
ReviewTx(i) ==
  /\ pc[i] = "review"
  /\ \/ /\ mTx[i].status = "sent"
        /\ \E price \in mTx[i].price .. MaxPrice :
             LET row == [mTx[i] EXCEPT !.price = price]
             IN Update(i, row) /\ mTx' = [mTx EXCEPT ![i] = row]
        /\ Goto(i, "build")
        /\ UNCHANGED <<todo, unmined, reverted, receipt>>
     \/ /\ mTx[i].status # "sent"
        /\ Goto(i, "build")
        /\ UNCHANGED <<mtx, mTx, todo, unmined, reverted, receipt>>
     \/ RpcErrors /\ mTx[i].status = "sent" /\ UNCHANGED mtx /\ Return(i)
  /\ UNCHANGED <<l1Vars, synced, ownVars, crashes>>

\* A row with the transaction built from it in its history (AddHistory).
WithHistory(i, row) == [row EXCEPT !.hist = @ \cup {TxOf(i, row)}]

\* Mutant: the history is not stored before the transaction is sent.
BuildNotStored(i) ==
  /\ pc[i] = "build"
  /\ mTx' = [mTx EXCEPT ![i] = WithHistory(i, mTx[i])]
  /\ Goto(i, "send")
  /\ UNCHANGED <<l1Vars, synced, mtx, todo, unmined, reverted, receipt, ownVars, crashes>>

\* The transaction is rebuilt and signed, and stored in the history before it
\* is sent.
Build(i) ==
  /\ pc[i] = "build"
  /\ Update(i, WithHistory(i, mTx[i]))
  /\ mTx' = [mTx EXCEPT ![i] = WithHistory(i, mTx[i])]
  /\ Goto(i, "send")
  /\ UNCHANGED <<l1Vars, synced, todo, unmined, reverted, receipt, ownVars, crashes>>

\* GetTx, and SendTx when the network does not know the transaction. The L1
\* node refuses a nonce that is already used. Any error of GetTx other than
\* NotFound counts as found.
Send(i) ==
  /\ pc[i] = "send"
  /\ LET tx == TxOf(i, mTx[i])
         goOn(label) == Goto(i, label) /\ UNCHANGED <<mTx, todo, unmined, reverted, receipt>>
     IN \/ (tx \in net \/ RpcErrors) /\ UNCHANGED net /\ goOn("wait")
        \/ /\ tx \notin net /\ tx.nonce >= CurrentNonce(From[i])
           /\ net' = net \cup {tx}
           /\ \/ mTx[i].status = "created" /\ goOn("mark")
              \/ mTx[i].status # "created" /\ goOn("wait")
              \/ RpcErrors /\ Return(i)         \* accepted, but the answer is lost
        \/ /\ tx \notin net /\ (tx.nonce < CurrentNonce(From[i]) \/ RpcErrors)
           /\ UNCHANGED net
           /\ Return(i)
  /\ UNCHANGED <<chain, forks, synced, mtx, ownVars, crashes>>

\* The first send of a row changes its status.
MarkSent(i) ==
  /\ pc[i] = "mark"
  /\ LET row == [mTx[i] EXCEPT !.status = "sent"]
     IN Update(i, row) /\ mTx' = [mTx EXCEPT ![i] = row]
  /\ Goto(i, "wait")
  /\ UNCHANGED <<l1Vars, synced, todo, unmined, reverted, receipt, ownVars, crashes>>

\* WaitTxToBeMined: a failed receipt is an error, a timeout ends the cycle.
WaitTxToBeMined(i) ==
  /\ pc[i] = "wait"
  /\ \/ /\ Succeeded(TxOf(i, mTx[i]))
        /\ Goto(i, "receipt")
        /\ UNCHANGED <<mTx, todo, unmined, reverted, receipt>>
     \/ /\ ~Succeeded(TxOf(i, mTx[i])) \/ RpcErrors
        /\ Return(i)
  /\ UNCHANGED <<l1Vars, synced, mtx, ownVars, crashes>>

\* GetTxReceipt is a second call: the chain may have changed in between.
GetTxReceipt(i) ==
  /\ pc[i] = "receipt"
  /\ \/ \E b \in DOMAIN chain :
          /\ TxOf(i, mTx[i]) \in chain[b].txs
          /\ receipt' = [receipt EXCEPT ![i] = [block |-> b, status |-> chain[b].status]]
          /\ Goto(i, "synced")
          /\ UNCHANGED <<mTx, todo, unmined, reverted>>
     \/ /\ ~Mined(TxOf(i, mTx[i])) \/ RpcErrors
        /\ Return(i)
  /\ UNCHANGED <<l1Vars, synced, mtx, ownVars, crashes>>

\* Mutant: a receipt is confirmed before the state has its block.
CheckSyncedNoWait(i) ==
  /\ pc[i] = "synced"
  /\ mTx' = [mTx EXCEPT ![i] = [@ EXCEPT !.block = receipt[i].block,
       !.status = IF receipt[i].status = "successful" THEN "confirmed" ELSE "failed"]]
  /\ Goto(i, "commit")
  /\ UNCHANGED <<l1Vars, synced, mtx, todo, unmined, reverted, receipt, ownVars, crashes>>

\* A successful receipt waits for the state to reach its block; a failed one
\* is given up unless shouldContinueToMonitorThisTx.
CheckSynced(i) ==
  /\ pc[i] = "synced"
  /\ \/ /\ receipt[i].status = "successful" => Len(synced) >= receipt[i].block
        /\ mTx' = [mTx EXCEPT ![i] = [@ EXCEPT !.block = receipt[i].block,
             !.status = IF receipt[i].status = "successful" THEN "confirmed" ELSE "failed"]]
        /\ Goto(i, "commit")
        /\ UNCHANGED <<todo, unmined, reverted, receipt>>
     \/ /\ receipt[i].status = "successful" => Len(synced) < receipt[i].block
        /\ Return(i)
  /\ UNCHANGED <<l1Vars, synced, mtx, ownVars, crashes>>

\* The last Update of monitorTx.
Commit(i) ==
  /\ pc[i] = "commit"
  /\ Update(i, mTx[i])
  /\ Return(i)
  /\ UNCHANGED <<l1Vars, synced, ownVars, crashes>>

-----------------------------------------------------------------------------
(* ProcessPendingMonitoredTxs, run by the owner of the row.                *)

\* ResultsByStatus returns a confirmed result.
OwnerResult(i) ==
  /\ ownPc[i] = "idle"
  /\ mtx[i].status = "confirmed"
  /\ ownPc' = [ownPc EXCEPT ![i] = "get"]
  /\ UNCHANGED <<l1Vars, synced, mtx, monVars, ownTx, crashes>>

\* setStatusDone reads the row again ...
SetStatusDoneGet(i) ==
  /\ ownPc[i] = "get"
  /\ ownPc' = [ownPc EXCEPT ![i] = "update"]
  /\ ownTx' = [ownTx EXCEPT ![i] = mtx[i]]
  /\ UNCHANGED <<l1Vars, synced, mtx, monVars, crashes>>

\* ... and writes it back, whatever its status was.
SetStatusDoneUpdate(i) ==
  /\ ownPc[i] = "update"
  /\ Update(i, [ownTx[i] EXCEPT !.status = "done"])
  /\ ownPc' = [ownPc EXCEPT ![i] = "idle"]
  /\ ownTx' = [ownTx EXCEPT ![i] = NoRow]
  /\ UNCHANGED <<l1Vars, synced, monVars, crashes>>

\* Nothing but the database survives a restart of the node.
Crash ==
  /\ crashes < MaxCrashes
  /\ crashes' = crashes + 1
  /\ pc' = [i \in Ids |-> "idle"] /\ mTx' = [i \in Ids |-> NoRow]
  /\ todo' = [i \in Ids |-> {}] /\ unmined' = [i \in Ids |-> {}]
  /\ reverted' = [i \in Ids |-> {}] /\ receipt' = [i \in Ids |-> NoReceipt]
  /\ ownPc' = [i \in Ids |-> "idle"] /\ ownTx' = [i \in Ids |-> NoRow]
  /\ UNCHANGED <<l1Vars, synced, mtx>>

-----------------------------------------------------------------------------
Init ==
  /\ chain = <<>> /\ net = {} /\ forks = 0 /\ synced = <<>>
  /\ mtx = [i \in Ids |-> NoRow]
  /\ pc = [i \in Ids |-> "idle"] /\ mTx = [i \in Ids |-> NoRow]
  /\ todo = [i \in Ids |-> {}] /\ unmined = [i \in Ids |-> {}]
  /\ reverted = [i \in Ids |-> {}] /\ receipt = [i \in Ids |-> NoReceipt]
  /\ ownPc = [i \in Ids |-> "idle"] /\ ownTx = [i \in Ids |-> NoRow]
  /\ crashes = 0

\* The steps of the goroutine that monitors row i.
Monitor(i) ==
  \/ CheckHistory(i) \/ ReviewNonce(i) \/ ReviewTx(i) \/ Build(i) \/ Send(i) \/ MarkSent(i)
  \/ WaitTxToBeMined(i) \/ GetTxReceipt(i) \/ CheckSynced(i) \/ Commit(i)

Owner(i) == OwnerResult(i) \/ SetStatusDoneGet(i) \/ SetStatusDoneUpdate(i)

Next ==
  \/ MineTx \/ MineEmpty \/ ReorgL1 \/ SyncBlock \/ ResetState \/ MonitorTxs \/ Crash
  \/ \E i \in Ids : Add(i) \/ Monitor(i) \/ Owner(i)

Spec == Init /\ [][Next]_vars

-----------------------------------------------------------------------------
(* Properties.                                                             *)

MonPc == {"idle", "check", "review", "build", "send", "mark", "wait", "receipt", "synced",
          "commit"}

\* Type correctness of the table and of the local variables.
TypeOK ==
  /\ chain \in Seq(Block) /\ net \subseteq Tx /\ forks \in Nat /\ synced \in Seq(Block)
  /\ mtx \in [Ids -> Row]
  /\ pc \in [Ids -> MonPc] /\ mTx \in [Ids -> Row]
  /\ todo \in [Ids -> SUBSET Tx] /\ unmined \in [Ids -> SUBSET Tx]
  /\ reverted \in [Ids -> SUBSET Tx] /\ receipt \in [Ids -> Receipt]
  /\ ownPc \in [Ids -> {"idle", "get", "update"}] /\ ownTx \in [Ids -> Row]
  /\ crashes \in Nat

\* Whatever the network holds is in the history of its row, whenever the node
\* stops and however the whole-row Updates of the goroutine, of the owner and
\* of Reorg interleave: history is stored before SendTx (Build precedes Send)
\* and no Update writes an older history back.
HistoryCoversNetwork == \A tx \in net : tx \in mtx[tx.id].hist

\* The data of a row takes effect on the rollup at most once: the nonce is
\* only renewed when no transaction of the history can succeed any more
\* (reviewMonitoredTxNonce, "to avoid sending duplicated data to the roll-up").
AtMostOneSuccess ==
  \A b1, b2 \in DOMAIN chain :
    \A t1 \in chain[b1].txs, t2 \in chain[b2].txs :
      (/\ chain[b1].status = "successful" /\ chain[b2].status = "successful"
       /\ t1.id = t2.id) => b1 = b2

\* Blocks use up the nonces of an account in increasing order, and only for
\* transactions that were sent.
NoncesAscend ==
  \A b \in DOMAIN chain :
    /\ \A tx \in chain[b].txs : tx \in net /\ tx.nonce < chain[b].acct[From[tx.id]]
    /\ \A c \in DOMAIN chain : b < c =>
         /\ \A s \in Senders : chain[b].acct[s] <= chain[c].acct[s]
         /\ \A tx \in chain[c].txs : chain[b].acct[From[tx.id]] <= tx.nonce

\* A row moves on to a new nonce only over reverted transactions: the ones of
\* its history with an older nonce have all failed, and a goroutine that is
\* about to renew the nonce has seen the receipt of each of them. (Without
\* reorgs and RPC errors; the inductive strengthening of AtMostOneSuccess.)
RenewedOverReverted(i) ==
  /\ \A tx \in mtx[i].hist :
       tx.id = i /\ tx.nonce <= mtx[i].nonce /\ (tx.nonce < mtx[i].nonce => Reverted(tx))
  /\ \A tx \in reverted[i] : Reverted(tx)
  /\ pc[i] = "check" => mTx[i].hist \subseteq todo[i] \cup unmined[i] \cup reverted[i]
  /\ pc[i] # "idle" => mTx[i].nonce = mtx[i].nonce /\ mtx[i].status \in {"created", "sent"}
  /\ ownPc[i] = "update" => ownTx[i].nonce = mtx[i].nonce
  /\ mtx[i].status # "reorged"

NonceDiscipline ==
  IsPrefix(synced, chain) /\ NoncesAscend /\ \A i \in Ids : RenewedOverReverted(i)

\* A row reported as confirmed or done succeeded in the block it names, and
\* the state has that block.
ConfirmedOnSyncedChain ==
  \A i \in Ids :
    mtx[i].status \in {"confirmed", "done"} =>
      /\ mtx[i].block \in DOMAIN synced
      /\ synced[mtx[i].block].status = "successful"
      /\ \E tx \in synced[mtx[i].block].txs : tx.id = i

\* What the whole-row Updates rest on: while a goroutine or the owner holds a
\* copy of a row, nobody else changes the history, and nobody else changes the
\* status except that a reorged row may be set to done by its owner. (This is
\* the inductive strengthening of HistoryCoversNetwork and RowsOnlyAdvance.)
CopyAgrees(i) ==
  /\ mtx[i].status \in Monitored => mtx[i].block = NoBlock
  /\ mtx[i].status = "none" => pc[i] = "idle" /\ mtx[i].hist = {}
  /\ ownPc[i] # "idle" => mtx[i].status \in {"confirmed", "failed", "reorged", "done"}
  /\ ownPc[i] = "update" => ownTx[i].hist = mtx[i].hist
  /\ pc[i] # "idle" => mTx[i].hist = mtx[i].hist
  /\ pc[i] \notin {"idle", "commit"} =>
       /\ mTx[i].block = NoBlock
       /\ \/ mTx[i].status \in {"created", "sent"} /\ mtx[i].status = mTx[i].status
          \/ mTx[i].status = "reorged" /\ mtx[i].status \in {"reorged", "done"}
  /\ pc[i] \in {"review", "build", "send", "mark", "wait", "receipt"} => mTx[i].status # "reorged"
  /\ pc[i] = "send" => TxOf(i, mTx[i]) \in mTx[i].hist
  /\ pc[i] = "commit" => mTx[i].status \in {"confirmed", "failed"}

CopiesAgree == \A i \in Ids : CopyAgrees(i)

\* Once the synchronizer has caught up with the L1 and nobody is working on a
\* row, a confirmed or done row did succeed on the L1 ("confirmed means the tx
\* was already mined and the receipt status is Successful", and Reorg "updates
\* all monitored txs from provided block number until the last one").  It does not
\* hold and is in no run: see the README, Known divergences.
SettledConfirmationsHold ==
  (synced = chain /\ \A i \in Ids : pc[i] = "idle" /\ ownPc[i] = "idle")
    => \A i \in Ids : mtx[i].status \in {"confirmed", "done"}
                     => \E tx \in mtx[i].hist : Succeeded(tx)

\* No Update from a stale copy takes a row back to be sent again: a row leaves
\* created and sent for good, keeps its history, and only confirmed, failed and
\* done rows carry a block number for Reorg to find.
RowAdvances(i) ==
  mtx[i].status # "none" =>
    /\ mtx'[i].status # "none"
    /\ mtx[i].hist \subseteq mtx'[i].hist
    /\ mtx'[i].status = "created" => mtx[i].status = "created"
    /\ mtx'[i].status = "sent" => mtx[i].status \in {"created", "sent"}
    /\ mtx'[i].status \in Monitored => mtx'[i].block = NoBlock

RowsOnlyAdvance == [][\A i \in Ids : RowAdvances(i)]_vars

\* The stage in which the owner of a row sees it.
Stage(status) ==
  IF status \in {"created", "sent", "failed", "reorged"} THEN "pending" ELSE status

\* Row i took effect in L1 block b.
TookEffect(i, b) == chain[b].status = "successful" /\ \E tx \in chain[b].txs : tx.id = i

\* What a report rests on: the receipt a goroutine holds, and the block a
\* confirmed row names, are those of an effect of the row, and nobody changes
\* a confirmed row between its owner's read and its owner's write. (Without
\* reorgs and RPC errors; the inductive strengthening of KeepsPromise.)
ReportHolds(i) ==
  /\ \A tx \in todo[i] : tx.id = i
  /\ pc[i] = "synced" /\ receipt[i].status = "successful" =>
       receipt[i].block \in DOMAIN chain /\ TookEffect(i, receipt[i].block)
  /\ pc[i] = "commit" /\ mTx[i].status = "confirmed" =>
       mTx[i].block \in DOMAIN synced /\ TookEffect(i, mTx[i].block)
  /\ mtx[i].status \in {"confirmed", "done"} =>
       mtx[i].block \in DOMAIN synced /\ TookEffect(i, mtx[i].block)
  /\ ownPc[i] # "idle" => mtx[i].status = "confirmed"
  /\ ownPc[i] = "update" => ownTx[i] = mtx[i]

ReportsHold == \A i \in Ids : ReportHolds(i)

Promise == INSTANCE MonitoredTxs WITH
  row <- [i \in Ids |-> Stage(mtx[i].status)],
  effects <- {e \in [block : DOMAIN chain, id : Ids] : TookEffect(e.id, e.block)},
  l1 <- Len(chain),
  known <- Len(synced)

\* The manager implements the promise its owners rely on (MonitoredTxs): one
\* effect per row however its nonce and price were renewed, no report before
\* the state has the block of the effect, through any restart of the node.
\* (Without reorgs and RPC errors.)
KeepsPromise == Promise!Spec

-----------------------------------------------------------------------------
(* Liveness: the monitor loop, the owner, the synchronizer and the L1 keep *)
(* running; reorgs, restarts and RPC errors are not required to happen.    *)

FairSpec ==
  /\ Spec
  /\ WF_vars(MonitorTxs) /\ WF_vars(SyncBlock) /\ WF_vars(ResetState) /\ WF_vars(MineTx)
  /\ \A i \in Ids : WF_vars(Monitor(i)) /\ WF_vars(Owner(i))

\* A transaction of row i's history has lost its nonce to another one, so it
\* can never be mined.
Superseded(i) ==
  \E t \in mtx[i].hist :
    /\ t.nonce < Accounts(chain)[From[i]]
    /\ ~Mined(t)

\* A transaction given to the manager is confirmed and its owner told so ("keep
\* monitoring them until they get mined", Start), unless one of its history can
\* no longer be mined: then its nonce may never be renewed, and the row stays.
AddedGetsDone ==
  \A i \in Ids : mtx[i].status # "none" ~> mtx[i].status = "done" \/ Superseded(i)
=============================================================================
