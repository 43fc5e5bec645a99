------------------------- MODULE EthTxManagerProofs -------------------------
(* Theorems about EthTxManager, for every value of its constants. *)
EXTENDS EthTxManager, SequenceTheorems, TLAPS

\* The transaction built from a row is a transaction.
LEMMA TxOfType == ASSUME NEW i \in Ids, NEW row \in Row PROVE TxOf(i, row) \in Tx
BY Zenon DEF TxOf, Row, Tx

\* The account nonces after a chain of blocks are well typed.
LEMMA AccountsType == ASSUME NEW c \in Seq(Block) PROVE Accounts(c) \in [Senders -> Nat]
<1>1. CASE c = <<>>
  BY <1>1, Zenon DEF Accounts
<1>2. CASE c # <<>>
  <2>1. Len(c) \in 1 .. Len(c)
    BY <1>2
  <2>2. c[Len(c)] \in Block
    BY <2>1
  <2> QED BY <1>2, <2>2, Zenon DEF Accounts, Block
<1> QED BY <1>1, <1>2, Zenon

\* NoRow and NoReceipt, the values of unset fields, are well typed.
LEMMA UnsetType == NoRow \in Row /\ NoReceipt \in Receipt
BY Zenon DEF NoRow, Row, Status, NoBlock, NoReceipt, Receipt, ReceiptStatus

\* TypeOK is an inductive invariant.
LEMMA TypeInductive ==
  /\ Init => TypeOK
  /\ TypeOK /\ [Next]_vars => TypeOK'
<1>1. Init => TypeOK
  <2> SUFFICES ASSUME Init PROVE TypeOK OBVIOUS
  <2>1. chain \in Seq(Block) /\ synced \in Seq(Block)
    BY DEF Init
  <2>2. mtx \in [Ids -> Row] /\ mTx \in [Ids -> Row] /\ ownTx \in [Ids -> Row]
    BY UnsetType, Zenon DEF Init
  <2>3. receipt \in [Ids -> Receipt]
    BY UnsetType, Zenon DEF Init
  <2> QED BY <2>1, <2>2, <2>3, Zenon DEF Init, TypeOK, MonPc
<1>2. TypeOK /\ [Next]_vars => TypeOK'
  <2> SUFFICES ASSUME TypeOK, [Next]_vars PROVE TypeOK'
    OBVIOUS
  <2> USE ConstantsAssumption
  <2>1. CASE MineTx
    <3>1. PICK tx \in net, status \in ReceiptStatus :
            chain' = Append(chain, [fork |-> forks, txs |-> {tx}, status |-> status,
                       acct |-> [Accounts(chain) EXCEPT ![From[tx.id]] = @ + 1]])
      BY <2>1, Zenon DEF MineTx
    <3>2. tx \in Tx /\ forks \in Nat /\ chain \in Seq(Block)
      BY Zenon DEF TypeOK
    <3>3. [Accounts(chain) EXCEPT ![From[tx.id]] = @ + 1] \in [Senders -> Nat]
      BY <3>2, AccountsType DEF Tx
    <3>4. chain' \in Seq(Block)
      BY <3>1, <3>2, <3>3 DEF Block
    <3> QED BY <2>1, <3>4, Zenon DEF MineTx, TypeOK, monVars, ownVars
  <2>2. CASE MineEmpty
    <3>1. chain \in Seq(Block) /\ forks \in Nat
      BY Zenon DEF TypeOK
    <3>2. [fork |-> forks, txs |-> {}, status |-> "successful", acct |-> Accounts(chain)] \in Block
      BY <3>1, AccountsType, Zenon DEF Block, ReceiptStatus
    <3>3. chain' \in Seq(Block)
      BY <2>2, <3>1, <3>2 DEF MineEmpty
    <3> QED BY <2>2, <3>3, Zenon DEF MineEmpty, TypeOK, monVars, ownVars
  <2>3. CASE ReorgL1
    <3>1. PICK n \in 0 .. Len(chain) - 1 : chain' = SubSeq(chain, 1, n)
      BY <2>3, Zenon DEF ReorgL1
    <3>2. chain' \in Seq(Block)
      BY <3>1, SubSeqProperties DEF TypeOK
    <3> QED BY <2>3, <3>2 DEF ReorgL1, TypeOK, monVars, ownVars
  <2>4. CASE SyncBlock
    <3>1. synced' \in Seq(Block)
      BY <2>4 DEF SyncBlock, TypeOK
    <3> QED BY <2>4, <3>1, Zenon DEF SyncBlock, TypeOK, l1Vars, monVars, ownVars
  <2>5. CASE ResetState
    <3>0. synced' \in Seq(Block) /\ \E n \in Nat : mtx' = Reorged(mtx, n)
      BY <2>5, SubSeqProperties DEF ResetState, TypeOK
    <3>1. PICK n \in Nat : mtx' = Reorged(mtx, n)
      BY <3>0, Zenon
    <3>2. ASSUME NEW row \in Row
          PROVE  [row EXCEPT !.status = "reorged", !.block = NoBlock] \in Row
      BY Zenon DEF Row, Status, NoBlock
    <3>3. \A i \in Ids : mtx[i] \in Row
      BY Zenon DEF TypeOK
    <3>4. mtx' \in [Ids -> Row]
      BY <3>1, <3>2, <3>3, Zenon DEF Reorged
    <3> QED BY <2>5, <3>0, <3>4, Zenon DEF ResetState, TypeOK, l1Vars, monVars, ownVars
  <2>6. CASE MonitorTxs
    <3>1. pc' \in [Ids -> MonPc]
      BY <2>6, Zenon DEF MonitorTxs, MonPc
    <3>2. mTx' \in [Ids -> Row]
      BY <2>6, UnsetType, Zenon DEF MonitorTxs, TypeOK
    <3>3. todo' \in [Ids -> SUBSET Tx]
      BY <2>6, Zenon DEF MonitorTxs, TypeOK, Row
    <3> QED BY <2>6, <3>1, <3>2, <3>3, Zenon DEF MonitorTxs, TypeOK, l1Vars, ownVars
  <2>7. CASE Crash
    <3>1. pc' \in [Ids -> MonPc] /\ mTx' \in [Ids -> Row] /\ ownTx' \in [Ids -> Row]
          /\ receipt' \in [Ids -> Receipt]
      BY <2>7, UnsetType, Zenon DEF Crash, MonPc
    <3> QED BY <2>7, <3>1 DEF Crash, TypeOK, l1Vars
  <2>8. ASSUME NEW i \in Ids, Add(i) PROVE TypeOK'
    <3>1. CurrentNonce(From[i]) \in Nat
      BY AccountsType, Zenon DEF CurrentNonce, TypeOK
    <3>2. mtx' \in [Ids -> Row]
      BY <2>8, <3>1 DEF Add, TypeOK, Row, Status, NoBlock
    <3> QED BY <2>8, <3>2, Zenon DEF Add, TypeOK, l1Vars, monVars, ownVars
  <2>9. ASSUME NEW i \in Ids, Monitor(i) PROVE TypeOK'
    <3>0. mTx[i] \in Row /\ mtx \in [Ids -> Row] /\ receipt[i] \in Receipt /\ chain \in Seq(Block)
      BY Zenon DEF TypeOK
    <3>R. ASSUME Return(i)
          PROVE  /\ pc' \in [Ids -> MonPc] /\ mTx' \in [Ids -> Row]
                 /\ todo' \in [Ids -> SUBSET Tx] /\ unmined' \in [Ids -> SUBSET Tx]
                 /\ reverted' \in [Ids -> SUBSET Tx] /\ receipt' \in [Ids -> Receipt]
      BY <3>R, UnsetType, Zenon DEF Return, Goto, TypeOK, MonPc
    <3>1. CASE CheckHistory(i)
      <4>1. /\ todo' \in [Ids -> SUBSET Tx]
            /\ unmined' \in [Ids -> SUBSET Tx]
            /\ reverted' \in [Ids -> SUBSET Tx]
        <5>1. todo' \in [Ids -> SUBSET Tx]
          BY <3>1 DEF CheckHistory, TypeOK
        <5>2. ASSUME NEW h \in todo[i] PROVE {h} \subseteq Tx
          BY Zenon DEF TypeOK
        <5>3. unmined' \in [Ids -> SUBSET Tx]
          BY <3>1, <5>2 DEF CheckHistory, TypeOK
        <5>4. reverted' \in [Ids -> SUBSET Tx]
          BY <3>1, <5>2 DEF CheckHistory, TypeOK
        <5> QED BY <5>1, <5>3, <5>4, Zenon
      <4>2. ASSUME NEW b \in DOMAIN chain
            PROVE  [block |-> b, status |-> "successful"] \in Receipt
        BY <3>0 DEF Receipt, ReceiptStatus
      <4>3. receipt' \in [Ids -> Receipt]
        BY <3>1, <4>2 DEF CheckHistory, TypeOK
      <4>4. pc' \in [Ids -> MonPc]
        BY <3>1 DEF CheckHistory, Goto, TypeOK, MonPc
      <4> QED BY <3>1, <4>1, <4>3, <4>4, Zenon DEF CheckHistory, TypeOK, l1Vars, ownVars
    <3>2. CASE ReviewNonce(i)
      <4> DEFINE row == IF NonceToReview(i) THEN WithNonce(mTx[i], CurrentNonce(From[i])) ELSE mTx[i]
      <4>1. CurrentNonce(From[i]) \in Nat
        BY AccountsType, Zenon DEF CurrentNonce, TypeOK
      <4>2. row \in Row
        BY <3>0, <4>1, Zenon DEF WithNonce, Row
      <4>3. mtx' \in [Ids -> Row]
        BY <3>0, <3>2, <4>2, Zenon DEF ReviewNonce, Update
      <4>4. CASE Return(i)
        BY <3>R, <3>2, <4>3, <4>4, Zenon DEF ReviewNonce, TypeOK, l1Vars, ownVars
      <4>5. CASE /\ mTx' = [mTx EXCEPT ![i] = row] /\ Goto(i, "review")
                 /\ UNCHANGED <<todo, unmined, reverted, receipt>>
        <5>1. mTx' \in [Ids -> Row] /\ pc' \in [Ids -> MonPc]
          BY <4>2, <4>5, Zenon DEF TypeOK, Goto, MonPc
        <5> QED BY <3>2, <4>3, <4>5, <5>1, Zenon DEF ReviewNonce, TypeOK, l1Vars, ownVars
      <4> QED BY <3>2, <4>4, <4>5, Zenon DEF ReviewNonce
    <3>10. CASE ReviewTx(i)
      <4>1. ASSUME NEW price \in mTx[i].price .. MaxPrice
            PROVE  [mTx[i] EXCEPT !.price = price] \in Row
        <5>1. price \in Nat
          BY <3>0 DEF Row
        <5> QED BY <3>0, <5>1, Zenon DEF Row
      <4>2. mtx' \in [Ids -> Row]
        BY <3>0, <3>10, <4>1, Zenon DEF ReviewTx, Update
      <4>3. CASE Return(i)
        BY <3>R, <3>10, <4>2, <4>3, Zenon DEF ReviewTx, TypeOK, l1Vars, ownVars
      <4>4. CASE Goto(i, "build") /\ UNCHANGED <<todo, unmined, reverted, receipt>>
                 /\ mTx' \in [Ids -> Row]
        <5>1. pc' \in [Ids -> MonPc]
          BY <4>4, Zenon DEF TypeOK, Goto, MonPc
        <5> QED BY <3>10, <4>2, <4>4, <5>1, Zenon DEF ReviewTx, TypeOK, l1Vars, ownVars
      <4>5. mTx' \in [Ids -> Row] \/ Return(i)
        BY <3>10, <4>1, Zenon DEF ReviewTx, TypeOK
      <4> QED BY <3>10, <4>3, <4>4, <4>5, Zenon DEF ReviewTx
    <3>3. CASE Build(i)
      <4>1. WithHistory(i, mTx[i]) \in Row
        BY <3>0, TxOfType, Zenon DEF WithHistory, Row
      <4>2. mtx' \in [Ids -> Row] /\ mTx' \in [Ids -> Row] /\ pc' \in [Ids -> MonPc]
        BY <3>0, <3>3, <4>1, Zenon DEF TypeOK, Build, Update, Goto, MonPc
      <4> QED BY <3>3, <4>2, Zenon DEF Build, TypeOK, l1Vars, ownVars
    <3>4. CASE Send(i)
      <4>1. net' \subseteq Tx
        BY <3>0, <3>4, TxOfType DEF Send, TypeOK
      <4>2. CASE Return(i)
        BY <3>R, <3>4, <4>1, <4>2, Zenon DEF Send, TypeOK, ownVars
      <4>3. CASE pc' \in [Ids -> MonPc] /\ UNCHANGED <<mTx, todo, unmined, reverted, receipt>>
        BY <3>4, <4>1, <4>3, Zenon DEF Send, TypeOK, ownVars
      <4> QED BY <3>4, <4>2, <4>3, Zenon DEF Send, Goto, TypeOK, MonPc
    <3>5. CASE MarkSent(i)
      <4>1. [mTx[i] EXCEPT !.status = "sent"] \in Row
        BY <3>0, Zenon DEF Row, Status
      <4>2. mtx' \in [Ids -> Row] /\ mTx' \in [Ids -> Row] /\ pc' \in [Ids -> MonPc]
        BY <3>0, <3>5, <4>1, Zenon DEF MarkSent, Update, Goto, TypeOK, MonPc
      <4> QED BY <3>5, <4>2, Zenon DEF MarkSent, TypeOK, l1Vars, ownVars
    <3>6. CASE WaitTxToBeMined(i)
      <4>1. CASE Return(i)
        BY <3>R, <3>6, <4>1, Zenon DEF WaitTxToBeMined, TypeOK, l1Vars, ownVars
      <4>2. CASE Goto(i, "receipt") /\ UNCHANGED <<mTx, todo, unmined, reverted, receipt>>
        BY <3>6, <4>2, Zenon DEF WaitTxToBeMined, Goto, MonPc, TypeOK, l1Vars, ownVars
      <4> QED BY <3>6, <4>1, <4>2, Zenon DEF WaitTxToBeMined
    <3>7. CASE GetTxReceipt(i)
      <4>1. CASE Return(i)
        BY <3>R, <3>7, <4>1, Zenon DEF GetTxReceipt, TypeOK, l1Vars, ownVars
      <4>2. ASSUME NEW b \in DOMAIN chain,
                   receipt' = [receipt EXCEPT ![i] = [block |-> b, status |-> chain[b].status]],
                   Goto(i, "synced"), UNCHANGED <<mTx, todo, unmined, reverted>>
            PROVE  TypeOK'
        <5>1. chain[b] \in Block /\ b \in Nat
          BY <3>0
        <5>2. receipt' \in [Ids -> Receipt] /\ pc' \in [Ids -> MonPc]
          BY <4>2, <5>1, Zenon DEF TypeOK, Receipt, Block, Goto, MonPc
        <5> QED BY <3>7, <4>2, <5>2, Zenon DEF GetTxReceipt, TypeOK, l1Vars, ownVars
      <4> QED BY <3>7, <4>1, <4>2, Zenon DEF GetTxReceipt
    <3>8. CASE CheckSynced(i)
      <4>1. CASE Return(i)
        BY <3>R, <3>8, <4>1, Zenon DEF CheckSynced, TypeOK, l1Vars, ownVars
      <4>2. CASE /\ mTx' = [mTx EXCEPT ![i] = [@ EXCEPT !.block = receipt[i].block,
                     !.status = IF receipt[i].status = "successful" THEN "confirmed" ELSE "failed"]]
                 /\ Goto(i, "commit") /\ UNCHANGED <<todo, unmined, reverted, receipt>>
        <5>1. mTx' \in [Ids -> Row] /\ pc' \in [Ids -> MonPc]
          BY <3>0, <4>2, Zenon DEF TypeOK, Row, Status, Receipt, Goto, MonPc
        <5> QED BY <3>8, <4>2, <5>1, Zenon DEF CheckSynced, TypeOK, l1Vars, ownVars
      <4> QED BY <3>8, <4>1, <4>2, Zenon DEF CheckSynced
    <3>9. CASE Commit(i)
      <4>1. mtx' \in [Ids -> Row]
        BY <3>0, <3>9, Zenon DEF Commit, Update
      <4> QED BY <3>9, <3>R, <4>1, Zenon DEF Commit, TypeOK, l1Vars, ownVars
    <3> QED BY <2>9, <3>1, <3>2, <3>3, <3>4, <3>5, <3>6, <3>7, <3>8, <3>9, <3>10, Zenon
               DEF Monitor
  <2>10. ASSUME NEW i \in Ids, Owner(i) PROVE TypeOK'
    <3>1. CASE OwnerResult(i)
      BY <3>1, Zenon DEF OwnerResult, TypeOK, l1Vars, monVars
    <3>2. CASE SetStatusDoneGet(i)
      BY <3>2, Zenon DEF SetStatusDoneGet, TypeOK, l1Vars, monVars
    <3>3. CASE SetStatusDoneUpdate(i)
      <4>1. [ownTx[i] EXCEPT !.status = "done"] \in Row
        BY Zenon DEF TypeOK, Row, Status
      <4>2. mtx' \in [Ids -> Row] /\ ownTx' \in [Ids -> Row]
        BY <3>3, <4>1, UnsetType, Zenon DEF SetStatusDoneUpdate, Update, TypeOK
      <4> QED BY <3>3, <4>2, Zenon DEF SetStatusDoneUpdate, TypeOK, l1Vars, monVars
    <3> QED BY <2>10, <3>1, <3>2, <3>3, Zenon DEF Owner
  <2>11. CASE UNCHANGED vars
    BY <2>11, Zenon DEF TypeOK, vars, l1Vars, monVars, ownVars
  <2> QED BY <2>1, <2>2, <2>3, <2>4, <2>5, <2>6, <2>7, <2>8, <2>9, <2>10, <2>11, Zenon
             DEF Next
<1> QED BY <1>1, <1>2, Zenon

\* The table and the local variables of the goroutines stay well typed: what
\* Update writes back from memory is always a complete row.
THEOREM TypeCorrect == Spec => []TypeOK
BY TypeInductive, PTL DEF Spec

-----------------------------------------------------------------------------
(* Whole-row Updates never lose what another writer stored.                *)

\* A step that leaves row j and its copies alone keeps CopyAgrees(j).
LEMMA OtherRow ==
  ASSUME NEW j \in Ids, CopyAgrees(j), mtx'[j] = mtx[j], pc'[j] = pc[j], mTx'[j] = mTx[j],
         ownPc'[j] = ownPc[j], ownTx'[j] = ownTx[j]
  PROVE  CopyAgrees(j)' /\ RowAdvances(j)
BY Zenon DEF CopyAgrees, RowAdvances, TxOf

\* The goroutine that returns keeps CopyAgrees.
LEMMA ReturnAgrees ==
  ASSUME NEW i \in Ids, TypeOK, CopyAgrees(i), Return(i),
         mtx'[i] = mtx[i], ownPc'[i] = ownPc[i], ownTx'[i] = ownTx[i]
  PROVE  CopyAgrees(i)' /\ RowAdvances(i)
BY Zenon DEF CopyAgrees, RowAdvances, Return, Goto, TypeOK

\* Every step keeps the copies in agreement and advances the rows.
LEMMA CopiesStep ==
  ASSUME TypeOK, CopiesAgree, [Next]_vars
  PROVE  \A j \in Ids : CopyAgrees(j)' /\ RowAdvances(j)
<1> SUFFICES ASSUME NEW j \in Ids PROVE CopyAgrees(j)' /\ RowAdvances(j)
  OBVIOUS
<1>0. CopyAgrees(j) /\ mtx[j] \in Row /\ mTx[j] \in Row /\ ownTx[j] \in Row
  BY Zenon DEF CopiesAgree, TypeOK
<1>1. CASE MineTx \/ MineEmpty \/ ReorgL1 \/ SyncBlock
  BY <1>0, <1>1, OtherRow, Zenon DEF MineTx, MineEmpty, ReorgL1, SyncBlock, monVars,
     ownVars
<1>2. CASE ResetState
  <2>1. PICK n \in Nat : mtx' = Reorged(mtx, n)
    BY <1>2 DEF ResetState, TypeOK
  <2>2. /\ pc'[j] = pc[j] /\ mTx'[j] = mTx[j] /\ ownPc'[j] = ownPc[j] /\ ownTx'[j] = ownTx[j]
    BY <1>2, Zenon DEF ResetState, monVars, ownVars
  <2>3. CASE mtx[j].block # NoBlock /\ mtx[j].block >= n
    <3>1. mtx'[j] = [mtx[j] EXCEPT !.status = "reorged", !.block = NoBlock]
      BY <2>1, <2>3, Zenon DEF Reorged
    <3>2. /\ mtx'[j].status = "reorged" /\ mtx'[j].block = NoBlock
          /\ mtx'[j].hist = mtx[j].hist
      BY <1>0, <3>1, Zenon DEF Row
    <3> QED BY <1>0, <2>2, <2>3, <3>2, Zenon DEF CopyAgrees, RowAdvances, Monitored, TxOf
  <2>4. CASE ~(mtx[j].block # NoBlock /\ mtx[j].block >= n)
    BY <1>0, <2>1, <2>2, <2>4, OtherRow, Zenon DEF Reorged
  <2> QED BY <2>3, <2>4, Zenon
<1>3. CASE MonitorTxs
  BY <1>0, <1>3, UnsetType, Zenon DEF MonitorTxs, CopyAgrees, RowAdvances, Monitored,
     TypeOK, ownVars
<1>4. CASE Crash
  BY <1>0, <1>4, Zenon DEF Crash, CopyAgrees, RowAdvances
<1>5. ASSUME NEW i \in Ids, Add(i) PROVE CopyAgrees(j)' /\ RowAdvances(j)
  <2>1. CASE i # j
    BY <1>0, <1>5, <2>1, OtherRow, Zenon DEF Add, TypeOK, monVars, ownVars
  <2>2. CASE i = j
    BY <1>0, <1>5, <2>2 DEF Add, CopyAgrees, RowAdvances, TypeOK, monVars, ownVars
  <2> QED BY <2>1, <2>2, Zenon
<1>6. ASSUME NEW i \in Ids, Monitor(i), i # j PROVE CopyAgrees(j)' /\ RowAdvances(j)
  <2>1. mtx'[j] = mtx[j] /\ pc'[j] = pc[j] /\ mTx'[j] = mTx[j]
    BY <1>6, Zenon DEF Monitor, CheckHistory, ReviewNonce, ReviewTx, Build, Send,
       MarkSent, WaitTxToBeMined, GetTxReceipt, CheckSynced, Commit, Return, Goto,
       Update, TypeOK
  <2>2. ownPc'[j] = ownPc[j] /\ ownTx'[j] = ownTx[j]
    BY <1>6, Zenon DEF Monitor, CheckHistory, ReviewNonce, ReviewTx, Build, Send,
       MarkSent, WaitTxToBeMined, GetTxReceipt, CheckSynced, Commit, ownVars
  <2> QED BY <1>0, <2>1, <2>2, OtherRow, Zenon
<1>7. ASSUME Monitor(j) PROVE CopyAgrees(j)' /\ RowAdvances(j)
  <2>1. CASE CheckHistory(j)
    BY <1>0, <2>1, Zenon DEF CheckHistory, Goto, TypeOK, CopyAgrees, RowAdvances, TxOf,
       ownVars
  <2>2. CASE ReviewNonce(j)
    <3> DEFINE row == IF NonceToReview(j) THEN WithNonce(mTx[j], CurrentNonce(From[j])) ELSE mTx[j]
    <3>1. /\ row.status = mTx[j].status /\ row.hist = mTx[j].hist /\ row.block = mTx[j].block
      BY <1>0, Zenon DEF WithNonce, Row
    <3>2. mtx'[j] = row \/ mtx'[j] = mtx[j]
      BY <2>2, Zenon DEF ReviewNonce, Update, TypeOK
    <3>3. ownPc'[j] = ownPc[j] /\ ownTx'[j] = ownTx[j]
      BY <2>2, Zenon DEF ReviewNonce, ownVars
    <3>4. CASE Return(j) /\ mTx[j].status = "reorged"
      BY <1>0, <2>2, <3>1, <3>2, <3>3, <3>4, Zenon DEF ReviewNonce, Return, Goto, TypeOK,
         CopyAgrees, RowAdvances, Monitored
    <3>5. CASE /\ mTx[j].status # "reorged" /\ mTx' = [mTx EXCEPT ![j] = row]
               /\ Goto(j, "review")
      <4>1. mTx'[j] = row /\ pc'[j] = "review"
        BY <3>5, Zenon DEF Goto, TypeOK
      <4> HIDE DEF row
      <4> QED BY <1>0, <2>2, <3>1, <3>2, <3>3, <3>5, <4>1
         DEF ReviewNonce, CopyAgrees, RowAdvances, Monitored
    <3>6. CASE Return(j) /\ UNCHANGED mtx
      BY <1>0, <3>3, <3>6, ReturnAgrees, Zenon
    <3> QED BY <2>2, <3>4, <3>5, <3>6, Zenon DEF ReviewNonce
  <2>9. CASE ReviewTx(j)
    <3>1. ownPc'[j] = ownPc[j] /\ ownTx'[j] = ownTx[j] /\ pc[j] = "review"
      BY <2>9, Zenon DEF ReviewTx, ownVars
    <3>2. CASE Return(j) /\ UNCHANGED mtx
      BY <1>0, <3>1, <3>2, ReturnAgrees, Zenon
    <3>3. ASSUME NEW price, mtx'[j] = [mTx[j] EXCEPT !.price = price],
                 mTx'[j] = [mTx[j] EXCEPT !.price = price], pc'[j] = "build"
          PROVE  CopyAgrees(j)' /\ RowAdvances(j)
      <4>1. /\ mtx'[j].status = mTx[j].status /\ mtx'[j].hist = mTx[j].hist
            /\ mtx'[j].block = mTx[j].block /\ mTx'[j] = mtx'[j]
        BY <1>0, <3>3, Zenon DEF Row
      <4> QED BY <1>0, <3>1, <3>3, <4>1, Zenon DEF CopyAgrees, RowAdvances, Monitored
    <3>4. CASE mtx'[j] = mtx[j] /\ mTx'[j] = mTx[j] /\ pc'[j] = "build"
      BY <1>0, <3>1, <3>4, Zenon DEF CopyAgrees, RowAdvances
    <3> QED BY <2>9, <3>2, <3>3, <3>4, Zenon DEF ReviewTx, Update, Goto, TypeOK
  <2>3. CASE Build(j)
    <3> DEFINE built == WithHistory(j, mTx[j])
    <3>2. /\ built.status = mTx[j].status /\ built.block = mTx[j].block
          /\ mTx[j].hist \subseteq built.hist /\ TxOf(j, built) \in built.hist
      BY <1>0, Zenon DEF WithHistory, TxOf, Row
    <3>3. mtx'[j] = built /\ mTx'[j] = built
      BY <2>3, Zenon DEF Build, Update, TypeOK
    <3>4. pc'[j] = "send" /\ ownPc'[j] = ownPc[j] /\ pc[j] = "build"
      BY <2>3, Zenon DEF Build, Goto, TypeOK, ownVars
    <3> HIDE DEF built
    <3> QED BY <1>0, <3>2, <3>3, <3>4, Zenon DEF CopyAgrees, RowAdvances, Monitored, TxOf
  <2>4. CASE Send(j)
    <3>1. mtx'[j] = mtx[j] /\ ownPc'[j] = ownPc[j] /\ ownTx'[j] = ownTx[j] /\ pc[j] = "send"
      BY <2>4, Zenon DEF Send, ownVars
    <3>2. CASE Return(j)
      BY <1>0, <3>1, <3>2, ReturnAgrees, Zenon
    <3>3. CASE mTx'[j] = mTx[j] /\ pc'[j] \in {"wait", "mark"}
      BY <1>0, <3>1, <3>3, Zenon DEF CopyAgrees, RowAdvances
    <3> QED BY <2>4, <3>2, <3>3, Zenon DEF Send, Goto, TypeOK
  <2>5. CASE MarkSent(j)
    <3> DEFINE row == [mTx[j] EXCEPT !.status = "sent"]
    <3>1. row.status = "sent" /\ row.block = mTx[j].block /\ row.hist = mTx[j].hist
      BY <1>0, Zenon DEF Row
    <3>2. mtx'[j] = row /\ mTx'[j] = row
      BY <2>5, Zenon DEF MarkSent, Update, TypeOK
    <3>3. pc'[j] = "wait" /\ pc[j] = "mark" /\ ownPc'[j] = ownPc[j]
      BY <2>5, Zenon DEF MarkSent, Goto, TypeOK, ownVars
    <3> HIDE DEF row
    <3> QED BY <1>0, <3>1, <3>2, <3>3, Zenon DEF CopyAgrees, RowAdvances, Monitored
  <2>6. CASE WaitTxToBeMined(j) \/ GetTxReceipt(j)
    <3>1. /\ mtx'[j] = mtx[j] /\ ownPc'[j] = ownPc[j] /\ ownTx'[j] = ownTx[j]
          /\ pc[j] \in {"wait", "receipt"}
      BY <2>6, Zenon DEF WaitTxToBeMined, GetTxReceipt, ownVars
    <3>2. CASE Return(j)
      BY <1>0, <3>1, <3>2, ReturnAgrees, Zenon
    <3>3. CASE mTx'[j] = mTx[j] /\ pc'[j] \in {"receipt", "synced"}
      BY <1>0, <3>1, <3>3, Zenon DEF CopyAgrees, RowAdvances
    <3> QED BY <2>6, <3>2, <3>3, Zenon DEF WaitTxToBeMined, GetTxReceipt, Goto, TypeOK
  <2>7. CASE CheckSynced(j)
    <3>1. mtx'[j] = mtx[j] /\ ownPc'[j] = ownPc[j] /\ ownTx'[j] = ownTx[j] /\ pc[j] = "synced"
      BY <2>7, Zenon DEF CheckSynced, ownVars
    <3>2. CASE Return(j)
      BY <1>0, <3>1, <3>2, ReturnAgrees, Zenon
    <3>3. CASE /\ mTx' = [mTx EXCEPT ![j] = [@ EXCEPT !.block = receipt[j].block,
                 !.status = IF receipt[j].status = "successful" THEN "confirmed" ELSE "failed"]]
               /\ Goto(j, "commit")
      <4>1. /\ mTx'[j].status \in {"confirmed", "failed"} /\ mTx'[j].hist = mTx[j].hist
            /\ pc'[j] = "commit"
        BY <1>0, <3>3, Zenon DEF Row, TypeOK, Goto
      <4> QED BY <1>0, <3>1, <4>1, Zenon DEF CopyAgrees, RowAdvances
    <3> QED BY <2>7, <3>2, <3>3, Zenon DEF CheckSynced
  <2>8. CASE Commit(j)
    <3>1. mtx'[j] = mTx[j] /\ pc'[j] = "idle" /\ pc[j] = "commit"
          /\ ownPc'[j] = ownPc[j] /\ ownTx'[j] = ownTx[j]
      BY <2>8, Zenon DEF Commit, Update, Return, Goto, TypeOK, ownVars
    <3> QED BY <1>0, <3>1, Zenon DEF CopyAgrees, RowAdvances, Monitored
  <2> QED BY <1>7, <2>1, <2>2, <2>3, <2>4, <2>5, <2>6, <2>7, <2>8, <2>9, Zenon
             DEF Monitor
<1>8. ASSUME NEW i \in Ids, Owner(i) PROVE CopyAgrees(j)' /\ RowAdvances(j)
  <2>1. pc'[j] = pc[j] /\ mTx'[j] = mTx[j]
    BY <1>8, Zenon DEF Owner, OwnerResult, SetStatusDoneGet, SetStatusDoneUpdate, monVars
  <2>2. CASE i # j
    <3>1. mtx'[j] = mtx[j] /\ ownPc'[j] = ownPc[j] /\ ownTx'[j] = ownTx[j]
      BY <1>8, <2>2, Zenon DEF Owner, OwnerResult, SetStatusDoneGet, SetStatusDoneUpdate,
         Update, TypeOK
    <3> QED BY <1>0, <2>1, <3>1, OtherRow, Zenon
  <2>3. CASE i = j /\ OwnerResult(i)
    BY <1>0, <2>1, <2>3, Zenon DEF OwnerResult, CopyAgrees, RowAdvances, TypeOK, TxOf
  <2>4. CASE i = j /\ SetStatusDoneGet(i)
    BY <1>0, <2>1, <2>4, Zenon DEF SetStatusDoneGet, CopyAgrees, RowAdvances, TypeOK,
       TxOf
  <2>5. CASE i = j /\ SetStatusDoneUpdate(i)
    <3>1. mtx'[j].status = "done" /\ mtx'[j].hist = ownTx[j].hist /\ ownPc'[j] = "idle"
          /\ ownPc[j] = "update"
      BY <1>0, <2>5, Zenon DEF SetStatusDoneUpdate, Update, TypeOK, Row
    <3> QED BY <1>0, <2>1, <3>1, Zenon DEF CopyAgrees, RowAdvances, Monitored, TxOf
  <2> QED BY <1>8, <2>2, <2>3, <2>4, <2>5, Zenon DEF Owner
<1>9. CASE UNCHANGED vars
  BY <1>0, <1>9, OtherRow, Zenon DEF vars, monVars, ownVars
<1> QED BY <1>1, <1>2, <1>3, <1>4, <1>5, <1>6, <1>7, <1>8, <1>9, Zenon DEF Next

\* While somebody works on a copy of a row, nobody else changes what a later
\* Update of that copy would overwrite.
THEOREM CopiesCorrect == Spec => []CopiesAgree
<1>1. Init => CopiesAgree
  BY DEF Init, CopiesAgree, CopyAgrees, NoRow, Monitored
<1>2. TypeOK /\ CopiesAgree /\ [Next]_vars => CopiesAgree'
  BY CopiesStep, Zenon DEF CopiesAgree
<1> QED BY <1>1, <1>2, TypeCorrect, PTL DEF Spec

\* Rows never go back to be sent again and never lose history, whatever the
\* order of the Updates of monitorTx, setStatusDone and Reorg.
THEOREM RowsAdvance == Spec => RowsOnlyAdvance
<1>1. TypeOK /\ CopiesAgree /\ [Next]_vars => [\A i \in Ids : RowAdvances(i)]_vars
  BY CopiesStep, Zenon
<1> QED BY <1>1, TypeCorrect, CopiesCorrect, PTL DEF Spec, RowsOnlyAdvance

\* Every transaction the L1 may ever mine is in the stored history of its row,
\* so a restarted manager looks for its receipt: no crash, lost answer or reorg
\* makes the manager forget a transaction it has sent.
THEOREM HistoryIsComplete == Spec => []HistoryCoversNetwork
<1>1. Init => HistoryCoversNetwork
  BY Zenon DEF Init, HistoryCoversNetwork
<1>2. TypeOK /\ CopiesAgree /\ HistoryCoversNetwork /\ [Next]_vars => HistoryCoversNetwork'
  <2> SUFFICES ASSUME TypeOK, CopiesAgree, HistoryCoversNetwork, [Next]_vars, NEW tx \in net'
               PROVE  tx \in mtx'[tx.id].hist
    BY Zenon DEF HistoryCoversNetwork
  <2>1. CASE tx \in net
    <3>1. tx.id \in Ids /\ tx \in mtx[tx.id].hist
      BY <2>1, Zenon DEF TypeOK, Tx, HistoryCoversNetwork
    <3>2. mtx[tx.id].status # "none" => mtx[tx.id].hist \subseteq mtx'[tx.id].hist
      BY <3>1, CopiesStep, Zenon DEF RowAdvances
    <3> QED BY <3>1, <3>2, Zenon DEF CopiesAgree, CopyAgrees
  <2>2. CASE tx \notin net
    <3>1. PICK i \in Ids : Send(i) /\ tx = TxOf(i, mTx[i])
      BY <2>2, Zenon DEF Next, MineTx, MineEmpty, ReorgL1, SyncBlock, ResetState, MonitorTxs, Crash,
           Add, Monitor, CheckHistory, ReviewNonce, ReviewTx, Build, Send, MarkSent, WaitTxToBeMined,
           GetTxReceipt, CheckSynced, Commit, Owner, OwnerResult, SetStatusDoneGet,
           SetStatusDoneUpdate, vars, l1Vars
    <3>2. tx \in mtx[i].hist /\ tx.id = i /\ mtx' = mtx
      BY <3>1, Zenon DEF Send, CopiesAgree, CopyAgrees, TxOf
    <3> QED BY <3>2, Zenon
  <2> QED BY <2>1, <2>2, Zenon
<1> QED BY <1>1, <1>2, TypeCorrect, CopiesCorrect, PTL DEF Spec

-----------------------------------------------------------------------------
(***************************************************************************)
(* The data of a monitored transaction takes effect on the rollup at most  *)
(* once, as long as the L1 does not reorg and its node answers every call. *)
(***************************************************************************)

\* A transaction that reverted stays reverted when the chain only grows.
LEMMA RevertedStays ==
  ASSUME TypeOK, NEW tx, Reverted(tx),
         chain' = chain \/ (\E blk \in Block : chain' = Append(chain, blk))
  PROVE  Reverted(tx)'
<1>1. PICK b \in DOMAIN chain : tx \in chain[b].txs /\ chain[b].status = "failed"
  BY Zenon DEF Reverted
<1>2. ASSUME NEW blk \in Block, chain' = Append(chain, blk)
      PROVE  b \in DOMAIN chain' /\ chain'[b] = chain[b]
  BY <1>1, <1>2 DEF TypeOK
<1>3. b \in DOMAIN chain' /\ chain'[b] = chain[b]
  BY <1>1, <1>2, Zenon
<1> QED BY <1>1, <1>3, Zenon DEF Reverted

\* Without reorgs the chain only grows, by MineTx and MineEmpty.
LEMMA ChainGrows ==
  ASSUME TypeOK, MaxReorgs = 0, [Next]_vars
  PROVE  chain' = chain \/ (\E blk \in Block : chain' = Append(chain, blk))
<1>1. CASE MineTx
  <2>1. PICK tx \in net, status \in ReceiptStatus :
          chain' = Append(chain, [fork |-> forks, txs |-> {tx}, status |-> status,
                     acct |-> [Accounts(chain) EXCEPT ![From[tx.id]] = @ + 1]])
    BY <1>1, Zenon DEF MineTx
  <2>2. Accounts(chain) \in [Senders -> Nat] /\ tx \in Tx /\ forks \in Nat
    BY AccountsType, Zenon DEF TypeOK
  <2>3. [Accounts(chain) EXCEPT ![From[tx.id]] = @ + 1] \in [Senders -> Nat]
    BY <2>2, ConstantsAssumption DEF Tx
  <2>4. [fork |-> forks, txs |-> {tx}, status |-> status,
         acct |-> [Accounts(chain) EXCEPT ![From[tx.id]] = @ + 1]] \in Block
    BY <2>2, <2>3, Zenon DEF Block
  <2> QED BY <2>1, <2>4, Zenon
<1>2. CASE MineEmpty
  <2>1. Accounts(chain) \in [Senders -> Nat] /\ forks \in Nat
    BY AccountsType, Zenon DEF TypeOK
  <2>2. [fork |-> forks, txs |-> {}, status |-> "successful", acct |-> Accounts(chain)] \in Block
    BY <2>1, Zenon DEF Block, ReceiptStatus
  <2> QED BY <1>2, <2>2, Zenon DEF MineEmpty
<1>3. ~ReorgL1
  BY DEF ReorgL1, TypeOK
<1> QED BY <1>1, <1>2, <1>3, Zenon DEF Next, SyncBlock, ResetState, MonitorTxs, Crash, Add, Monitor,
      CheckHistory, ReviewNonce, ReviewTx, Build, Send, MarkSent, WaitTxToBeMined, GetTxReceipt,
      CheckSynced, Commit, Owner, OwnerResult, SetStatusDoneGet, SetStatusDoneUpdate,
      vars, l1Vars

\* The nonce of an account in the latest block is at least the one in any block.
LEMMA LatestNonce ==
  ASSUME TypeOK, NoncesAscend, NEW b \in DOMAIN chain, NEW s \in Senders
  PROVE  chain[b].acct[s] <= Accounts(chain)[s]
<1>1. chain # <<>> /\ b \in 1 .. Len(chain) /\ Len(chain) \in DOMAIN chain
  BY DEF TypeOK
<1>2. chain[b].acct[s] \in Nat
  <2>1. chain[b] \in Block
    BY DEF TypeOK
  <2> QED BY <2>1, Zenon DEF Block
<1>3. CASE b = Len(chain)
  BY <1>1, <1>2, <1>3 DEF Accounts
<1>4. CASE b < Len(chain)
  BY <1>1, <1>4, Zenon DEF Accounts, NoncesAscend
<1> QED BY <1>1, <1>3, <1>4 DEF TypeOK

\* Appending a block with the next nonce keeps the nonces ascending.
LEMMA AppendAscends ==
  ASSUME TypeOK, NoncesAscend, net' = net, NEW blk \in Block, chain' = Append(chain, blk),
         \A s \in Senders : Accounts(chain)[s] <= blk.acct[s],
         \A tx \in blk.txs : /\ tx \in net /\ tx.nonce = Accounts(chain)[From[tx.id]]
                             /\ tx.nonce < blk.acct[From[tx.id]]
  PROVE  NoncesAscend'
<1> DEFINE n == Len(chain)
<1>0. /\ n \in Nat /\ DOMAIN chain = 1 .. n /\ DOMAIN chain' = 1 .. n + 1
      /\ chain'[n + 1] = blk /\ \A b \in 1 .. n : chain'[b] = chain[b]
  BY DEF TypeOK
<1>1. ASSUME NEW b \in DOMAIN chain', NEW tx \in chain'[b].txs
      PROVE  tx \in net' /\ tx.nonce < chain'[b].acct[From[tx.id]]
  <2>1. CASE b = n + 1
    BY <1>0, <1>1, <2>1, Zenon
  <2>2. CASE b \in 1 .. n
    BY <1>0, <1>1, <2>2, Zenon DEF NoncesAscend
  <2> QED BY <1>0, <2>1, <2>2
<1>2. ASSUME NEW b \in DOMAIN chain', NEW c \in DOMAIN chain', b < c
      PROVE  /\ \A s \in Senders : chain'[b].acct[s] <= chain'[c].acct[s]
             /\ \A tx \in chain'[c].txs : chain'[b].acct[From[tx.id]] <= tx.nonce
  <2>1. CASE c = n + 1
    <3>1. b \in 1 .. n /\ chain'[b] = chain[b] /\ chain'[c] = blk
      BY <1>0, <1>2, <2>1
    <3>2. \A s \in Senders : chain[b].acct[s] <= Accounts(chain)[s]
      BY <1>0, <3>1, LatestNonce, Zenon
    <3>3. \A s \in Senders : chain[b].acct[s] \in Nat /\ Accounts(chain)[s] \in Nat /\ blk.acct[s] \in Nat
      <4>1. chain[b] \in Block /\ Accounts(chain) \in [Senders -> Nat]
        BY <1>0, <3>1, AccountsType DEF TypeOK
      <4> QED BY <4>1, Zenon DEF Block
    <3>4. \A s \in Senders : chain[b].acct[s] <= blk.acct[s]
      BY <3>2, <3>3
    <3>5. \A tx \in blk.txs : From[tx.id] \in Senders
      BY ConstantsAssumption DEF TypeOK, Tx
    <3> QED BY <3>1, <3>2, <3>4, <3>5
  <2>2. CASE c \in 1 .. n
    <3>1. b \in 1 .. n
      BY <1>0, <1>2, <2>2
    <3> QED BY <1>0, <1>2, <2>2, <3>1 DEF NoncesAscend
  <2> QED BY <1>0, <1>2, <2>1, <2>2
<1> QED BY <1>1, <1>2, Zenon DEF NoncesAscend

\* Every step keeps the nonces of the chain ascending.
LEMMA AscendStep ==
  ASSUME TypeOK, MaxReorgs = 0, NoncesAscend, [Next]_vars
  PROVE  NoncesAscend'
<1>1. CASE MineTx
  <2>1. PICK tx \in net, status \in ReceiptStatus :
          /\ tx.nonce = CurrentNonce(From[tx.id])
          /\ chain' = Append(chain, [fork |-> forks, txs |-> {tx}, status |-> status,
                        acct |-> [Accounts(chain) EXCEPT ![From[tx.id]] = @ + 1]])
    BY <1>1, Zenon DEF MineTx
  <2> DEFINE acct == [Accounts(chain) EXCEPT ![From[tx.id]] = @ + 1]
             blk == [fork |-> forks, txs |-> {tx}, status |-> status, acct |-> acct]
  <2>2. /\ Accounts(chain) \in [Senders -> Nat] /\ forks \in Nat /\ tx \in Tx
        /\ From[tx.id] \in Senders
    BY AccountsType, ConstantsAssumption, Zenon DEF TypeOK, Tx
  <2>3. acct \in [Senders -> Nat] /\ \A s \in Senders : Accounts(chain)[s] <= acct[s]
    BY <2>2
  <2>4. Accounts(chain)[From[tx.id]] < acct[From[tx.id]]
    BY <2>2
  <2> HIDE DEF acct
  <2>5. blk \in Block /\ blk.txs = {tx} /\ blk.acct = acct
    BY <2>2, <2>3, Zenon DEF Block
  <2>6. net' = net /\ chain' = Append(chain, blk)
    BY <1>1, <2>1, Zenon DEF MineTx, acct
  <2> HIDE DEF blk
  <2>7. tx.nonce = Accounts(chain)[From[tx.id]]
    BY <2>1, Zenon DEF CurrentNonce
  <2> QED BY <2>3, <2>4, <2>5, <2>6, <2>7, AppendAscends, Zenon
<1>2. CASE MineEmpty
  <2> DEFINE blk == [fork |-> forks, txs |-> {}, status |-> "successful", acct |-> Accounts(chain)]
  <2>1. Accounts(chain) \in [Senders -> Nat] /\ forks \in Nat
    BY AccountsType, Zenon DEF TypeOK
  <2>2. blk \in Block /\ blk.txs = {} /\ \A s \in Senders : Accounts(chain)[s] <= blk.acct[s]
    BY <2>1 DEF Block, ReceiptStatus
  <2>3. net' = net /\ chain' = Append(chain, blk)
    BY <1>2, Zenon DEF MineEmpty
  <2> HIDE DEF blk
  <2> QED BY <2>2, <2>3, AppendAscends, Zenon
<1>3. CASE chain' = chain /\ net \subseteq net'
  BY <1>3, Zenon DEF NoncesAscend
<1>4. ~ReorgL1
  BY DEF ReorgL1, TypeOK
<1> QED BY <1>1, <1>2, <1>3, <1>4, Zenon DEF Next, SyncBlock, ResetState, MonitorTxs, Crash, Add, Monitor,
      CheckHistory, ReviewNonce, ReviewTx, Build, Send, MarkSent, WaitTxToBeMined, GetTxReceipt,
      CheckSynced, Commit, Owner, OwnerResult, SetStatusDoneGet, SetStatusDoneUpdate,
      vars, l1Vars

\* The state stays on the chain, so ResetState never runs.
LEMMA PrefixStep ==
  ASSUME TypeOK, MaxReorgs = 0, IsPrefix(synced, chain), [Next]_vars
  PROVE  IsPrefix(synced, chain)' /\ ~ResetState
<1>1. ~ResetState
  BY Zenon DEF ResetState
<1>2. CASE SyncBlock
  <2>1. chain' = chain /\ Len(synced) < Len(chain)
        /\ synced' = Append(synced, chain[Len(synced) + 1])
    BY <1>2, Zenon DEF SyncBlock, l1Vars
  <2>2. chain[Len(synced) + 1] \in Block
    BY <2>1 DEF TypeOK
  <2>3. /\ Len(synced') = Len(synced) + 1 /\ DOMAIN synced' = 1 .. Len(synced) + 1
        /\ synced'[Len(synced) + 1] = chain[Len(synced) + 1]
        /\ \A b \in 1 .. Len(synced) : synced'[b] = synced[b]
    BY <2>1, <2>2 DEF TypeOK
  <2>4. Len(synced) \in Nat /\ Len(chain) \in Nat /\ DOMAIN synced = 1 .. Len(synced)
    BY DEF TypeOK
  <2>5. \A b \in 1 .. Len(synced) + 1 : synced'[b] = chain[b]
    BY <2>3, <2>4 DEF IsPrefix
  <2> QED BY <1>1, <2>1, <2>3, <2>4, <2>5 DEF IsPrefix
<1>3. CASE synced' = synced
  <2>1. CASE chain' = chain
    BY <1>1, <1>3, <2>1, Zenon DEF IsPrefix
  <2>2. ASSUME NEW blk \in Block, chain' = Append(chain, blk) PROVE IsPrefix(synced, chain)'
    BY <1>3, <2>2 DEF IsPrefix, TypeOK
  <2> QED BY <1>1, <2>1, <2>2, ChainGrows, Zenon
<1> QED BY <1>1, <1>2, <1>3, Zenon DEF Next, MineTx, MineEmpty, ReorgL1, MonitorTxs, Crash, Add, Monitor,
      CheckHistory, ReviewNonce, ReviewTx, Build, Send, MarkSent, WaitTxToBeMined, GetTxReceipt,
      CheckSynced, Commit, Owner, OwnerResult, SetStatusDoneGet, SetStatusDoneUpdate, vars

-----------------------------------------------------------------------------
\* A step that leaves row j and its copies alone keeps RenewedOverReverted(j).
LEMMA OtherRenewed ==
  ASSUME NEW j \in Ids, RenewedOverReverted(j), \A tx : Reverted(tx) => Reverted(tx)',
         mtx'[j] = mtx[j], pc'[j] = pc[j], mTx'[j] = mTx[j], todo'[j] = todo[j],
         unmined'[j] = unmined[j], reverted'[j] = reverted[j],
         ownPc'[j] = ownPc[j], ownTx'[j] = ownTx[j]
  PROVE  RenewedOverReverted(j)'
BY Zenon DEF RenewedOverReverted

\* A goroutine that returns without an Update keeps it as well.
LEMMA ReturnRenewed ==
  ASSUME NEW j \in Ids, TypeOK, RenewedOverReverted(j), \A tx : Reverted(tx) => Reverted(tx)',
         Return(j), mtx'[j] = mtx[j], ownPc'[j] = ownPc[j], ownTx'[j] = ownTx[j]
  PROVE  RenewedOverReverted(j)'
BY Zenon DEF RenewedOverReverted, Return, Goto, TypeOK

\* Every step keeps older transactions of a row reverted.
LEMMA RenewedStep ==
  ASSUME TypeOK, CopiesAgree, NonceDiscipline, MaxReorgs = 0, ~RpcErrors, [Next]_vars,
         NEW j \in Ids
  PROVE  RenewedOverReverted(j)'
<1>0. /\ RenewedOverReverted(j) /\ CopyAgrees(j)
      /\ mtx[j] \in Row /\ mTx[j] \in Row /\ ownTx[j] \in Row
  BY Zenon DEF NonceDiscipline, CopiesAgree, TypeOK
<1>R. \A tx : Reverted(tx) => Reverted(tx)'
  BY ChainGrows, RevertedStays, Zenon
<1>1. CASE MineTx \/ MineEmpty \/ SyncBlock
  BY <1>0, <1>R, <1>1, OtherRenewed, Zenon DEF MineTx, MineEmpty, SyncBlock, monVars,
     ownVars
<1>2. ~ResetState /\ ~ReorgL1
  BY PrefixStep DEF NonceDiscipline, ReorgL1, TypeOK
<1>3. CASE MonitorTxs
  <2>1. mtx'[j] = mtx[j] /\ reverted'[j] = reverted[j] /\ ownPc'[j] = ownPc[j] /\ ownTx'[j] = ownTx[j]
    BY <1>3, Zenon DEF MonitorTxs, ownVars
  <2>2. CASE mtx[j].status \in Monitored
    <3>1. pc'[j] = "check" /\ mTx'[j] = mtx[j] /\ todo'[j] = mtx[j].hist
      BY <1>3, <2>2, Zenon DEF MonitorTxs
    <3> QED BY <1>0, <1>R, <2>1, <2>2, <3>1, Zenon DEF RenewedOverReverted, Monitored
  <2>3. CASE mtx[j].status \notin Monitored
    <3>1. pc'[j] = "idle"
      BY <1>3, <2>3, Zenon DEF MonitorTxs
    <3> QED BY <1>0, <1>R, <2>1, <3>1, Zenon DEF RenewedOverReverted
  <2> QED BY <2>2, <2>3, Zenon
<1>4. CASE Crash
  BY <1>0, <1>R, <1>4, Zenon DEF Crash, RenewedOverReverted
<1>5. ASSUME NEW i \in Ids, Add(i) PROVE RenewedOverReverted(j)'
  <2>1. CASE i # j
    BY <1>0, <1>5, <1>R, <2>1, OtherRenewed, Zenon DEF Add, TypeOK, monVars, ownVars
  <2>2. CASE i = j
    <3>1. mtx'[j].hist = {} /\ mtx'[j].status = "created"
      BY <1>5, <2>2 DEF Add, TypeOK
    <3>2. pc'[j] = "idle" /\ ownPc'[j] = "idle" /\ reverted'[j] = reverted[j]
      BY <1>0, <1>5, <2>2, Zenon DEF Add, CopyAgrees, monVars, ownVars
    <3> QED BY <1>0, <1>R, <3>1, <3>2, Zenon DEF RenewedOverReverted
  <2> QED BY <2>1, <2>2, Zenon
<1>6. ASSUME NEW i \in Ids, Monitor(i), i # j PROVE RenewedOverReverted(j)'
  <2>1. mtx'[j] = mtx[j] /\ pc'[j] = pc[j] /\ mTx'[j] = mTx[j]
    BY <1>6 DEF Monitor, CheckHistory, ReviewNonce, ReviewTx, Build, Send, MarkSent, WaitTxToBeMined,
                GetTxReceipt, CheckSynced, Commit, Return, Goto, Update, TypeOK
  <2>2. todo'[j] = todo[j] /\ unmined'[j] = unmined[j] /\ reverted'[j] = reverted[j]
    BY <1>6 DEF Monitor, CheckHistory, ReviewNonce, ReviewTx, Build, Send, MarkSent, WaitTxToBeMined,
                GetTxReceipt, CheckSynced, Commit, Return, TypeOK
  <2>3. ownPc'[j] = ownPc[j] /\ ownTx'[j] = ownTx[j]
    BY <1>6, Zenon DEF Monitor, CheckHistory, ReviewNonce, ReviewTx, Build, Send,
       MarkSent, WaitTxToBeMined, GetTxReceipt, CheckSynced, Commit, ownVars
  <2> QED BY <1>0, <1>R, <2>1, <2>2, <2>3, OtherRenewed
<1>7. ASSUME Monitor(j) PROVE RenewedOverReverted(j)'
  <2>0. /\ pc[j] # "idle" /\ ownPc'[j] = ownPc[j] /\ ownTx'[j] = ownTx[j] /\ ownPc[j] # "update"
        /\ mTx[j].hist = mtx[j].hist
    BY <1>0, <1>7 DEF Monitor, CheckHistory, ReviewNonce, ReviewTx, Build, Send, MarkSent, WaitTxToBeMined,
         GetTxReceipt, CheckSynced, Commit, ownVars, RenewedOverReverted, CopyAgrees
  <2>1. CASE CheckHistory(j)
    <3>1. mtx'[j] = mtx[j] /\ mTx'[j] = mTx[j] /\ pc[j] = "check"
      BY <2>1, Zenon DEF CheckHistory
    <3>2. CASE pc'[j] = "synced" /\ reverted'[j] = reverted[j]
      BY <1>0, <1>R, <2>0, <3>1, <3>2, Zenon DEF RenewedOverReverted
    <3>3. ASSUME NEW h \in todo[j], todo'[j] = todo[j] \ {h},
                 \/ unmined'[j] = unmined[j] \cup {h} /\ reverted'[j] = reverted[j]
                 \/ Reverted(h) /\ reverted'[j] = reverted[j] \cup {h} /\ unmined'[j] = unmined[j]
          PROVE  RenewedOverReverted(j)'
      BY <1>0, <1>R, <2>0, <3>1, <3>3, Zenon DEF RenewedOverReverted
    <3> QED BY <2>1, <3>2, <3>3, Zenon DEF CheckHistory, Goto, TypeOK
  <2>2. CASE ReviewNonce(j)
    <3> DEFINE row == IF NonceToReview(j) THEN WithNonce(mTx[j], CurrentNonce(From[j])) ELSE mTx[j]
    <3>1. mTx[j].status \in {"created", "sent"} /\ pc[j] = "check" /\ todo[j] = {}
      BY <1>0, <2>2, Zenon DEF ReviewNonce, CopyAgrees, RenewedOverReverted
    <3>2. pc'[j] = "review" /\ mTx'[j] = row /\ reverted'[j] = reverted[j]
      BY <2>2, <3>1, Zenon DEF ReviewNonce, Goto, TypeOK
    <3>3. CASE ~NonceToReview(j)
      <4>1. mtx'[j] = mtx[j] /\ mTx'[j] = mTx[j]
        BY <2>2, <3>2, <3>3, Zenon DEF ReviewNonce
      <4> QED BY <1>0, <1>R, <2>0, <3>2, <4>1, Zenon DEF RenewedOverReverted
    <3>4. CASE NonceToReview(j)
      <4>1. mtx'[j] = row
        BY <2>2, <3>4, Zenon DEF ReviewNonce, Update, TypeOK
      <4>2. \A tx \in mTx[j].hist : Reverted(tx)
        BY <1>0, <3>1, <3>4, Zenon DEF NonceToReview, RenewedOverReverted
      <4>3. CurrentNonce(From[j]) \in Nat
        BY AccountsType, ConstantsAssumption, Zenon DEF CurrentNonce, TypeOK
      <4>4. /\ row.hist = mTx[j].hist /\ row.status = mTx[j].status
            /\ mTx[j].nonce \in Nat /\ row.nonce \in Nat /\ row.nonce >= mTx[j].nonce
        BY <1>0, <4>3 DEF WithNonce, Row
      <4>5. \A tx \in mTx[j].hist : tx.nonce \in Nat
        BY <1>0, Zenon DEF Row, Tx
      <4> HIDE DEF row
      <4>6. \A tx \in mtx'[j].hist : tx.id = j /\ tx.nonce <= mtx'[j].nonce /\ Reverted(tx)'
        <5>1. \A tx \in mTx[j].hist : tx.id = j /\ tx.nonce <= mTx[j].nonce
          BY <1>0, <2>0, Zenon DEF RenewedOverReverted
        <5> QED BY <1>R, <4>1, <4>2, <4>4, <4>5, <5>1
      <4>7. mtx'[j].status \in {"created", "sent"} /\ mTx'[j].nonce = mtx'[j].nonce
        BY <3>1, <3>2, <4>1, <4>4, Zenon
      <4> QED BY <1>0, <1>R, <2>0, <3>2, <4>6, <4>7, Zenon DEF RenewedOverReverted
    <3> QED BY <3>3, <3>4, Zenon
  <2>8. CASE ReviewTx(j)
    <3>1. pc'[j] = "build" /\ reverted'[j] = reverted[j] /\ pc[j] = "review"
      BY <2>8, Zenon DEF ReviewTx, Goto, TypeOK
    <3>2. CASE mtx'[j] = mtx[j] /\ mTx'[j] = mTx[j]
      BY <1>0, <1>R, <2>0, <3>1, <3>2, Zenon DEF RenewedOverReverted
    <3>3. ASSUME NEW price, mtx'[j] = [mTx[j] EXCEPT !.price = price], mTx'[j] = mtx'[j]
          PROVE  RenewedOverReverted(j)'
      <4>1. /\ mtx'[j].status = mTx[j].status /\ mtx'[j].hist = mTx[j].hist
            /\ mtx'[j].nonce = mTx[j].nonce
        BY <1>0, <3>3, Zenon DEF Row
      <4>2. mTx[j].status = mtx[j].status
        BY <1>0, <3>1, Zenon DEF CopyAgrees
      <4> QED BY <1>0, <1>R, <2>0, <3>1, <3>3, <4>1, <4>2, Zenon DEF RenewedOverReverted
    <3> QED BY <2>8, <3>2, <3>3, Zenon DEF ReviewTx, Update, TypeOK
  <2>3. CASE Build(j)
    <3> DEFINE built == WithHistory(j, mTx[j])
               tx == TxOf(j, mTx[j])
    <3>2. /\ built.status = mTx[j].status /\ built.nonce = mTx[j].nonce
          /\ built.hist = mTx[j].hist \cup {tx}
          /\ tx.id = j /\ tx.nonce = mTx[j].nonce /\ mTx[j].nonce \in Nat
      BY <1>0, Zenon DEF WithHistory, TxOf, Row
    <3>3. mtx'[j] = built /\ mTx'[j] = built
      BY <2>3, Zenon DEF Build, Update, TypeOK
    <3>4. pc'[j] = "send" /\ reverted'[j] = reverted[j] /\ pc[j] = "build"
      BY <2>3, Zenon DEF Build, Goto, TypeOK
    <3>5. mTx[j].status = mtx[j].status
      BY <1>0, <3>4, Zenon DEF CopyAgrees
    <3> HIDE DEF built, tx
    <3>6. \A t \in mtx'[j].hist :
            t.id = j /\ t.nonce <= mtx'[j].nonce /\ (t.nonce < mtx'[j].nonce => Reverted(t)')
      <4>1. \A t \in mTx[j].hist :
              t.id = j /\ t.nonce <= mTx[j].nonce /\ (t.nonce < mTx[j].nonce => Reverted(t))
        BY <1>0, <2>0, Zenon DEF RenewedOverReverted
      <4> QED BY <1>R, <3>2, <3>3, <4>1
    <3>7. mtx'[j].status \in {"created", "sent"} /\ mTx'[j].nonce = mtx'[j].nonce
      BY <1>0, <2>0, <3>2, <3>3, <3>5, Zenon DEF RenewedOverReverted
    <3> QED BY <1>0, <1>R, <2>0, <3>4, <3>6, <3>7, Zenon DEF RenewedOverReverted
  <2>4. CASE MarkSent(j)
    <3> DEFINE row == [mTx[j] EXCEPT !.status = "sent"]
    <3>1. row.status = "sent" /\ row.nonce = mTx[j].nonce /\ row.hist = mTx[j].hist
      BY <1>0, Zenon DEF Row
    <3>2. mtx'[j] = row /\ mTx'[j] = row /\ pc'[j] = "wait" /\ reverted'[j] = reverted[j]
      BY <2>4, Zenon DEF MarkSent, Update, Goto, TypeOK
    <3> HIDE DEF row
    <3> QED BY <1>0, <1>R, <2>0, <3>1, <3>2 DEF RenewedOverReverted
  <2>5. CASE Send(j) \/ WaitTxToBeMined(j) \/ GetTxReceipt(j)
    <3>1. mtx'[j] = mtx[j]
      BY <2>5, Zenon DEF Send, WaitTxToBeMined, GetTxReceipt
    <3>2. CASE Return(j)
      BY <1>0, <1>R, <2>0, <3>1, <3>2, ReturnRenewed, Zenon
    <3>3. CASE /\ mTx'[j] = mTx[j] /\ reverted'[j] = reverted[j]
               /\ pc'[j] \in {"wait", "mark", "receipt", "synced"}
      BY <1>0, <1>R, <2>0, <3>1, <3>3, Zenon DEF RenewedOverReverted
    <3> QED BY <2>5, <3>2, <3>3, Zenon DEF Send, WaitTxToBeMined, GetTxReceipt, Goto,
               TypeOK
  <2>6. CASE CheckSynced(j)
    <3>1. mtx'[j] = mtx[j] /\ pc[j] = "synced"
      BY <2>6, Zenon DEF CheckSynced
    <3>2. CASE Return(j)
      BY <1>0, <1>R, <2>0, <3>1, <3>2, ReturnRenewed, Zenon
    <3>3. CASE /\ mTx' = [mTx EXCEPT ![j] = [@ EXCEPT !.block = receipt[j].block,
                 !.status = IF receipt[j].status = "successful" THEN "confirmed" ELSE "failed"]]
               /\ Goto(j, "commit") /\ UNCHANGED <<todo, unmined, reverted, receipt>>
      <4>1. mTx'[j].nonce = mTx[j].nonce /\ pc'[j] = "commit" /\ reverted'[j] = reverted[j]
        BY <1>0, <3>3, Zenon DEF Row, TypeOK, Goto
      <4> QED BY <1>0, <1>R, <2>0, <3>1, <4>1, Zenon DEF RenewedOverReverted
    <3> QED BY <2>6, <3>2, <3>3, Zenon DEF CheckSynced
  <2>7. CASE Commit(j)
    <3>1. mtx'[j] = mTx[j] /\ pc'[j] = "idle" /\ pc[j] = "commit" /\ reverted'[j] = {}
      BY <2>7, Zenon DEF Commit, Update, Return, Goto, TypeOK
    <3> QED BY <1>0, <1>R, <2>0, <3>1, Zenon DEF RenewedOverReverted, CopyAgrees
  <2> QED BY <1>7, <2>1, <2>2, <2>3, <2>4, <2>5, <2>6, <2>7, <2>8, Zenon DEF Monitor
<1>8. ASSUME NEW i \in Ids, Owner(i) PROVE RenewedOverReverted(j)'
  <2>1. /\ pc'[j] = pc[j] /\ mTx'[j] = mTx[j] /\ todo'[j] = todo[j] /\ unmined'[j] = unmined[j]
        /\ reverted'[j] = reverted[j]
    BY <1>8, Zenon DEF Owner, OwnerResult, SetStatusDoneGet, SetStatusDoneUpdate, monVars
  <2>2. CASE i # j
    <3>1. mtx'[j] = mtx[j] /\ ownPc'[j] = ownPc[j] /\ ownTx'[j] = ownTx[j]
      BY <1>8, <2>2, Zenon DEF Owner, OwnerResult, SetStatusDoneGet, SetStatusDoneUpdate,
         Update, TypeOK
    <3> QED BY <1>0, <1>R, <2>1, <3>1, OtherRenewed, Zenon
  <2>3. CASE i = j /\ (OwnerResult(i) \/ SetStatusDoneGet(i))
    <3>1. mtx'[j] = mtx[j] /\ (ownPc'[j] = "update" => ownTx'[j] = mtx[j])
      BY <2>3, Zenon DEF OwnerResult, SetStatusDoneGet, TypeOK
    <3> QED BY <1>0, <1>R, <2>1, <3>1, Zenon DEF RenewedOverReverted
  <2>4. CASE i = j /\ SetStatusDoneUpdate(i)
    <3>1. /\ mtx'[j].status = "done" /\ mtx'[j].hist = ownTx[j].hist /\ ownPc'[j] = "idle"
          /\ mtx'[j].nonce = ownTx[j].nonce /\ ownPc[j] = "update"
      BY <1>0, <2>4, Zenon DEF SetStatusDoneUpdate, Update, TypeOK, Row
    <3>2. pc[j] = "idle" /\ ownTx[j].hist = mtx[j].hist
      BY <1>0, <3>1, Zenon DEF RenewedOverReverted, CopyAgrees
    <3> QED BY <1>0, <1>R, <2>1, <3>1, <3>2, Zenon DEF RenewedOverReverted
  <2> QED BY <1>8, <2>2, <2>3, <2>4, Zenon DEF Owner
<1>9. CASE UNCHANGED vars
  BY <1>0, <1>R, <1>9, OtherRenewed, Zenon DEF vars, monVars, ownVars
<1> QED BY <1>1, <1>2, <1>3, <1>4, <1>5, <1>6, <1>7, <1>8, <1>9, Zenon DEF Next

\* Nonces are only renewed over reverted transactions.
THEOREM NoncesRenewed ==
  ASSUME MaxReorgs = 0, ~RpcErrors
  PROVE  Spec => []NonceDiscipline
<1>1. Init => NonceDiscipline
  BY DEF Init, NonceDiscipline, IsPrefix, NoncesAscend, RenewedOverReverted, NoRow
<1>2. TypeOK /\ CopiesAgree /\ NonceDiscipline /\ [Next]_vars => NonceDiscipline'
  BY PrefixStep, AscendStep, RenewedStep, Zenon DEF NonceDiscipline
<1> QED BY <1>1, <1>2, TypeCorrect, CopiesCorrect, PTL DEF Spec

\* The data of a row takes effect on the rollup at most once: two successful
\* transactions of a row have different nonces, the older one is in the history
\* and has reverted, and a nonce is mined only once.
THEOREM SucceedsOnce ==
  ASSUME MaxReorgs = 0, ~RpcErrors
  PROVE  Spec => []AtMostOneSuccess
<1>1. TypeOK /\ HistoryCoversNetwork /\ NonceDiscipline => AtMostOneSuccess
  <2> SUFFICES ASSUME TypeOK, HistoryCoversNetwork, NonceDiscipline,
                      NEW b1 \in DOMAIN chain, NEW b2 \in DOMAIN chain,
                      NEW t1 \in chain[b1].txs, NEW t2 \in chain[b2].txs,
                      chain[b1].status = "successful", chain[b2].status = "successful",
                      t1.id = t2.id, b1 < b2
               PROVE  FALSE
    <3>1. \A b \in DOMAIN chain : b \in Nat
      BY DEF TypeOK
    <3> QED BY <3>1 DEF AtMostOneSuccess
  <2>1. NoncesAscend /\ t1 \in net /\ t2 \in net /\ t1 \in Tx /\ t2 \in Tx
    BY Zenon DEF NonceDiscipline, NoncesAscend, TypeOK
  <2>2. PICK i \in Ids : t1.id = i /\ t2.id = i
    BY <2>1, Zenon DEF Tx
  <2>3. \A b \in DOMAIN chain : b \in Nat /\ chain[b].acct[From[i]] \in Nat
    <3>1. \A b \in DOMAIN chain : b \in Nat /\ chain[b] \in Block
      BY DEF TypeOK
    <3> QED BY <3>1, ConstantsAssumption, Zenon DEF Block
  <2>4. t1.nonce < chain[b1].acct[From[i]] /\ chain[b1].acct[From[i]] <= t2.nonce
    BY <2>2, Zenon DEF NonceDiscipline, NoncesAscend
  <2>5. /\ t1 \in mtx[i].hist /\ t2 \in mtx[i].hist /\ mtx[i].nonce \in Nat
        /\ t1.nonce \in Nat /\ t2.nonce \in Nat
    BY <2>1, <2>2, Zenon DEF HistoryCoversNetwork, TypeOK, Row, Tx
  <2>6. t2.nonce <= mtx[i].nonce /\ (t1.nonce < mtx[i].nonce => Reverted(t1))
    BY <2>5, Zenon DEF NonceDiscipline, RenewedOverReverted
  <2>7. Reverted(t1)
    BY <2>3, <2>4, <2>5, <2>6
  <2>8. PICK b \in DOMAIN chain : t1 \in chain[b].txs /\ chain[b].status = "failed"
    BY <2>7, Zenon DEF Reverted
  <2>9. t1.nonce < chain[b].acct[From[i]]
    BY <2>1, <2>2, <2>8, Zenon DEF NoncesAscend
  <2>10. CASE b < b1
    <3>1. chain[b].acct[From[i]] <= t1.nonce
      BY <2>1, <2>2, <2>10, Zenon DEF NoncesAscend
    <3> QED BY <2>3, <2>5, <2>9, <3>1
  <2>11. CASE b1 < b
    <3>1. chain[b1].acct[From[i]] <= t1.nonce
      BY <2>1, <2>2, <2>8, <2>11, Zenon DEF NoncesAscend
    <3> QED BY <2>3, <2>4, <2>5, <3>1
  <2>12. b # b1
    BY <2>8, Zenon
  <2> QED BY <2>3, <2>10, <2>11, <2>12
<1> QED BY <1>1, TypeCorrect, HistoryIsComplete, NoncesRenewed, PTL

-----------------------------------------------------------------------------
(***************************************************************************)
(* The transaction manager implements MonitoredTxs, as long as the L1 does *)
(* not reorg and its node answers every call.                              *)
(***************************************************************************)

\* An effect stays where it is when the chain only grows.
LEMMA EffectStays ==
  ASSUME TypeOK, MaxReorgs = 0, [Next]_vars, NEW i, NEW b \in DOMAIN chain
  PROVE  b \in DOMAIN chain' /\ TookEffect(i, b)' = TookEffect(i, b)
<1>1. ASSUME NEW blk \in Block, chain' = Append(chain, blk)
      PROVE  b \in DOMAIN chain' /\ chain'[b] = chain[b]
  BY <1>1 DEF TypeOK
<1>2. b \in DOMAIN chain' /\ chain'[b] = chain[b]
  BY <1>1, ChainGrows, Zenon
<1> QED BY <1>2, Zenon DEF TookEffect

\* The state only gains blocks.
LEMMA SyncedGrows ==
  ASSUME TypeOK, NonceDiscipline, MaxReorgs = 0, [Next]_vars, NEW b \in DOMAIN synced
  PROVE  b \in DOMAIN synced' /\ b \in DOMAIN chain
<1>1. ~ResetState /\ b \in DOMAIN chain
  BY PrefixStep DEF NonceDiscipline, IsPrefix, TypeOK
<1>2. CASE SyncBlock
  <2>1. chain[Len(synced) + 1] \in Block /\ synced' = Append(synced, chain[Len(synced) + 1])
    BY <1>2 DEF SyncBlock, TypeOK
  <2> QED BY <1>1, <2>1 DEF TypeOK
<1>3. CASE synced' = synced
  BY <1>1, <1>3, Zenon
<1> QED BY <1>1, <1>2, <1>3, Zenon DEF Next, MineTx, MineEmpty, ReorgL1, MonitorTxs, Crash, Add, Monitor,
      CheckHistory, ReviewNonce, ReviewTx, Build, Send, MarkSent, WaitTxToBeMined, GetTxReceipt,
      CheckSynced, Commit, Owner, OwnerResult, SetStatusDoneGet, SetStatusDoneUpdate, vars

\* A step that leaves row j and its copies alone keeps what its reports rest on.
LEMMA OtherReport ==
  ASSUME TypeOK, NonceDiscipline, MaxReorgs = 0, [Next]_vars, NEW j \in Ids, ReportHolds(j),
         mtx'[j] = mtx[j], pc'[j] = pc[j], mTx'[j] = mTx[j], todo'[j] = todo[j],
         receipt'[j] = receipt[j], ownPc'[j] = ownPc[j], ownTx'[j] = ownTx[j]
  PROVE  ReportHolds(j)'
<1>1. \A b \in DOMAIN chain : b \in DOMAIN chain' /\ TookEffect(j, b)' = TookEffect(j, b)
  BY EffectStays, Zenon
<1>2. \A b \in DOMAIN synced : b \in DOMAIN synced' /\ b \in DOMAIN chain
  BY SyncedGrows, Zenon
<1> QED BY <1>1, <1>2, Zenon DEF ReportHolds

\* Every step keeps what the reports of row j rest on.
LEMMA ReportStep ==
  ASSUME TypeOK, CopiesAgree, NonceDiscipline, MaxReorgs = 0, ~RpcErrors, [Next]_vars,
         NEW j \in Ids, ReportHolds(j)
  PROVE  ReportHolds(j)'
<1>0. /\ RenewedOverReverted(j) /\ CopyAgrees(j)
      /\ mtx[j] \in Row /\ mTx[j] \in Row /\ ownTx[j] \in Row
  BY Zenon DEF NonceDiscipline, CopiesAgree, TypeOK
<1>E. \A b \in DOMAIN chain : b \in DOMAIN chain' /\ TookEffect(j, b)' = TookEffect(j, b)
  BY EffectStays, Zenon
<1>S. \A b \in DOMAIN synced : b \in DOMAIN synced' /\ b \in DOMAIN chain
  BY SyncedGrows, Zenon
<1>1. CASE MineTx \/ MineEmpty \/ SyncBlock
  BY <1>1, OtherReport, Zenon DEF MineTx, MineEmpty, SyncBlock, monVars, ownVars
<1>2. ~ResetState /\ ~ReorgL1
  BY PrefixStep DEF NonceDiscipline, ReorgL1, TypeOK
<1>3. CASE MonitorTxs
  <2>1. /\ mtx'[j] = mtx[j] /\ ownPc'[j] = ownPc[j] /\ ownTx'[j] = ownTx[j]
        /\ pc'[j] \in {"check", "idle"} /\ todo'[j] \subseteq mtx[j].hist
    BY <1>3, Zenon DEF MonitorTxs, ownVars
  <2> QED BY <1>0, <1>E, <1>S, <2>1, Zenon DEF ReportHolds, RenewedOverReverted
<1>4. CASE Crash
  <2>1. mtx'[j] = mtx[j] /\ ownPc'[j] = "idle" /\ pc'[j] = "idle" /\ todo'[j] = {}
    BY <1>4, Zenon DEF Crash
  <2> QED BY <1>E, <1>S, <2>1, Zenon DEF ReportHolds
<1>5. ASSUME NEW i \in Ids, Add(i) PROVE ReportHolds(j)'
  <2>1. CASE i # j
    BY <1>5, <2>1, OtherReport, Zenon DEF Add, TypeOK, monVars, ownVars
  <2>2. CASE i = j
    <3>1. mtx'[j].status = "created"
      BY <1>5, <2>2 DEF Add, TypeOK
    <3>2. pc'[j] = "idle" /\ ownPc'[j] = "idle" /\ todo'[j] = todo[j]
      BY <1>0, <1>5, <2>2, Zenon DEF Add, CopyAgrees, monVars, ownVars
    <3> QED BY <3>1, <3>2, Zenon DEF ReportHolds
  <2> QED BY <2>1, <2>2, Zenon
<1>6. ASSUME NEW i \in Ids, Monitor(i), i # j PROVE ReportHolds(j)'
  <2>1. mtx'[j] = mtx[j] /\ pc'[j] = pc[j] /\ mTx'[j] = mTx[j]
    BY <1>6 DEF Monitor, CheckHistory, ReviewNonce, ReviewTx, Build, Send, MarkSent, WaitTxToBeMined,
                GetTxReceipt, CheckSynced, Commit, Return, Goto, Update, TypeOK
  <2>2. todo'[j] = todo[j] /\ receipt'[j] = receipt[j]
    BY <1>6 DEF Monitor, CheckHistory, ReviewNonce, ReviewTx, Build, Send, MarkSent, WaitTxToBeMined,
                GetTxReceipt, CheckSynced, Commit, Return, TypeOK
  <2>3. ownPc'[j] = ownPc[j] /\ ownTx'[j] = ownTx[j]
    BY <1>6, Zenon DEF Monitor, CheckHistory, ReviewNonce, ReviewTx, Build, Send,
       MarkSent, WaitTxToBeMined, GetTxReceipt, CheckSynced, Commit, ownVars
  <2> QED BY <2>1, <2>2, <2>3, OtherReport
<1>7. ASSUME Monitor(j) PROVE ReportHolds(j)'
  <2>0. /\ pc[j] # "idle" /\ ownPc'[j] = ownPc[j] /\ ownPc[j] = "idle"
        /\ mtx[j].status \in {"created", "sent"}
    <3>1. pc[j] # "idle" /\ ownPc'[j] = ownPc[j]
      BY <1>7, Zenon DEF Monitor, CheckHistory, ReviewNonce, ReviewTx, Build, Send,
         MarkSent, WaitTxToBeMined, GetTxReceipt, CheckSynced, Commit, ownVars
    <3>2. mtx[j].status \in {"created", "sent"}
      BY <1>0, <3>1, Zenon DEF RenewedOverReverted
    <3> QED BY <3>1, <3>2, Zenon DEF ReportHolds
  <2>R. CASE Return(j) /\ mtx'[j].status \in {"created", "sent"}
    <3>1. pc'[j] = "idle" /\ todo'[j] = {}
      BY <2>R, Zenon DEF Return, Goto, TypeOK
    <3> QED BY <2>0, <2>R, <3>1, Zenon DEF ReportHolds
  <2>G. CASE /\ pc'[j] \in {"check", "review", "build", "send", "mark", "wait", "receipt"}
             /\ todo'[j] \subseteq todo[j] /\ mtx'[j].status \in {"created", "sent"}
    BY <2>0, <2>G, Zenon DEF ReportHolds
  <2>1. CASE CheckHistory(j)
    <3>1. mtx'[j] = mtx[j] /\ pc[j] = "check"
      BY <2>1, Zenon DEF CheckHistory
    <3>2. CASE pc'[j] = "check" /\ todo'[j] \subseteq todo[j]
      BY <2>0, <2>G, <3>1, <3>2, Zenon
    <3>3. ASSUME NEW h \in todo[j], NEW b \in DOMAIN chain, h \in chain[b].txs,
                 chain[b].status = "successful", pc'[j] = "synced", todo'[j] = todo[j],
                 receipt'[j] = [block |-> b, status |-> "successful"]
          PROVE  ReportHolds(j)'
      <4>1. TookEffect(j, b)
        BY <3>3, Zenon DEF TookEffect, ReportHolds
      <4> QED BY <1>E, <2>0, <3>1, <3>3, <4>1 DEF ReportHolds
    <3> QED BY <2>1, <3>2, <3>3 DEF CheckHistory, Goto, TypeOK
  <2>2. CASE ReviewNonce(j)
    <3>1. mTx[j].status \in {"created", "sent"} /\ pc[j] = "check"
      BY <1>0, <2>2, Zenon DEF ReviewNonce, CopyAgrees, RenewedOverReverted
    <3>2. pc'[j] = "review" /\ todo'[j] = todo[j]
      BY <2>2, <3>1, Zenon DEF ReviewNonce, Goto, TypeOK
    <3>3. mtx'[j].status \in {"created", "sent"}
      BY <1>0, <2>0, <2>2, <3>1 DEF ReviewNonce, WithNonce, Update, TypeOK, Row
    <3> QED BY <2>G, <3>2, <3>3, Zenon
  <2>8. CASE ReviewTx(j)
    <3>1. pc'[j] = "build" /\ todo'[j] = todo[j] /\ pc[j] = "review"
      BY <2>8, Zenon DEF ReviewTx, Goto, TypeOK
    <3>2. mTx[j].status = mtx[j].status
      BY <1>0, <3>1, Zenon DEF CopyAgrees
    <3>3. mtx'[j].status \in {"created", "sent"}
      BY <1>0, <2>0, <2>8, <3>2 DEF ReviewTx, Update, TypeOK, Row
    <3> QED BY <2>G, <3>1, <3>3, Zenon
  <2>3. CASE Build(j) \/ MarkSent(j)
    <3>1. /\ pc'[j] \in {"send", "wait"} /\ todo'[j] = todo[j] /\ pc[j] \in {"build", "mark"}
      BY <2>3, Zenon DEF Build, MarkSent, Goto, TypeOK
    <3>2. mTx[j].status = mtx[j].status
      BY <1>0, <3>1, Zenon DEF CopyAgrees
    <3>3. mtx'[j].status \in {"created", "sent"}
      BY <1>0, <2>0, <2>3, <3>2 DEF Build, MarkSent, WithHistory, Update, TypeOK, Row
    <3> QED BY <2>G, <3>1, <3>3, Zenon
  <2>4. CASE Send(j) \/ WaitTxToBeMined(j)
    <3>1. mtx'[j] = mtx[j]
      BY <2>4, Zenon DEF Send, WaitTxToBeMined
    <3>2. Return(j) \/ (pc'[j] \in {"wait", "mark", "receipt"} /\ todo'[j] = todo[j])
      BY <2>4, Zenon DEF Send, WaitTxToBeMined, Goto, TypeOK
    <3> QED BY <2>0, <2>R, <2>G, <3>1, <3>2, Zenon
  <2>5. CASE GetTxReceipt(j)
    <3>1. mtx'[j] = mtx[j] /\ mTx[j].status \in {"created", "sent"}
      BY <1>0, <2>0, <2>5, Zenon DEF GetTxReceipt, CopyAgrees
    <3>2. CASE Return(j)
      BY <2>0, <2>R, <3>1, <3>2, Zenon
    <3>3. ASSUME NEW b \in DOMAIN chain, TxOf(j, mTx[j]) \in chain[b].txs, pc'[j] = "synced",
                 receipt'[j] = [block |-> b, status |-> chain[b].status], todo'[j] = todo[j]
          PROVE  ReportHolds(j)'
      <4>1. chain[b].status = "successful" => TookEffect(j, b)
        BY <3>3, Zenon DEF TookEffect, TxOf
      <4> QED BY <1>E, <2>0, <3>1, <3>3, <4>1 DEF ReportHolds
    <3> QED BY <2>5, <3>2, <3>3, Zenon DEF GetTxReceipt, Goto, TypeOK
  <2>6. CASE CheckSynced(j)
    <3>1. mtx'[j] = mtx[j] /\ pc[j] = "synced"
      BY <2>6, Zenon DEF CheckSynced
    <3>2. CASE Return(j)
      BY <2>0, <2>R, <3>1, <3>2, Zenon
    <3>3. CASE /\ receipt[j].status = "successful" => Len(synced) >= receipt[j].block
               /\ mTx' = [mTx EXCEPT ![j] = [@ EXCEPT !.block = receipt[j].block,
                 !.status = IF receipt[j].status = "successful" THEN "confirmed" ELSE "failed"]]
               /\ Goto(j, "commit") /\ UNCHANGED <<todo, unmined, reverted, receipt>>
      <4>1. /\ pc'[j] = "commit" /\ todo'[j] = todo[j] /\ mTx'[j].block = receipt[j].block
            /\ mTx'[j].status = "confirmed" => receipt[j].status = "successful"
        BY <1>0, <3>3, Zenon DEF TypeOK, Goto, Row
      <4>2. ASSUME receipt[j].status = "successful"
            PROVE  receipt[j].block \in DOMAIN synced /\ TookEffect(j, receipt[j].block)
        <5>1. receipt[j].block \in DOMAIN chain /\ TookEffect(j, receipt[j].block)
          BY <3>1, <4>2, Zenon DEF ReportHolds
        <5> QED BY <3>3, <4>2, <5>1 DEF TypeOK
      <4> QED BY <1>E, <1>S, <2>0, <3>1, <4>1, <4>2, Zenon DEF ReportHolds
    <3> QED BY <2>6, <3>2, <3>3, Zenon DEF CheckSynced
  <2>7. CASE Commit(j)
    <3>1. mtx'[j] = mTx[j] /\ pc'[j] = "idle" /\ pc[j] = "commit" /\ todo'[j] = {}
      BY <2>7, Zenon DEF Commit, Update, Return, Goto, TypeOK
    <3>2. mTx[j].status \in {"confirmed", "failed"}
      BY <1>0, <3>1, Zenon DEF CopyAgrees
    <3> QED BY <1>E, <1>S, <2>0, <3>1, <3>2, Zenon DEF ReportHolds
  <2> QED BY <1>7, <2>1, <2>2, <2>3, <2>4, <2>5, <2>6, <2>7, <2>8, Zenon DEF Monitor
<1>8. ASSUME NEW i \in Ids, Owner(i) PROVE ReportHolds(j)'
  <2>1. pc'[j] = pc[j] /\ mTx'[j] = mTx[j] /\ todo'[j] = todo[j] /\ receipt'[j] = receipt[j]
    BY <1>8, Zenon DEF Owner, OwnerResult, SetStatusDoneGet, SetStatusDoneUpdate, monVars
  <2>2. CASE i # j
    <3>1. mtx'[j] = mtx[j] /\ ownPc'[j] = ownPc[j] /\ ownTx'[j] = ownTx[j]
      BY <1>8, <2>2, Zenon DEF Owner, OwnerResult, SetStatusDoneGet, SetStatusDoneUpdate,
         Update, TypeOK
    <3> QED BY <2>1, <3>1, OtherReport, Zenon
  <2>3. CASE i = j /\ (OwnerResult(i) \/ SetStatusDoneGet(i))
    <3>1. /\ mtx'[j] = mtx[j] /\ (ownPc'[j] = "update" => ownTx'[j] = mtx[j])
          /\ mtx[j].status = "confirmed"
      BY <2>3, Zenon DEF OwnerResult, SetStatusDoneGet, TypeOK, ReportHolds
    <3> QED BY <1>E, <1>S, <2>1, <3>1, Zenon DEF ReportHolds
  <2>4. CASE i = j /\ SetStatusDoneUpdate(i)
    <3>1. /\ mtx'[j] = [ownTx[j] EXCEPT !.status = "done"] /\ ownPc'[j] = "idle"
          /\ ownPc[j] = "update"
      BY <2>4, Zenon DEF SetStatusDoneUpdate, Update, TypeOK
    <3>2. ownTx[j] = mtx[j] /\ mtx[j].status = "confirmed"
      BY <3>1, Zenon DEF ReportHolds
    <3>3. mtx'[j].block = mtx[j].block /\ mtx'[j].status = "done"
      BY <1>0, <3>1, <3>2, Zenon DEF Row
    <3> QED BY <1>E, <1>S, <2>1, <3>1, <3>2, <3>3, Zenon DEF ReportHolds
  <2> QED BY <1>8, <2>2, <2>3, <2>4, Zenon DEF Owner
<1>9. CASE UNCHANGED vars
  BY <1>9, OtherReport, Zenon DEF vars, monVars, ownVars
<1> QED BY <1>1, <1>2, <1>3, <1>4, <1>5, <1>6, <1>7, <1>8, <1>9, Zenon DEF Next

\* A receipt or report of row i always names an effect of row i.
THEOREM ReportsCorrect ==
  ASSUME MaxReorgs = 0, ~RpcErrors
  PROVE  Spec => []ReportsHold
<1>1. Init => ReportsHold
  BY DEF Init, ReportsHold, ReportHolds, NoRow
<1>2. TypeOK /\ CopiesAgree /\ NonceDiscipline /\ ReportsHold /\ [Next]_vars => ReportsHold'
  BY ReportStep, Zenon DEF ReportsHold
<1> QED BY <1>1, <1>2, TypeCorrect, CopiesCorrect, NoncesRenewed, PTL DEF Spec

\* A row reported as confirmed or done succeeded in the block it names, and the
\* state has that block.
THEOREM ConfirmedIsSynced ==
  ASSUME MaxReorgs = 0, ~RpcErrors
  PROVE  Spec => []ConfirmedOnSyncedChain
<1>1. NonceDiscipline /\ ReportsHold => ConfirmedOnSyncedChain
  BY DEF NonceDiscipline, IsPrefix, ReportsHold, ReportHolds, ConfirmedOnSyncedChain, TookEffect
<1> QED BY <1>1, NoncesRenewed, ReportsCorrect, PTL

-----------------------------------------------------------------------------
(* The refinement mapping.                                                 *)

Rows == [i \in Ids |-> Stage(mtx[i].status)]
Effects == {e \in [block : DOMAIN chain, id : Ids] : TookEffect(e.id, e.block)}

\* What the refinement proof knows of the states of a step.
Facts ==
  TypeOK /\ CopiesAgree /\ HistoryCoversNetwork /\ NonceDiscipline /\ AtMostOneSuccess /\ ReportsHold

\* A step that changes no row's stage, no block and no synced block stutters.
LEMMA StutterStep ==
  ASSUME chain' = chain, synced' = synced, \A i \in Ids : Rows'[i] = Rows[i]
  PROVE  UNCHANGED Promise!mvars
<1>1. Rows' = Rows
  BY Zenon DEF Rows
<1>2. Effects' = Effects
  BY Zenon DEF Effects, TookEffect
<1> QED BY <1>1, <1>2, Zenon DEF Promise!mvars, Rows, Effects

\* An appended block adds to the effects what it holds, and nothing else.
LEMMA AppendEffects ==
  ASSUME TypeOK, NEW blk \in Block, chain' = Append(chain, blk)
  PROVE  /\ Len(chain') = Len(chain) + 1
         /\ Effects' = Effects \cup
              {e \in [block : {Len(chain) + 1}, id : Ids] :
                 blk.status = "successful" /\ \E tx \in blk.txs : tx.id = e.id}
<1>1. /\ Len(chain) \in Nat /\ DOMAIN chain = 1 .. Len(chain)
      /\ Len(chain') = Len(chain) + 1 /\ DOMAIN chain' = 1 .. Len(chain) + 1
      /\ chain'[Len(chain) + 1] = blk /\ \A b \in 1 .. Len(chain) : chain'[b] = chain[b]
  BY DEF TypeOK
<1> QED BY <1>1 DEF Effects, TookEffect

\* Every block the L1 mines is one in which a pending row takes effect for the
\* first time, or one in which none does.
LEMMA MineStep ==
  ASSUME Facts, Facts', MaxReorgs = 0, [Next]_vars, MineTx \/ MineEmpty
  PROVE  Promise!Next
<1>0. TypeOK /\ mtx' = mtx /\ synced' = synced /\ Rows' = Rows
  BY Zenon DEF Facts, MineTx, MineEmpty, Rows
<1>1. CASE MineEmpty
  <2> DEFINE blk == [fork |-> forks, txs |-> {}, status |-> "successful", acct |-> Accounts(chain)]
  <2>1. blk \in Block /\ blk.txs = {} /\ chain' = Append(chain, blk)
    BY <1>0, <1>1, AccountsType, Zenon DEF Block, ReceiptStatus, MineEmpty, TypeOK
  <2> HIDE DEF blk
  <2>2. Len(chain') = Len(chain) + 1 /\ Effects' = Effects
    BY <1>0, <2>1, AppendEffects, Zenon
  <2>3. Promise!OtherBlock
    BY <1>0, <2>2, Zenon DEF Promise!OtherBlock, Rows, Effects
  <2> QED BY <2>3, Zenon DEF Promise!Next
<1>2. CASE MineTx
  <2>1. PICK tx \in net, status \in ReceiptStatus :
          chain' = Append(chain, [fork |-> forks, txs |-> {tx}, status |-> status,
                     acct |-> [Accounts(chain) EXCEPT ![From[tx.id]] = @ + 1]])
    BY <1>2, Zenon DEF MineTx
  <2> DEFINE acct == [Accounts(chain) EXCEPT ![From[tx.id]] = @ + 1]
             blk == [fork |-> forks, txs |-> {tx}, status |-> status, acct |-> acct]
  <2>2. Accounts(chain) \in [Senders -> Nat] /\ forks \in Nat /\ tx \in Tx
    BY <1>0, AccountsType, Zenon DEF TypeOK
  <2>3. acct \in [Senders -> Nat]
    BY <2>2, ConstantsAssumption DEF Tx
  <2> HIDE DEF acct
  <2>4. blk \in Block /\ blk.txs = {tx} /\ blk.status = status
    BY <2>2, <2>3, Zenon DEF Block
  <2>5. chain' = Append(chain, blk)
    BY <2>1, Zenon DEF acct
  <2> HIDE DEF blk
  <2>6. PICK i \in Ids : tx.id = i
    BY <2>2, Zenon DEF Tx
  <2>7. /\ Len(chain') = Len(chain) + 1
        /\ Effects' = Effects \cup {e \in [block : {Len(chain) + 1}, id : Ids] :
                                      status = "successful" /\ i = e.id}
    BY <1>0, <2>4, <2>5, <2>6, AppendEffects, Zenon
  <2>8. CASE status = "failed"
    <3>1. Effects' = Effects
      BY <2>7, <2>8, Zenon
    <3>2. Promise!OtherBlock
      BY <1>0, <2>7, <3>1, Zenon DEF Promise!OtherBlock, Rows, Effects
    <3> QED BY <3>2, Zenon DEF Promise!Next
  <2>9. CASE status = "successful"
    <3>1. Effects' = Effects \cup {[block |-> Len(chain) + 1, id |-> i]}
      BY <2>7, <2>9
    <3>2. ASSUME NEW b \in DOMAIN chain, TookEffect(i, b) PROVE FALSE
      <4>1. PICK t \in chain[b].txs : t.id = i /\ chain[b].status = "successful"
        BY <3>2, Zenon DEF TookEffect
      <4>2. /\ b \in Nat /\ b <= Len(chain) /\ Len(chain) + 1 \in DOMAIN chain' /\ Len(chain) \in Nat
            /\ chain'[Len(chain) + 1] = blk /\ b \in DOMAIN chain' /\ chain'[b] = chain[b]
        BY <1>0, <2>4, <2>5 DEF TypeOK
      <4>3. AtMostOneSuccess'
        BY Zenon DEF Facts
      <4>4. b = Len(chain) + 1
        BY <2>4, <2>6, <2>9, <4>1, <4>2, <4>3, Zenon DEF AtMostOneSuccess
      <4> QED BY <4>2, <4>4
    <3>3. ~Promise!Effective(i)
      BY <3>2, Zenon DEF Promise!Effective
    <3>4. mtx[i].status \notin {"none", "confirmed", "done"}
      <4>1. tx \in mtx[i].hist /\ CopyAgrees(i) /\ ReportHolds(i)
        BY <2>6, Zenon DEF Facts, HistoryCoversNetwork, CopiesAgree, ReportsHold
      <4>2. mtx[i].status # "none"
        BY <4>1, Zenon DEF CopyAgrees
      <4>3. \A b \in DOMAIN synced : b \in DOMAIN chain
        <5>1. synced \in Seq(Block) /\ chain \in Seq(Block)
          BY <1>0, Zenon DEF TypeOK
        <5>2. IsPrefix(synced, chain)
          BY Zenon DEF Facts, NonceDiscipline
        <5> QED BY ONLY <5>1, <5>2 DEF IsPrefix
      <4> QED BY <3>2, <4>1, <4>2, <4>3, Zenon DEF ReportHolds
    <3>5. Rows[i] = "pending"
      <4>1. mtx[i].status \in Status
        BY <1>0, Zenon DEF TypeOK, Row
      <4> QED BY <3>4, <4>1, Zenon DEF Rows, Stage, Status
    <3>6. Promise!TakeEffect(i)
      BY <1>0, <2>7, <3>1, <3>3, <3>5, Zenon DEF Promise!TakeEffect, Rows, Effects
    <3> QED BY <3>6, Zenon DEF Promise!Next
  <2> QED BY <2>8, <2>9, Zenon DEF ReceiptStatus
<1> QED BY <1>1, <1>2, Zenon

\* The next block the state stores.
LEMMA LearnStep ==
  ASSUME Facts, SyncBlock
  PROVE  Promise!Learn
<1>1. /\ chain' = chain /\ mtx' = mtx /\ Len(synced) < Len(chain)
      /\ synced' = Append(synced, chain[Len(synced) + 1])
  BY Zenon DEF SyncBlock, l1Vars
<1>2. Len(synced') = Len(synced) + 1
  <2>1. chain[Len(synced) + 1] \in Block /\ synced \in Seq(Block)
    BY <1>1 DEF Facts, TypeOK
  <2> QED BY <1>1, <2>1
<1>3. Rows' = Rows /\ Effects' = Effects
  BY <1>1, Zenon DEF Rows, Effects, TookEffect
<1> QED BY <1>1, <1>2, <1>3, Zenon DEF Promise!Learn, Rows, Effects

\* A step that changes one row only, from a stage to another.
LEMMA RowStep ==
  ASSUME Facts, chain' = chain, synced' = synced, NEW i \in Ids, NEW row,
         mtx' = [mtx EXCEPT ![i] = row]
  PROVE  /\ Rows' = [Rows EXCEPT ![i] = Stage(row.status)]
         /\ Effects' = Effects
         /\ Stage(row.status) = Rows[i] => UNCHANGED Promise!mvars
<1>1. mtx \in [Ids -> Row]
  BY Zenon DEF Facts, TypeOK
<1>2. Rows' = [Rows EXCEPT ![i] = Stage(row.status)]
  BY <1>1, Zenon DEF Rows
<1>3. Effects' = Effects
  BY Zenon DEF Effects, TookEffect
<1>4. ASSUME Stage(row.status) = Rows[i] PROVE UNCHANGED Promise!mvars
  <2>1. \A j \in Ids : Rows'[j] = Rows[j]
    BY <1>2, <1>4, Zenon DEF Rows
  <2> QED BY <2>1, StutterStep, Zenon
<1> QED BY <1>2, <1>3, <1>4, Zenon

\* The steps of the goroutine of row i: only the last Update can confirm it.
LEMMA MonitorStep ==
  ASSUME Facts, ~RpcErrors, NEW i \in Ids, Monitor(i)
  PROVE  Promise!Next \/ UNCHANGED Promise!mvars
<1>0. /\ CopyAgrees(i) /\ RenewedOverReverted(i) /\ ReportHolds(i) /\ mTx[i] \in Row /\ mtx[i] \in Row
      /\ chain' = chain /\ synced' = synced /\ pc[i] # "idle"
      /\ mtx[i].status \in {"created", "sent"} /\ Rows[i] = "pending"
  <2>1. CopyAgrees(i) /\ RenewedOverReverted(i) /\ ReportHolds(i) /\ mTx[i] \in Row /\ mtx[i] \in Row
    BY Zenon DEF Facts, CopiesAgree, NonceDiscipline, ReportsHold, TypeOK
  <2>2. chain' = chain /\ synced' = synced /\ pc[i] # "idle"
    BY Zenon DEF Monitor, CheckHistory, ReviewNonce, ReviewTx, Build, Send, MarkSent,
       WaitTxToBeMined, GetTxReceipt, CheckSynced, Commit, l1Vars
  <2>3. mtx[i].status \in {"created", "sent"}
    BY <2>1, <2>2, Zenon DEF RenewedOverReverted
  <2> QED BY <2>1, <2>2, <2>3, Zenon DEF Rows, Stage
<1>1. CASE mtx' = mtx
  BY <1>0, <1>1, StutterStep, Zenon DEF Rows
<1>2. ASSUME NEW row, Update(i, row), row.status \in {"created", "sent", "failed"}
      PROVE  UNCHANGED Promise!mvars
  <2>1. Stage(row.status) = Rows[i]
    BY <1>0, <1>2, Zenon DEF Stage
  <2> QED BY <1>0, <1>2, <2>1, RowStep, Zenon DEF Update
<1>3. CASE ReviewNonce(i)
  <2> DEFINE row == IF NonceToReview(i) THEN WithNonce(mTx[i], CurrentNonce(From[i])) ELSE mTx[i]
  <2>1. mTx[i].status \in {"created", "sent"}
    BY <1>0, <1>3, Zenon DEF ReviewNonce, CopyAgrees
  <2>2. row.status = mTx[i].status
    BY <1>0, Zenon DEF WithNonce, Row
  <2>3. Update(i, row) \/ mtx' = mtx
    BY <1>3, Zenon DEF ReviewNonce
  <2> HIDE DEF row
  <2> QED BY <1>1, <1>2, <2>1, <2>2, <2>3, Zenon
<1>4. CASE ReviewTx(i)
  <2>1. mTx[i].status \in {"created", "sent"}
    BY <1>0, <1>4, Zenon DEF ReviewTx, CopyAgrees
  <2>2. ASSUME NEW price PROVE [mTx[i] EXCEPT !.price = price].status = mTx[i].status
    BY <1>0, Zenon DEF Row
  <2> QED BY <1>1, <1>2, <1>4, <2>1, <2>2, Zenon DEF ReviewTx
<1>5. CASE Build(i) \/ MarkSent(i)
  <2>1. mTx[i].status \in {"created", "sent"}
    BY <1>0, <1>5, Zenon DEF Build, MarkSent, CopyAgrees
  <2>2. WithHistory(i, mTx[i]).status = mTx[i].status /\ [mTx[i] EXCEPT !.status = "sent"].status = "sent"
    BY <1>0, Zenon DEF Row, WithHistory
  <2> QED BY <1>2, <1>5, <2>1, <2>2, Zenon DEF Build, MarkSent
<1>6. CASE Commit(i)
  <2>1. pc[i] = "commit" /\ Update(i, mTx[i]) /\ mTx[i].status \in {"confirmed", "failed"}
    BY <1>0, <1>6, Zenon DEF Commit, CopyAgrees
  <2>2. CASE mTx[i].status = "failed"
    BY <1>2, <2>1, <2>2, Zenon
  <2>3. CASE mTx[i].status = "confirmed"
    <3>1. mTx[i].block \in DOMAIN synced /\ TookEffect(i, mTx[i].block)
      BY <1>0, <2>1, <2>3, Zenon DEF ReportHolds
    <3>2. mTx[i].block \in DOMAIN chain /\ mTx[i].block <= Len(synced)
      BY <3>1 DEF Facts, NonceDiscipline, IsPrefix, TypeOK
    <3>3. [block |-> mTx[i].block, id |-> i] \in Effects
      BY <3>1, <3>2, Zenon DEF Effects
    <3>4. Promise!EffectKnown(i)
      BY <3>2, <3>3, Zenon DEF Promise!EffectKnown, Effects
    <3>5. Rows' = [Rows EXCEPT ![i] = "confirmed"] /\ Effects' = Effects
      <4>1. Stage(mTx[i].status) = "confirmed"
        BY <2>3, Zenon DEF Stage
      <4>2. mtx' = [mtx EXCEPT ![i] = mTx[i]]
        BY <2>1, Zenon DEF Update
      <4> QED BY <1>0, <4>1, <4>2, RowStep, Zenon
    <3>6. Promise!Confirm(i)
      BY <1>0, <3>4, <3>5, Zenon DEF Promise!Confirm, Rows, Effects
    <3> QED BY <3>6, Zenon DEF Promise!Next
  <2> QED BY <2>1, <2>2, <2>3, Zenon
<1> QED BY <1>1, <1>3, <1>4, <1>5, <1>6, Zenon DEF Monitor, CheckHistory, Send,
           WaitTxToBeMined, GetTxReceipt, CheckSynced

\* Every step of the manager is a step of MonitoredTxs or a stutter.
LEMMA RefinementStep ==
  ASSUME Facts, Facts', MaxReorgs = 0, ~RpcErrors, [Next]_vars
  PROVE  [Promise!Next]_(Promise!mvars)
<1>1. CASE MineTx \/ MineEmpty
  BY <1>1, MineStep, Zenon
<1>2. CASE SyncBlock
  BY <1>2, LearnStep, Zenon DEF Promise!Next
<1>3. ~ResetState /\ ~ReorgL1
  BY PrefixStep DEF Facts, NonceDiscipline, ReorgL1, TypeOK
<1>4. CASE MonitorTxs \/ Crash \/ UNCHANGED vars
  <2>1. chain' = chain /\ synced' = synced /\ mtx' = mtx
    BY <1>4, Zenon DEF MonitorTxs, Crash, vars, l1Vars
  <2> QED BY <2>1, StutterStep, Zenon DEF Rows
<1>5. ASSUME NEW i \in Ids, Add(i) PROVE Promise!Next
  <2>1. PICK price \in 0 .. MaxPrice :
          mtx' = [mtx EXCEPT ![i] = [status |-> "created", nonce |-> CurrentNonce(From[i]),
                                     price |-> price, hist |-> {}, block |-> NoBlock]]
    BY <1>5, Zenon DEF Add
  <2>2. chain' = chain /\ synced' = synced /\ mtx[i].status = "none"
    BY <1>5, Zenon DEF Add, l1Vars
  <2>3. Rows' = [Rows EXCEPT ![i] = "pending"] /\ Effects' = Effects /\ Rows[i] = "none"
    <3> DEFINE row == [status |-> "created", nonce |-> CurrentNonce(From[i]),
                       price |-> price, hist |-> {}, block |-> NoBlock]
    <3>1. Stage(row.status) = "pending" /\ Rows[i] = "none"
      BY <2>2, Zenon DEF Stage, Rows
    <3>2. mtx' = [mtx EXCEPT ![i] = row]
      BY <2>1, Zenon
    <3> HIDE DEF row
    <3> QED BY <2>2, <3>1, <3>2, RowStep, Zenon
  <2>4. Promise!Add(i)
    BY <2>2, <2>3, Zenon DEF Promise!Add, Rows, Effects
  <2> QED BY <2>4, Zenon DEF Promise!Next
<1>6. ASSUME NEW i \in Ids, Monitor(i) PROVE [Promise!Next]_(Promise!mvars)
  BY <1>6, MonitorStep, Zenon
<1>7. ASSUME NEW i \in Ids, Owner(i) PROVE [Promise!Next]_(Promise!mvars)
  <2>1. chain' = chain /\ synced' = synced /\ ReportHolds(i) /\ mtx[i] \in Row
    BY <1>7, Zenon DEF Owner, OwnerResult, SetStatusDoneGet, SetStatusDoneUpdate, l1Vars,
       Facts, ReportsHold, TypeOK
  <2>2. CASE mtx' = mtx
    BY <2>1, <2>2, StutterStep, Zenon DEF Rows
  <2>3. CASE SetStatusDoneUpdate(i)
    <3>1. mtx[i].status = "confirmed" /\ mtx' = [mtx EXCEPT ![i] = [mtx[i] EXCEPT !.status = "done"]]
      BY <2>1, <2>3, Zenon DEF SetStatusDoneUpdate, Update, ReportHolds
    <3>2. [mtx[i] EXCEPT !.status = "done"].status = "done"
      BY <2>1, Zenon DEF Row
    <3>3. Rows' = [Rows EXCEPT ![i] = "done"] /\ Effects' = Effects /\ Rows[i] = "confirmed"
      <4> DEFINE row == [mtx[i] EXCEPT !.status = "done"]
      <4>1. Stage(row.status) = "done" /\ Rows[i] = "confirmed"
        BY <3>1, <3>2, Zenon DEF Stage, Rows
      <4>2. mtx' = [mtx EXCEPT ![i] = row]
        BY <3>1, Zenon
      <4> HIDE DEF row
      <4> QED BY <2>1, <4>1, <4>2, RowStep, Zenon
    <3>4. Promise!Finish(i)
      BY <2>1, <3>3, Zenon DEF Promise!Finish, Rows, Effects
    <3> QED BY <3>4, Zenon DEF Promise!Next
  <2> QED BY <1>7, <2>2, <2>3, Zenon DEF Owner, OwnerResult, SetStatusDoneGet
<1> QED BY <1>1, <1>2, <1>3, <1>4, <1>5, <1>6, <1>7, Zenon DEF Next

\* The manager implements the promise its owners rely on.
THEOREM PromiseKept ==
  ASSUME MaxReorgs = 0, ~RpcErrors
  PROVE  Spec => KeepsPromise
<1>1. Init => Promise!Init
  <2> SUFFICES ASSUME Init PROVE Promise!Init OBVIOUS
  <2>1. [i \in Ids |-> Stage(mtx[i].status)] = [i \in Ids |-> "none"]
    BY Zenon DEF Init, Stage, NoRow
  <2>2. Len(chain) = 0 /\ Len(synced) = 0 /\ DOMAIN chain = {}
    BY DEF Init
  <2> QED BY <2>1, <2>2, Zenon DEF Promise!Init
<1>2. Facts /\ Facts' /\ [Next]_vars => [Promise!Next]_(Promise!mvars)
  BY RefinementStep, Zenon
<1>3. Spec => []Facts
  BY TypeCorrect, CopiesCorrect, HistoryIsComplete, NoncesRenewed, SucceedsOnce, ReportsCorrect, PTL
     DEF Facts
<1> QED BY <1>1, <1>2, <1>3, PTL DEF Spec, KeepsPromise, Promise!Spec
=============================================================================
