-------------------------- MODULE WorkerFateProofs --------------------------
(***************************************************************************)
(* What becomes of a transaction: none that the worker has is forgotten,   *)
(* and none that is selected is taken back.                                *)
(***************************************************************************)
EXTENDS WorkerProofs

-----------------------------------------------------------------------------
(* No transaction is lost.                                                 *)

\* What was executed below the executor's nonce: a tx of a block that is not
\* stored yet or one that is settled in the pool; or it was before a restart, and
\* then the stored nonce and every queue, one about to be created included, are past
\* it.
Settled(t) == status[t] # "none" /\ (t \in InPipeline \/ status[t] # "pending")
ExecutedInv == \A a \in Addrs, n \in Nat : n < im[a].nonce =>
  \/ \E t \in Txs : From[t] = a /\ Nonce[t] = n /\ Settled(t)
  \/ /\ n < stored[a].nonce /\ (a \in found => n < queue[a].nonce)
     /\ addPc = "install" => \A t \in addTx : From[t] = a => n < addAcc.nonce

\* A step after which the executed nonces are still covered.
LEMMA QuietExecuted ==
  ASSUME QueueInv, QueueInv', ExecutedInv,
         \A a \in Addrs : im'[a].nonce = im[a].nonce /\ stored[a].nonce <= stored'[a].nonce,
         \A t \in Txs : Settled(t) => Settled(t)',
         \A a \in found' : a \in found /\ queue[a].nonce <= queue'[a].nonce,
         addPc' = "install" => addPc = "install" /\ addTx' = addTx /\ addAcc' = addAcc
  PROVE  ExecutedInv'
<1>1. /\ \A a \in Addrs : /\ stored[a].nonce \in Nat /\ stored'[a].nonce \in Nat
                          /\ queue[a].nonce \in Nat /\ queue'[a].nonce \in Nat
  BY AccountNat, Fields, Zenon DEF QueueInv, Types, StateType, WorkerInv, Agree
<1>2. found' \subseteq Addrs
  BY Zenon DEF QueueInv, WorkerInv, Agree
<1> SUFFICES ASSUME NEW a \in Addrs, NEW n \in Nat, n < im[a].nonce
             PROVE  \/ \E t \in Txs : From[t] = a /\ Nonce[t] = n /\ Settled(t)'
                    \/ /\ n < stored'[a].nonce /\ (a \in found' => n < queue'[a].nonce)
                       /\ addPc' = "install" => \A t \in addTx' : From[t] = a => n < addAcc'.nonce
  BY Zenon DEF ExecutedInv
<1>3. CASE \E t \in Txs : From[t] = a /\ Nonce[t] = n /\ Settled(t)
  BY <1>3, Zenon
<1>4. CASE /\ n < stored[a].nonce /\ (a \in found => n < queue[a].nonce)
           /\ addPc = "install" => \A t \in addTx : From[t] = a => n < addAcc.nonce
  <2>1. n < stored'[a].nonce
    BY <1>1, <1>4
  <2>2. a \in found' => n < queue'[a].nonce
    BY <1>1, <1>4
  <2> QED BY <1>4, <2>1, <2>2, Zenon
<1> QED BY <1>3, <1>4, Zenon DEF ExecutedInv

LEMMA ReadAccountExecuted ==
  ASSUME QueueInv, QueueInv', NonceInv, ExecutedInv, ReadAccount
  PROVE  ExecutedInv'
<1>1. UNCHANGED <<status, found, queue, im, stored, addTx, block, toProcess, toStore>>
  BY Zenon DEF ReadAccount, poolVars, workerVars, dbVars, blockVars
<1>2. \A t \in Txs : Settled(t) => Settled(t)'
  BY <1>1, Zenon DEF Settled, InPipeline
<1>3. CASE addPc' = "dropped"
  <2>1. addPc' # "install"
    BY <1>3
  <2>2. \A a \in Addrs : stored[a].nonce <= stored'[a].nonce /\ queue[a].nonce <= queue'[a].nonce
    <3>1. \A a \in Addrs : stored[a].nonce \in Nat /\ queue[a].nonce \in Nat
      BY AccountNat, Fields, Zenon DEF QueueInv, Types, StateType, WorkerInv, Agree
    <3> QED BY <1>1, <3>1
  <2>3. found \subseteq Addrs
    BY Zenon DEF QueueInv, WorkerInv, Agree
  <2> QED BY <1>1, <1>2, <2>1, <2>2, <2>3, QuietExecuted, Zenon
<1>4. CASE \E t \in addTx : addAcc' = stored[From[t]]
  <2>1. PICK t \in addTx : addAcc' = stored[From[t]]
    BY <1>4, Zenon
  <2>2. \A u \in addTx : u = t
    BY Zenon DEF QueueInv, LocalInv
  <2> SUFFICES ASSUME NEW a \in Addrs, NEW n \in Nat, n < im[a].nonce
               PROVE  \/ \E u \in Txs : From[u] = a /\ Nonce[u] = n /\ Settled(u)'
                      \/ /\ n < stored[a].nonce /\ (a \in found => n < queue[a].nonce)
                         /\ \A u \in addTx : From[u] = a => n < addAcc'.nonce
    BY <1>1, Zenon DEF ExecutedInv
  <2> QED BY <1>2, <2>1, <2>2, Zenon DEF ExecutedInv
<1> QED BY <1>3, <1>4, Zenon DEF ReadAccount

LEMMA InstallQueueExecuted ==
  ASSUME QueueInv, NonceInv, ExecutedInv, InstallQueue
  PROVE  ExecutedInv'
<1>1. UNCHANGED <<status, im, stored, addTx, addAcc, block, toProcess, toStore>> /\ addPc = "install"
  BY Zenon DEF InstallQueue, poolVars, dbVars, blockVars
<1>2. \A u \in Txs : Settled(u) => Settled(u)'
  BY <1>1, Zenon DEF Settled, InPipeline
<1>3. PICK t \in addTx :
           /\ found' = found \cup {From[t]}
           /\ \A b \in Addrs : b # From[t] => queue'[b] = queue[b]
           /\ queue'[From[t]].nonce = addAcc.nonce
           /\ addPc' # "install"
  <2>1. \A x : x = "dropped" \/ x = "added" => x # "install"
    OBVIOUS
  <2> QED BY <2>1, InstallStep, Zenon
<1> SUFFICES ASSUME NEW a \in Addrs, NEW n \in Nat, n < im[a].nonce
             PROVE  \/ \E u \in Txs : From[u] = a /\ Nonce[u] = n /\ Settled(u)'
                    \/ n < stored[a].nonce /\ (a \in found' => n < queue'[a].nonce)
  BY <1>1, <1>3, Zenon DEF ExecutedInv
<1>4. CASE \E u \in Txs : From[u] = a /\ Nonce[u] = n /\ Settled(u)
  BY <1>2, <1>4, Zenon
<1>5. CASE /\ n < stored[a].nonce /\ (a \in found => n < queue[a].nonce)
           /\ \A u \in addTx : From[u] = a => n < addAcc.nonce
  <2>1. CASE a = From[t]
    BY <1>3, <1>5, <2>1, Zenon
  <2>2. CASE a # From[t]
    BY <1>3, <1>5, <2>2, Zenon
  <2> QED BY <2>1, <2>2, Zenon
<1> QED BY <1>1, <1>4, <1>5, Zenon DEF ExecutedInv

LEMMA ProcessSuccessExecuted ==
  ASSUME QueueInv, QueueInv', ExecutedInv, ProcessSuccess
  PROVE  ExecutedInv'
<1>1. PICK t \in finTx : /\ Executable(t) /\ im' = Executed(im, t) /\ block' = Append(block, t)
                         /\ Becomes(WorkerDeleteTx(Current, t))
  BY Zenon DEF ProcessSuccess
<1>2. UNCHANGED <<status, found, stored, addPc, addTx, addAcc, toProcess, toStore>>
  BY Zenon DEF ProcessSuccess, poolVars, dbVars, addVars
<1>3. /\ t \in Txs /\ From[t] \in Addrs /\ im \in [Addrs -> Account] /\ im' \in [Addrs -> Account]
      /\ im'[From[t]].nonce = im[From[t]].nonce + 1
      /\ \A a \in Addrs : a # From[t] => im'[a].nonce = im[a].nonce
  BY <1>1, SuccessMoves, Zenon
<1>4. Nonce[t] = im[From[t]].nonce /\ status[t] # "none"
  BY <1>1, Zenon DEF Executable, QueueInv, KnownInv, UnderWay
<1>5. block \in Seq(Txs) /\ Agree(queue, sorted, found) /\ found \subseteq Addrs
  BY Zenon DEF QueueInv, Types, BlockType, WorkerInv, Agree
<1>6. Range(Append(block, t)) = Range(block) \cup {t}
  BY <1>3, <1>5, RangeAppend
<1>7. t \in InPipeline' /\ \A u \in InPipeline : u \in InPipeline'
  BY <1>1, <1>2, <1>6, Zenon DEF InPipeline
<1>8. Settled(t)' /\ \A u \in Txs : Settled(u) => Settled(u)'
  BY <1>2, <1>4, <1>7, Zenon DEF Settled
<1>9. \A b \in Addrs : queue'[b].nonce = queue[b].nonce
  BY <1>1, <1>3, <1>5, DeleteStep, Zenon
<1> SUFFICES ASSUME NEW a \in Addrs, NEW n \in Nat, n < im'[a].nonce
             PROVE  \/ \E u \in Txs : From[u] = a /\ Nonce[u] = n /\ Settled(u)'
                    \/ /\ n < stored[a].nonce /\ (a \in found => n < queue'[a].nonce)
                       /\ addPc = "install" => \A u \in addTx : From[u] = a => n < addAcc.nonce
  BY <1>2, Zenon DEF ExecutedInv
<1>10. CASE n < im[a].nonce
  BY <1>5, <1>8, <1>9, <1>10, Zenon DEF ExecutedInv
<1>11. CASE ~(n < im[a].nonce)
  <2>1. a = From[t]
    BY <1>3, <1>11, Zenon
  <2>2. im[a].nonce \in Nat /\ n < im[a].nonce + 1
    BY <1>3, <2>1, AccountNat, Zenon
  <2>3. n = Nonce[t]
    BY <1>4, <1>11, <2>1, <2>2
  <2> QED BY <1>3, <1>8, <2>1, <2>3, Zenon
<1> QED BY <1>10, <1>11, Zenon

LEMMA RestartExecuted ==
  ASSUME QueueInv, Restart
  PROVE  ExecutedInv'
<1>1. im' = stored /\ stored' = stored /\ found' = {} /\ addPc' = "idle"
  BY Zenon DEF Restart, dbVars
<1> QED BY <1>1, Zenon DEF ExecutedInv

\* What is settled stays so when a status becomes final.
LEMMA SettledUpdate ==
  ASSUME QueueInv, NEW T, NEW s \in {"failed", "invalid", "selected"}, UpdateTxStatus(T, s),
         \A u \in InPipeline : u \in InPipeline' \/ u \in T
  PROVE  /\ \A u \in Txs : Settled(u) => Settled(u)'
         /\ \A u \in Txs : status'[u] = "none" => status[u] = "none"
<1>1. s \in Status /\ s # "none" /\ s # "pending"
  BY Zenon DEF Status
<1>2. /\ \A u \in Txs \cap T : status'[u] = s
      /\ \A u \in Txs \ T : status'[u] = status[u]
  BY <1>1, UpdateTxStatusIs, Zenon DEF QueueInv, Types
<1> QED BY <1>1, <1>2, Zenon DEF Settled

\* Equal numbers are ordered.
LEMMA NoncesOrdered ==
  ASSUME QueueInv
  PROVE  \A a \in Addrs : /\ stored[a].nonce <= stored[a].nonce /\ queue[a].nonce <= queue[a].nonce
                          /\ queue[a].nonce \in Nat /\ stored[a].nonce \in Nat /\ im[a].nonce \in Nat
<1>1. \A a \in Addrs : stored[a].nonce \in Nat /\ queue[a].nonce \in Nat /\ im[a].nonce \in Nat
  BY AccountNat, Fields, Zenon DEF QueueInv, Types, StateType, WorkerInv, Agree
<1> QED BY <1>1

LEMMA LoadExecuted ==
  ASSUME QueueInv, QueueInv', ExecutedInv,
         (\E t \in Txs : SubmitTx(t) \/ AddTxTracker(t)) \/ FailDropped \/ FailReplaced \/ MarkWIP \/ FailExpired
  PROVE  ExecutedInv'
<1>1. UNCHANGED <<found, im, stored, block, toProcess, toStore>>
  <2>1. CASE \E t \in Txs : SubmitTx(t)
    BY <2>1, Zenon DEF SubmitTx, workerVars, dbVars, blockVars
  <2>2. CASE \E t \in Txs : AddTxTracker(t)
    BY <2>2, AddStep, Zenon DEF AddTxTracker, dbVars, blockVars
  <2>3. CASE FailDropped \/ FailReplaced \/ MarkWIP \/ FailExpired
    BY <2>3, Zenon DEF FailDropped, FailReplaced, MarkWIP, FailExpired, workerVars, dbVars, blockVars
  <2> QED BY <2>1, <2>2, <2>3, Zenon
<1>2. \A a \in Addrs : queue'[a].nonce = queue[a].nonce
  <2>1. CASE \E t \in Txs : AddTxTracker(t)
    BY <2>1, AddStep, Zenon
  <2>2. CASE (\E t \in Txs : SubmitTx(t)) \/ FailDropped \/ FailReplaced \/ MarkWIP \/ FailExpired
    <3>1. queue' = queue
      BY <2>2, Zenon DEF SubmitTx, FailDropped, FailReplaced, MarkWIP, FailExpired, workerVars
    <3> QED BY <3>1, Zenon
  <2> QED BY <2>1, <2>2, Zenon
<1>3. addPc' = "install" => addPc = "install" /\ addTx' = addTx /\ addAcc' = addAcc
  <2>1. ASSUME NEW t \in Txs, AddTxTracker(t) PROVE addPc' # "install"
    <3>1. addPc' = "dropped" \/ addPc' = "read" \/ addPc' = "added"
      BY <2>1, AddStep, Zenon
    <3> QED BY <3>1
  <2>2. ASSUME FailDropped \/ FailReplaced \/ MarkWIP PROVE addPc' # "install"
    <3>1. addPc' = "idle" \/ addPc' = "mark"
      BY <2>2, Zenon DEF FailDropped, FailReplaced, MarkWIP
    <3> QED BY <3>1
  <2>3. ASSUME (\E t \in Txs : SubmitTx(t)) \/ FailExpired PROVE addPc' = addPc /\ addTx' = addTx /\ addAcc' = addAcc
    BY <2>3, Zenon DEF SubmitTx, FailExpired, addVars
  <2> QED BY <2>1, <2>2, <2>3, Zenon
<1>4. InPipeline' = InPipeline
  BY <1>1, Zenon DEF InPipeline
<1>5. \A u \in Txs : Settled(u) => Settled(u)'
  <2>1. ASSUME NEW t \in Txs, SubmitTx(t) PROVE \A u \in Txs : Settled(u) => Settled(u)'
    <3>1. status[t] = "none" /\ status' = [status EXCEPT ![t] = "pending"] /\ status \in [Txs -> Status]
      BY <2>1, Zenon DEF SubmitTx, QueueInv, Types, PoolType
    <3>2. \A u \in Txs : u # t => status'[u] = status[u]
      BY <3>1, Zenon
    <3> QED BY <1>4, <3>1, <3>2, Zenon DEF Settled
  <2>2. ASSUME (\E t \in Txs : AddTxTracker(t)) \/ MarkWIP PROVE \A u \in Txs : Settled(u) => Settled(u)'
    <3>1. status' = status
      BY <2>2, Zenon DEF AddTxTracker, MarkWIP, poolVars
    <3> QED BY <1>4, <3>1, Zenon DEF Settled
  <2>3. ASSUME FailDropped \/ FailReplaced \/ FailExpired PROVE \A u \in Txs : Settled(u) => Settled(u)'
    <3>1. PICK T : UpdateTxStatus(T, "failed")
      BY <2>3, Zenon DEF FailDropped, FailReplaced, FailExpired
    <3> QED BY <1>4, <3>1, SettledUpdate, Zenon
  <2> QED BY <2>1, <2>2, <2>3, Zenon
<1>6. found' \subseteq Addrs
  BY Zenon DEF QueueInv, WorkerInv, Agree
<1> QED BY <1>1, <1>2, <1>3, <1>5, <1>6, NoncesOrdered, QuietExecuted, Zenon

LEMMA FinalizerExecuted ==
  ASSUME QueueInv, QueueInv', NonceInv, ExecutedInv,
         GetBestFittingTx \/ UpdateAfterSuccess \/ ProcessIntrinsicError \/ ProcessOtherError \/ ProcessAgain
  PROVE  ExecutedInv'
<1>1. UNCHANGED <<found, im, stored, addPc, addTx, addAcc, block, toProcess, toStore>>
  BY Zenon DEF GetBestFittingTx, UpdateAfterSuccess, ProcessIntrinsicError, ProcessOtherError, ProcessAgain,
     workerVars, dbVars, addVars, blockVars
<1>2. found \subseteq Addrs /\ Agree(queue, sorted, found)
  BY Zenon DEF QueueInv, WorkerInv, Agree
<1>3. InPipeline' = InPipeline
  BY <1>1, Zenon DEF InPipeline
<1>4. \A u \in Txs : Settled(u) => Settled(u)'
  <2>1. ASSUME GetBestFittingTx \/ ProcessAgain PROVE \A u \in Txs : Settled(u) => Settled(u)'
    <3>1. status' = status
      BY <2>1, Zenon DEF GetBestFittingTx, ProcessAgain, poolVars
    <3> QED BY <1>3, <3>1, Zenon DEF Settled
  <2>2. ASSUME UpdateAfterSuccess \/ ProcessIntrinsicError \/ ProcessOtherError
        PROVE  \A u \in Txs : Settled(u) => Settled(u)'
    <3>1. \E T : \E s \in {"failed", "invalid", "selected"} : UpdateTxStatus(T, s)
      BY <2>2, RefreshSteps, Zenon DEF ProcessOtherError
    <3> QED BY <1>3, <3>1, SettledUpdate, Zenon
  <2> QED BY <2>1, <2>2, Zenon
<1>5. \A a \in found : queue[a].nonce <= queue'[a].nonce
  <2>1. CASE GetBestFittingTx \/ ProcessAgain
    <3>1. queue' = queue
      BY <2>1, Zenon DEF GetBestFittingTx, ProcessAgain, workerVars
    <3> QED BY <1>2, <3>1, NoncesOrdered, Zenon
  <2>2. CASE ProcessOtherError
    <3>1. PICK t \in finTx : Becomes(WorkerDeleteTx(Current, t))
      BY <2>2, Zenon DEF ProcessOtherError
    <3>2. t \in Txs
      BY Zenon DEF QueueInv, Types, FinType
    <3>3. \A a \in Addrs : queue'[a].nonce = queue[a].nonce
      BY <1>2, <3>1, <3>2, DeleteStep, Zenon
    <3> QED BY <1>2, <3>3, NoncesOrdered, Zenon
  <2>3. CASE UpdateAfterSuccess \/ ProcessIntrinsicError
    <3>1. PICK t \in finTx : From[t] \in Addrs /\ Refreshed(From[t])
      BY <2>3, RefreshSteps, Zenon
    <3> TAKE a \in found
    <3>2. CASE a = From[t]
      <4>1. queue'[a].nonce = im[a].nonce
        BY <3>1, <3>2, Zenon DEF Refreshed
      <4>2. queue[a].nonce <= im[a].nonce
        BY NonceInvIs, Zenon DEF NonceFollows
      <4> QED BY <4>1, <4>2, Zenon
    <3>3. CASE a # From[t]
      BY <1>2, <3>1, <3>3, NoncesOrdered, Zenon DEF Refreshed
    <3> QED BY <3>2, <3>3, Zenon
  <2> QED BY <2>1, <2>2, <2>3, Zenon
<1> QED BY <1>1, <1>4, <1>5, NoncesOrdered, QuietExecuted, Zenon

LEMMA PipelineExecuted ==
  ASSUME QueueInv, QueueInv', NonceInv, ExecutedInv, CloseL2Block \/ ProcessL2Block \/ StoreL2Block \/ SelectTxs
  PROVE  ExecutedInv'
<1>1. UNCHANGED <<found, im, addPc, addTx, addAcc>>
  BY Zenon DEF CloseL2Block, ProcessL2Block, StoreL2Block, SelectTxs, workerVars, addVars
<1>2. /\ Types /\ Agree(queue, sorted, found) /\ found \subseteq Addrs
      /\ stored \in [Addrs -> Account] /\ im \in [Addrs -> Account]
      /\ toStore \in Seq(L2Block) /\ toProcess \in Seq(L2Block) /\ Blocks \in Seq(L2Block)
  BY Concatenation, Zenon DEF QueueInv, WorkerInv, Agree, Types, StateType, BlockType, Blocks
<1>3. CASE CloseL2Block \/ ProcessL2Block \/ StoreL2Block
  <2>1. status' = status
    BY <1>3, Zenon DEF CloseL2Block, ProcessL2Block, StoreL2Block, poolVars
  <2>2. InPipeline' = InPipeline
    <3>1. CASE CloseL2Block
      BY <1>2, <3>1, CloseIs, Zenon
    <3>2. CASE ProcessL2Block
      BY <1>2, <3>2, ProcessIs, Zenon
    <3>3. CASE StoreL2Block
      BY <3>3, Zenon DEF StoreL2Block, InPipeline
    <3> QED BY <1>3, <3>1, <3>2, <3>3, Zenon
  <2>3. \A u \in Txs : Settled(u) => Settled(u)'
    BY <2>1, <2>2, Zenon DEF Settled
  <2>4. \A a \in Addrs : queue'[a].nonce = queue[a].nonce
    <3>1. CASE CloseL2Block \/ StoreL2Block
      BY <3>1, Zenon DEF CloseL2Block, StoreL2Block, workerVars
    <3>2. CASE ProcessL2Block
      <4>1. queue' = WithPending(Range(Head(toProcess).txs), {}) /\ Range(Head(toProcess).txs) \in SUBSET Txs
        BY <1>2, <3>2, ProcessIs, Zenon DEF ProcessL2Block
      <4> QED BY <1>2, <4>1, PendingIs, Zenon
    <3> QED BY <1>3, <3>1, <3>2, Zenon
  <2>5. \A a \in Addrs : stored[a].nonce <= stored'[a].nonce
    <3>1. CASE CloseL2Block \/ ProcessL2Block
      <4>1. stored' = stored
        BY <3>1, Zenon DEF CloseL2Block, ProcessL2Block, dbVars
      <4> QED BY <4>1, NoncesOrdered, Zenon
    <3>2. CASE StoreL2Block
      <4>1. toStore # <<>> /\ stored' = Head(toStore).root
        BY <3>2, Zenon DEF StoreL2Block
      <4>2. Len(Blocks) \in Nat \ {0} /\ Blocks[1] = Head(toStore)
        BY <1>2, <4>1, DropBlock DEF Blocks
      <4>3. 1 \in 1 .. Len(Blocks)
        BY <4>2
      <4>4. \A a \in Addrs : stored[a].nonce <= Blocks[1].root[a].nonce
        BY <1>2, <4>3, RootsStore, Zenon DEF NonceInv
      <4> QED BY <4>1, <4>2, <4>4, Zenon
    <3> QED BY <1>3, <3>1, <3>2, Zenon
  <2> QED BY <1>1, <1>2, <2>3, <2>4, <2>5, NoncesOrdered, QuietExecuted, Zenon
<1>4. CASE SelectTxs
  <2>1. /\ UpdateTxStatus(Range(Head(toStore).txs), "selected") /\ stored' = stored /\ toStore # <<>>
        /\ queue' = WithPending({}, Range(Head(toStore).txs)) /\ {} \in SUBSET Txs
    BY <1>4, Zenon DEF SelectTxs, dbVars, QueueInv, LocalInv
  <2>2. \A t \in InPipeline : t \in InPipeline' \/ t \in Range(Head(toStore).txs)
    BY <1>2, <1>4, <2>1, SelectIs, Zenon
  <2>3. \A u \in Txs : Settled(u) => Settled(u)'
    BY <2>1, <2>2, SettledUpdate, Zenon
  <2>4. \A a \in Addrs : queue'[a].nonce = queue[a].nonce
    BY <1>2, <2>1, PendingIs, Zenon
  <2> QED BY <1>1, <1>2, <2>1, <2>3, <2>4, NoncesOrdered, QuietExecuted, Zenon
<1> QED BY <1>3, <1>4, Zenon

LEMMA ExpireExecuted ==
  ASSUME QueueInv, QueueInv', ExecutedInv, ExpireTransactions
  PROVE  ExecutedInv'
<1>1. UNCHANGED <<status, im, stored, addPc, addTx, addAcc, block, toProcess, toStore>>
  BY Zenon DEF ExpireTransactions, poolVars, dbVars, addVars, blockVars
<1>2. /\ found' \subseteq found /\ found \subseteq Addrs
      /\ \A b \in Addrs : queue'[b].nonce = queue[b].nonce
  BY ExpireIs, Zenon DEF QueueInv, WorkerInv, Agree
<1>3. \A u \in Txs : Settled(u) => Settled(u)'
  BY <1>1, Zenon DEF Settled, InPipeline
<1> QED BY <1>1, <1>2, <1>3, NoncesOrdered, QuietExecuted, Zenon

LEMMA ExecutedPreserved == QueueInv /\ QueueInv' /\ NonceInv /\ ExecutedInv /\ [Next]_vars => ExecutedInv'
<1> SUFFICES ASSUME QueueInv, QueueInv', NonceInv, ExecutedInv, [Next]_vars
             PROVE  ExecutedInv'
  OBVIOUS
<1>1. CASE Next
  <2>1. \A t \in deployment.txs : t \in Txs
    BY Constants, Zenon DEF QueueInv, Types, BoundType
  <2>2. CASE \/ \E t \in deployment.txs : SubmitTx(t)
             \/ \E t \in Txs : AddTxTracker(t)
             \/ FailDropped \/ FailReplaced \/ MarkWIP \/ FailExpired
    BY <2>1, <2>2, LoadExecuted, Zenon
  <2>3. CASE ReadAccount \/ InstallQueue
    BY <2>3, ReadAccountExecuted, InstallQueueExecuted, Zenon
  <2>4. CASE GetBestFittingTx \/ ProcessSuccess \/ UpdateAfterSuccess
             \/ ProcessIntrinsicError \/ ProcessOtherError \/ ProcessAgain
    BY <2>4, FinalizerExecuted, ProcessSuccessExecuted, Zenon
  <2>5. CASE CloseL2Block \/ ProcessL2Block \/ StoreL2Block \/ SelectTxs
    BY <2>5, PipelineExecuted, Zenon
  <2>6. CASE ExpireTransactions \/ Restart
    BY <2>6, ExpireExecuted, RestartExecuted, Zenon
  <2> QED BY <1>1, <2>2, <2>3, <2>4, <2>5, <2>6, Steps, Zenon
<1>2. CASE UNCHANGED vars
  <2>1. UNCHANGED <<status, found, queue, im, stored, addPc, addTx, addAcc, block, toProcess, toStore>>
    BY <1>2, Zenon DEF vars, sequencerVars, poolVars, workerVars, dbVars, addVars, finVars, blockVars, boundVars
  <2>2. \A u : Settled(u)' <=> Settled(u)
    BY <2>1, Zenon DEF Settled, InPipeline
  <2> QED BY <2>1, <2>2, Zenon DEF ExecutedInv
<1> QED BY <1>1, <1>2, Zenon

LEMMA ExecutedInitially == Init => ExecutedInv
<1> SUFFICES ASSUME Init
             PROVE  ExecutedInv
  OBVIOUS
<1>1. im = stored /\ found = {} /\ addPc = "idle"
  BY Zenon DEF Init
<1> QED BY <1>1, Zenon DEF ExecutedInv

LEMMA ExecutedHolds == Spec => []ExecutedInv
<1>1. Init /\ [][Next]_vars /\ []QueueInv /\ []NonceInv => []ExecutedInv
  BY ExecutedInitially, ExecutedPreserved, PTL
<1> QED BY <1>1, QueueHolds, NonceHolds, PTL DEF Spec

\* What loadFromPool will not load again is somewhere; a tx that it is loading is
\* not WIP, and nothing is WIP that was never submitted.
Kept == InWorker \cup InPipeline \cup expired
LostInv ==
  /\ \A t \in wip : status[t] # "none"
  /\ addPc \in {"read", "install", "dropped"} => addTx \cap wip = {}
  /\ OneTxPerNonce => /\ addRep = {}
                      /\ \A t \in Txs : status[t] = "pending" /\ Entered(t) => t \in Kept

\* Rivals are not forgotten.
LEMMA RivalsStay ==
  ASSUME \A t \in Txs : status'[t] = "none" => status[t] = "none", OneTxPerNonce'
  PROVE  OneTxPerNonce
BY Zenon DEF OneTxPerNonce

\* A step that loses nothing.
LEMMA QuietLost ==
  ASSUME LostInv,
         \A t \in Txs : status'[t] = "none" => status[t] = "none",
         \A t \in wip' : status'[t] # "none",
         addPc' \in {"read", "install", "dropped"} => addTx' \cap wip' = {},
         OneTxPerNonce => addRep' = {},
         \A t \in Txs : status'[t] = "pending" /\ Entered(t)' => t \in Kept' \/ (status[t] = "pending" /\ Entered(t)),
         OneTxPerNonce => \A t \in Txs \cap Kept : t \in Kept' \/ status'[t] # "pending"
  PROVE  LostInv'
<1>1. OneTxPerNonce' => OneTxPerNonce
  BY RivalsStay, Zenon
<1> QED BY <1>1, Zenon DEF LostInv

\* The same when only statuses of T become final.
LEMMA UpdateLost ==
  ASSUME QueueInv, LostInv, NEW T, NEW s \in {"failed", "invalid", "selected"}, UpdateTxStatus(T, s),
         addPc' \in {"read", "install", "dropped"} => addPc \in {"read", "install", "dropped"},
         addTx' = addTx \/ addTx' = {}, addRep' = addRep \/ addRep' = {},
         addPc' \in {"added", "mark"} => addPc \in {"added", "mark"},
         OneTxPerNonce => \A t \in Txs \cap Kept : t \in Kept' \/ t \in T \/ status[t] # "pending"
  PROVE  LostInv'
<1>1. s \in Status /\ s # "none" /\ s # "pending" /\ PoolType
  BY Zenon DEF Status, QueueInv, Types
<1>2. /\ \A u \in Txs \cap T : status'[u] = s /\ u \notin wip'
      /\ \A u \in Txs \ T : status'[u] = status[u] /\ (u \in wip' <=> u \in wip)
      /\ PoolType'
  BY <1>1, UpdateTxStatusIs, Zenon
<1>3. wip \subseteq Txs /\ wip' \subseteq Txs
  BY <1>1, <1>2, Zenon DEF PoolType
<1>4. \A t \in wip' : t \in wip /\ t \notin T
  BY <1>2, <1>3, Zenon
<1>5. \A t \in Txs : status'[t] = "none" => status[t] = "none"
  BY <1>1, <1>2, Zenon
<1>6. \A t \in wip' : status'[t] # "none"
  BY <1>2, <1>3, <1>4, Zenon DEF LostInv
<1>7. addPc' \in {"read", "install", "dropped"} => addTx' \cap wip' = {}
  BY <1>4, Zenon DEF LostInv
<1>8. \A t \in Txs : status'[t] = "pending" /\ Entered(t)' => status[t] = "pending" /\ Entered(t)
  <2> TAKE t \in Txs
  <2> HAVE status'[t] = "pending" /\ Entered(t)'
  <2>1. t \notin T /\ status[t] = "pending"
    BY <1>1, <1>2, Zenon
  <2>2. t \in wip' \/ (t \in addTx' /\ addPc' \in {"added", "mark"})
    BY Zenon DEF Entered
  <2>3. t \in wip \/ (t \in addTx /\ addPc \in {"added", "mark"})
    BY <1>4, <2>2, Zenon
  <2> QED BY <2>1, <2>3, Zenon DEF Entered
<1>9. OneTxPerNonce => \A t \in Txs \cap Kept : t \in Kept' \/ status'[t] # "pending"
  BY <1>1, <1>2, Zenon
<1>10. OneTxPerNonce => addRep' = {}
  BY Zenon DEF LostInv
<1> QED BY <1>5, <1>6, <1>7, <1>8, <1>9, <1>10, QuietLost, Zenon

LEMMA SubmitTxLost ==
  ASSUME QueueInv, LostInv, NEW t \in Txs, SubmitTx(t)
  PROVE  LostInv'
<1>1. /\ status[t] = "none" /\ status' = [status EXCEPT ![t] = "pending"] /\ status \in [Txs -> Status]
      /\ UNCHANGED <<wip, found, queue, addPc, addTx, addRep, block, toProcess, toStore, expired>>
      /\ wip \subseteq Txs
  BY Zenon DEF SubmitTx, QueueInv, Types, PoolType, workerVars, addVars, blockVars, boundVars
<1>2. status'[t] = "pending" /\ \A u \in Txs : u # t => status'[u] = status[u]
  BY <1>1, Zenon
<1>3. t \notin wip /\ t \notin addTx
  BY <1>1, Zenon DEF LostInv, QueueInv, KnownInv, UnderWay
<1>4. Kept' = Kept /\ \A u : Entered(u)' <=> Entered(u)
  <2>1. InWorker' = InWorker /\ InPipeline' = InPipeline
    BY <1>1, Zenon DEF InWorker, InPipeline
  <2>2. Kept' = Kept
    BY <1>1, <2>1, Zenon DEF Kept
  <2>3. \A u : Entered(u)' <=> Entered(u)
    BY <1>1, Zenon DEF Entered
  <2> QED BY <2>2, <2>3, Zenon
<1>5. \A u \in Txs : status'[u] = "none" => status[u] = "none"
  BY <1>1, <1>2, Zenon
<1>6. \A u \in wip' : status'[u] # "none"
  <2>1. "pending" # "none"
    OBVIOUS
  <2> QED BY <1>1, <1>2, <2>1, Zenon DEF LostInv
<1>7. \A u \in Txs : status'[u] = "pending" /\ Entered(u)' => status[u] = "pending" /\ Entered(u)
  BY <1>2, <1>3, <1>4, Zenon DEF Entered
<1>8. addPc' \in {"read", "install", "dropped"} => addTx' \cap wip' = {}
  BY <1>1, Zenon DEF LostInv
<1>9. OneTxPerNonce => addRep' = {}
  BY <1>1, Zenon DEF LostInv
<1> QED BY <1>4, <1>5, <1>6, <1>7, <1>8, <1>9, QuietLost, Zenon

LEMMA AddTxTrackerLost ==
  ASSUME QueueInv, LostInv, NEW t \in Txs, AddTxTracker(t)
  PROVE  LostInv'
<1>1. /\ addPc = "idle" /\ status[t] = "pending" /\ t \notin wip /\ addTx' = {t}
      /\ UNCHANGED <<status, wip, block, toProcess, toStore, expired>>
  BY Zenon DEF AddTxTracker, Loadable, poolVars, blockVars, boundVars
<1>2. /\ \A u \in InWorker : u \in InWorker' \/ (From[u] = From[t] /\ Nonce[u] = Nonce[t])
      /\ \/ addPc' \in {"dropped", "read"} /\ addRep' = addRep /\ InWorker' = InWorker
         \/ /\ addPc' = "added" /\ t \in InWorker'
            /\ \A u \in addRep' : u # t /\ u \in InWorker /\ From[u] = From[t] /\ Nonce[u] = Nonce[t]
  BY AddStep, Zenon
<1>3. InPipeline' = InPipeline
  BY <1>1, Zenon DEF InPipeline
<1>4. \A u \in InWorker : u \in Txs /\ status[u] # "none"
  BY UnderWayIs, Zenon DEF QueueInv, WorkerInv, KnownInv, UnderWay
<1>5. OneTxPerNonce => \A u \in InWorker : From[u] = From[t] /\ Nonce[u] = Nonce[t] => u = t
  <2>1. status[t] # "none"
    BY <1>1
  <2> QED BY <1>4, <2>1, Zenon DEF OneTxPerNonce
<1>6. OneTxPerNonce => \A u \in Txs \cap Kept : u \in Kept'
  BY <1>1, <1>2, <1>3, <1>5, Zenon DEF Kept
<1>7. OneTxPerNonce => addRep' = {}
  BY <1>2, <1>5, Zenon DEF LostInv
<1>8. ASSUME NEW u \in Txs, status'[u] = "pending", Entered(u)'
      PROVE  u \in Kept' \/ (status[u] = "pending" /\ Entered(u))
  <2>1. CASE u \in wip
    BY <1>1, <1>8, <2>1, Zenon DEF Entered
  <2>2. CASE u \notin wip
    <3>1. u = t /\ addPc' \in {"added", "mark"}
      BY <1>1, <1>8, <2>2, Zenon DEF Entered
    <3>2. \A x : x \in {"added", "mark"} => x \notin {"dropped", "read"}
      OBVIOUS
    <3> QED BY <1>2, <3>1, <3>2, Zenon DEF Kept
  <2> QED BY <2>1, <2>2, Zenon
<1>9. \A u \in wip' : status'[u] # "none"
  BY <1>1, Zenon DEF LostInv
<1>10. addTx' \cap wip' = {}
  BY <1>1, Zenon
<1> QED BY <1>1, <1>6, <1>7, <1>8, <1>9, <1>10, QuietLost, Zenon

\* ReadAccount, InstallQueue and MarkWIP.
LEMMA LoadLost ==
  ASSUME QueueInv, LostInv, ReadAccount \/ InstallQueue \/ MarkWIP
  PROVE  LostInv'
<1>1. UNCHANGED <<status, block, toProcess, toStore, expired>>
  BY Zenon DEF ReadAccount, InstallQueue, MarkWIP, poolVars, blockVars, boundVars
<1>2. InPipeline' = InPipeline
  BY <1>1, Zenon DEF InPipeline
<1>3. InWorker \subseteq InWorker'
  <2>1. CASE ReadAccount \/ MarkWIP
    BY <2>1, Zenon DEF ReadAccount, MarkWIP, workerVars, InWorker
  <2>2. CASE InstallQueue
    BY <2>2, InstallStep, Zenon
  <2> QED BY <2>1, <2>2, Zenon
<1>4. \A u \in Kept : u \in Kept'
  BY <1>1, <1>2, <1>3, Zenon DEF Kept
<1>5. addTx \subseteq Txs /\ \A u \in addTx : status[u] # "none"
  BY Zenon DEF QueueInv, Types, AddType, KnownInv, UnderWay
<1>6. \A u \in wip' : u \in wip \/ u \in addTx
  BY Zenon DEF ReadAccount, InstallQueue, MarkWIP, poolVars
<1>7. \A u \in wip' : status'[u] # "none"
  BY <1>1, <1>5, <1>6, Zenon DEF LostInv
<1>8. OneTxPerNonce => addRep' = {}
  <2>1. addRep' = addRep \/ addRep' = {}
    <3>1. CASE ReadAccount \/ MarkWIP
      BY <3>1, Zenon DEF ReadAccount, MarkWIP
    <3>2. CASE InstallQueue
      BY <3>2, InstallStep, Zenon
    <3> QED BY <3>1, <3>2, Zenon
  <2> QED BY <2>1, Zenon DEF LostInv
<1>9. addPc' \in {"read", "install", "dropped"} => addTx' \cap wip' = {}
  <2>1. CASE ReadAccount \/ InstallQueue
    <3>1. addPc = "read" \/ addPc = "install"
      BY <2>1, Zenon DEF ReadAccount, InstallQueue
    <3>2. UNCHANGED <<addTx, wip>>
      BY <2>1, Zenon DEF ReadAccount, InstallQueue, poolVars
    <3> QED BY <3>1, <3>2, Zenon DEF LostInv
  <2>2. CASE MarkWIP
    BY <2>2, Zenon DEF MarkWIP
  <2> QED BY <2>1, <2>2, Zenon
<1>10. ASSUME NEW u \in Txs, status'[u] = "pending", Entered(u)'
       PROVE  u \in Kept' \/ (status[u] = "pending" /\ Entered(u))
  <2>1. CASE ReadAccount
    <3>1. UNCHANGED <<wip, addTx>> /\ (addPc' = "install" \/ addPc' = "dropped")
      BY <2>1, Zenon DEF ReadAccount, poolVars
    <3>2. addPc' \notin {"added", "mark"}
      BY <3>1
    <3> QED BY <1>1, <1>10, <3>1, <3>2, Zenon DEF Entered
  <2>2. CASE InstallQueue
    <3>1. UNCHANGED <<wip, addTx>>
      BY <2>2, Zenon DEF InstallQueue, poolVars
    <3>2. CASE u \in wip
      BY <1>1, <1>10, <3>2, Zenon DEF Entered
    <3>3. CASE u \notin wip
      <4>1. u \in addTx /\ addPc' \in {"added", "mark"}
        BY <1>10, <3>1, <3>3, Zenon DEF Entered
      <4>2. PICK t \in addTx : addPc' = "dropped" \/ t \in InWorker'
        BY <2>2, InstallStep, Zenon
      <4>3. addPc' # "dropped"
        BY <4>1
      <4>4. u = t
        BY <4>1, Zenon DEF QueueInv, LocalInv
      <4> QED BY <4>2, <4>3, <4>4, Zenon DEF Kept
    <3> QED BY <3>2, <3>3, Zenon
  <2>3. CASE MarkWIP
    <3>1. addPc = "mark" /\ addTx' = {}
      BY <2>3, Zenon DEF MarkWIP
    <3> QED BY <1>1, <1>6, <1>10, <3>1, Zenon DEF Entered
  <2> QED BY <2>1, <2>2, <2>3, Zenon
<1> QED BY <1>1, <1>4, <1>7, <1>8, <1>9, <1>10, QuietLost, Zenon

\* A step of the finalizer, the pipeline or the expiry loop that writes no status.
LEMMA StillLost ==
  ASSUME LostInv, UNCHANGED <<status, wip, addPc, addTx, addRep>>, \A t \in Kept : t \in Kept'
  PROVE  LostInv'
BY Zenon DEF LostInv, OneTxPerNonce, Entered

LEMMA MovedLost ==
  ASSUME QueueInv, LostInv,
         \/ GetBestFittingTx \/ ProcessSuccess \/ ProcessAgain
         \/ CloseL2Block \/ ProcessL2Block \/ StoreL2Block \/ ExpireTransactions
  PROVE  LostInv'
<1>1. UNCHANGED <<status, wip, addPc, addTx, addRep>>
  BY Zenon DEF GetBestFittingTx, ProcessSuccess, ProcessAgain, CloseL2Block, ProcessL2Block, StoreL2Block,
     ExpireTransactions, poolVars, addVars
<1>2. Types /\ Agree(queue, sorted, found) /\ InWorker = HeldIn(queue, found) /\ InWorker' = HeldIn(queue', found')
  BY InWorkerIs, Zenon DEF QueueInv, WorkerInv
<1>3. \A t \in Kept : t \in Kept'
  <2>1. CASE GetBestFittingTx \/ ProcessAgain \/ StoreL2Block
    <3>1. UNCHANGED <<found, queue, block, toProcess, toStore, expired>>
      BY <2>1, Zenon DEF GetBestFittingTx, ProcessAgain, StoreL2Block, workerVars, blockVars, boundVars
    <3> QED BY <3>1, Zenon DEF Kept, InWorker, InPipeline
  <2>2. CASE ProcessSuccess
    <3>1. PICK t \in finTx : block' = Append(block, t) /\ Becomes(WorkerDeleteTx(Current, t))
      BY <2>2, Zenon DEF ProcessSuccess
    <3>2. UNCHANGED <<found, toProcess, toStore, expired>>
      BY <2>2, Zenon DEF ProcessSuccess, boundVars
    <3>3. t \in Txs /\ block \in Seq(Txs)
      BY <1>2, Zenon DEF Types, FinType, BlockType
    <3>4. Range(Append(block, t)) = Range(block) \cup {t}
      BY <3>3, RangeAppend
    <3>5. t \in InPipeline' /\ \A u \in InPipeline : u \in InPipeline'
      BY <3>1, <3>2, <3>4, Zenon DEF InPipeline
    <3>6. \A u \in InWorker : u \in InWorker' \/ u = t
      BY <1>2, <3>1, <3>2, <3>3, DeleteStep, Zenon
    <3> QED BY <3>2, <3>5, <3>6, Zenon DEF Kept
  <2>3. CASE CloseL2Block
    <3>1. UNCHANGED <<found, queue, expired>>
      BY <2>3, Zenon DEF CloseL2Block, workerVars, boundVars
    <3> QED BY <1>2, <2>3, <3>1, CloseIs, Zenon DEF Kept, InWorker
  <2>4. CASE ProcessL2Block
    <3>1. UNCHANGED <<found, expired>>
      BY <2>4, Zenon DEF ProcessL2Block, boundVars
    <3>2. /\ InPipeline' = InPipeline /\ queue' = WithPending(Range(Head(toProcess).txs), {})
          /\ Range(Head(toProcess).txs) \in SUBSET Txs
      BY <1>2, <2>4, ProcessIs, Zenon DEF ProcessL2Block
    <3>3. InWorker' = InWorker
      BY <1>2, <3>1, <3>2, PendingIs, Zenon
    <3> QED BY <3>1, <3>2, <3>3, Zenon DEF Kept
  <2>5. CASE ExpireTransactions
    <3>1. expired = {} /\ UNCHANGED <<block, toProcess, toStore>>
      BY <2>5, Zenon DEF ExpireTransactions, blockVars
    <3>2. \A u \in InWorker : u \in InWorker' \/ u \in expired'
      BY <1>2, <2>5, ExpireIs, Zenon
    <3> QED BY <3>1, <3>2, Zenon DEF Kept, InPipeline
  <2> QED BY <2>1, <2>2, <2>3, <2>4, <2>5, Zenon
<1> QED BY <1>1, <1>3, StillLost, Zenon

\* loadFromPool and the expiry loop fail txs.
LEMMA FailLost ==
  ASSUME QueueInv, LostInv, FailDropped \/ FailReplaced \/ FailExpired
  PROVE  LostInv'
<1>1. UNCHANGED <<found, queue, block, toProcess, toStore>>
  BY Zenon DEF FailDropped, FailReplaced, FailExpired, workerVars, blockVars
<1>2. InWorker' = InWorker /\ InPipeline' = InPipeline
  BY <1>1, Zenon DEF InWorker, InPipeline
<1>3. CASE FailDropped
  <2>1. UpdateTxStatus(addTx, "failed") /\ addPc' = "idle" /\ addTx' = {} /\ addRep' = addRep /\ expired' = expired
    BY <1>3, Zenon DEF FailDropped, boundVars
  <2>2. addPc' \notin {"read", "install", "dropped"} /\ addPc' \notin {"added", "mark"}
    BY <2>1
  <2>3. \A t \in Kept : t \in Kept'
    BY <1>2, <2>1, Zenon DEF Kept
  <2> QED BY <2>1, <2>2, <2>3, UpdateLost, Zenon
<1>4. CASE FailReplaced
  <2>1. /\ UpdateTxStatus(addRep, "failed") /\ addPc' = "mark" /\ addTx' = addTx /\ addRep' = {}
        /\ expired' = expired /\ addPc = "added"
    BY <1>4, Zenon DEF FailReplaced, boundVars
  <2>2. addPc' \notin {"read", "install", "dropped"} /\ addPc \in {"added", "mark"}
    BY <2>1
  <2>3. \A t \in Kept : t \in Kept'
    BY <1>2, <2>1, Zenon DEF Kept
  <2> QED BY <2>1, <2>2, <2>3, UpdateLost, Zenon
<1>5. CASE FailExpired
  <2>1. UpdateTxStatus(expired, "failed") /\ UNCHANGED <<addPc, addTx, addRep>>
    BY <1>5, Zenon DEF FailExpired, addVars
  <2>2. \A t \in Kept : t \in Kept' \/ t \in expired
    BY <1>2, Zenon DEF Kept
  <2> QED BY <2>1, <2>2, UpdateLost, Zenon
<1> QED BY <1>3, <1>4, <1>5, Zenon

LEMMA SelectLost ==
  ASSUME QueueInv, LostInv, SelectTxs
  PROVE  LostInv'
<1>1. /\ UNCHANGED <<found, expired, addPc, addTx, addRep>> /\ toStore # <<>>
      /\ UpdateTxStatus(Range(Head(toStore).txs), "selected")
      /\ queue' = WithPending({}, Range(Head(toStore).txs)) /\ {} \in SUBSET Txs
  BY Zenon DEF SelectTxs, addVars, boundVars, QueueInv, LocalInv
<1>2. Types /\ Agree(queue, sorted, found)
  BY Zenon DEF QueueInv, WorkerInv
<1>3. InWorker' = InWorker
  BY <1>1, <1>2, PendingIs, InWorkerIs, Zenon
<1>4. \A t \in InPipeline : t \in InPipeline' \/ t \in Range(Head(toStore).txs)
  BY <1>1, <1>2, SelectIs, Zenon
<1>5. \A t \in Kept : t \in Kept' \/ t \in Range(Head(toStore).txs)
  BY <1>1, <1>3, <1>4, Zenon DEF Kept
<1> QED BY <1>1, <1>5, UpdateLost, Zenon

LEMMA OtherErrorLost ==
  ASSUME QueueInv, LostInv, ProcessOtherError
  PROVE  LostInv'
<1>1. PICK t \in finTx, s \in {"invalid", "failed"} :
        Becomes(WorkerDeleteTx(Current, t)) /\ UpdateTxStatus({t}, s)
  BY Zenon DEF ProcessOtherError
<1>2. UNCHANGED <<found, addPc, addTx, addRep, block, toProcess, toStore, expired>>
  BY Zenon DEF ProcessOtherError, addVars, blockVars, boundVars
<1>3. t \in Txs /\ Agree(queue, sorted, found)
  BY Zenon DEF QueueInv, Types, FinType, WorkerInv
<1>4. \A u \in InWorker : u \in InWorker' \/ u = t
  BY <1>1, <1>2, <1>3, DeleteStep, InWorkerIs, Zenon
<1>5. \A u \in Kept : u \in Kept' \/ u \in {t}
  BY <1>2, <1>4, Zenon DEF Kept, InPipeline
<1>6. s \in {"failed", "invalid", "selected"}
  BY Zenon
<1> QED BY <1>1, <1>2, <1>5, <1>6, UpdateLost, Zenon

\* The updates of nonce and balance: a tx that leaves its queue is failed, or was
\* executed, or has a rival.
LEMMA UpdateQueueLost ==
  ASSUME QueueInv, NonceInv, ExecutedInv, LostInv, UpdateAfterSuccess \/ ProcessIntrinsicError
  PROVE  LostInv'
<1>1. PICK t \in finTx : /\ From[t] \in Addrs /\ Refreshed(From[t])
                         /\ UpdateTxStatus(TxsToDelete(From[t], im[From[t]].nonce), "failed")
  BY RefreshSteps, Zenon
<1>2. UNCHANGED <<found, im, addPc, addTx, addRep, block, toProcess, toStore, expired>>
  BY RefreshSteps, Zenon
<1> DEFINE T == TxsToDelete(From[t], im[From[t]].nonce)
<1>3. UpdateTxStatus(T, "failed")
  BY <1>1, Zenon
<1> HIDE DEF T
<1>4. /\ Types /\ Agree(queue, sorted, found) /\ found \subseteq Addrs /\ queue \in [Addrs -> AddrQueue]
      /\ im \in [Addrs -> Account] /\ InWorker = HeldIn(queue, found) /\ InWorker' = HeldIn(queue', found)
  BY <1>2, InWorkerIs, Zenon DEF QueueInv, WorkerInv, Agree, Types, StateType
<1>5. \A u \in InWorker : u \in Txs /\ From[u] \in found /\ u \in Held(queue[From[u]]) /\ status[u] # "none"
  BY <1>4, HeldInIs, Zenon DEF QueueInv, KnownInv, UnderWay
<1>6. ASSUME OneTxPerNonce, NEW u \in InWorker, Nonce[u] < im[From[u]].nonce
      PROVE  u \in InPipeline \/ status[u] # "pending"
  <2>1. u \in Txs /\ From[u] \in Addrs /\ Nonce[u] \in Nat /\ status[u] # "none" /\ From[u] \in found
    BY <1>4, <1>5, Prices, Zenon
  <2>2. ~(Nonce[u] < queue[From[u]].nonce)
    <3>1. Consistent(queue[From[u]], From[u]) /\ queue[From[u]].nonce \in Nat
      BY <1>4, <2>1, Fields, Zenon DEF Agree
    <3>2. Nonce[u] = queue[From[u]].nonce \/ Nonce[u] >= queue[From[u]].nonce
      BY <1>5, <3>1, Zenon DEF Consistent, Held
    <3> QED BY <2>1, <3>1, <3>2
  <2>3. \E v \in Txs : From[v] = From[u] /\ Nonce[v] = Nonce[u] /\ Settled(v)
    BY <1>6, <2>1, <2>2, Zenon DEF ExecutedInv
  <2> QED BY <1>6, <2>1, <2>3, Zenon DEF OneTxPerNonce, Settled
<1>7. ASSUME NEW u \in InWorker, Nonce[u] = queue[From[u]].nonce, Cost[u] <= queue[From[u]].balance,
             im[From[u]].balance < Cost[u]
      PROVE  Nonce[u] < im[From[u]].nonce
  <2>1. From[u] \in found /\ From[u] \in Addrs /\ u \in Txs
    BY <1>4, <1>5, Zenon
  <2>2. /\ queue[From[u]].nonce \in Nat /\ queue[From[u]].balance \in Nat /\ Cost[u] \in Nat
        /\ im[From[u]].nonce \in Nat /\ im[From[u]].balance \in Nat
    BY <1>4, <2>1, Fields, AccountNat, Prices, Zenon
  <2>3. Behind([nonce |-> queue[From[u]].nonce, balance |-> queue[From[u]].balance], im[From[u]])
    BY <2>1, Zenon DEF NonceInv, QueuesBehind
  <2> QED BY <1>7, <2>2, <2>3 DEF Behind
<1>8. ASSUME OneTxPerNonce, NEW u \in InWorker
      PROVE  u \in InWorker' \/ u \in T \/ u \in InPipeline \/ status[u] # "pending"
  <2>1. \/ u \in InWorker' \/ u \in T
        \/ Nonce[u] < im[From[u]].nonce
        \/ /\ Nonce[u] = queue[From[u]].nonce /\ Cost[u] <= queue[From[u]].balance
           /\ im[From[u]].balance < Cost[u]
        \/ \E v \in InWorker : v # u /\ From[v] = From[u] /\ Nonce[v] = Nonce[u]
    BY <1>1, <1>4, Zenon DEF Refreshed, T
  <2>2. ~\E v \in InWorker : v # u /\ From[v] = From[u] /\ Nonce[v] = Nonce[u]
    BY <1>5, <1>8, Zenon DEF OneTxPerNonce
  <2> QED BY <1>6, <1>7, <1>8, <2>1, <2>2, Zenon
<1>9. OneTxPerNonce => \A u \in Txs \cap Kept : u \in Kept' \/ u \in T \/ status[u] # "pending"
  BY <1>2, <1>8, Zenon DEF Kept, InPipeline
<1> QED BY <1>2, <1>3, <1>9, UpdateLost, Zenon

LEMMA LostPreserved == QueueInv /\ NonceInv /\ ExecutedInv /\ LostInv /\ [Next]_vars => LostInv'
<1> SUFFICES ASSUME QueueInv, NonceInv, ExecutedInv, LostInv, [Next]_vars
             PROVE  LostInv'
  OBVIOUS
<1>1. CASE Next
  <2>1. \A t \in deployment.txs : t \in Txs
    BY Constants, Zenon DEF QueueInv, Types, BoundType
  <2>2. CASE \/ \E t \in deployment.txs : SubmitTx(t)
             \/ \E t \in Txs : AddTxTracker(t)
    BY <2>1, <2>2, SubmitTxLost, AddTxTrackerLost, Zenon
  <2>3. CASE ReadAccount \/ InstallQueue \/ FailDropped \/ FailReplaced \/ MarkWIP \/ FailExpired
    BY <2>3, LoadLost, FailLost, Zenon
  <2>4. CASE GetBestFittingTx \/ ProcessSuccess \/ UpdateAfterSuccess
             \/ ProcessIntrinsicError \/ ProcessOtherError \/ ProcessAgain
    BY <2>4, MovedLost, UpdateQueueLost, OtherErrorLost, Zenon
  <2>5. CASE CloseL2Block \/ ProcessL2Block \/ StoreL2Block \/ SelectTxs \/ ExpireTransactions
    BY <2>5, MovedLost, SelectLost, Zenon
  <2>6. CASE Restart
    <3>1. wip' = {} /\ addTx' = {} /\ addRep' = {}
      BY <2>6, Zenon DEF Restart
    <3> QED BY <3>1, Zenon DEF LostInv, Entered
  <2> QED BY <1>1, <2>2, <2>3, <2>4, <2>5, <2>6, Steps, Zenon
<1>2. CASE UNCHANGED vars
  <2>1. UNCHANGED <<status, wip, addPc, addTx, addRep, found, queue, block, toProcess, toStore, expired>>
    BY <1>2, Zenon DEF vars, sequencerVars, poolVars, workerVars, dbVars, addVars, finVars, blockVars, boundVars
  <2> QED BY <2>1, StillLost, Zenon DEF Kept, InWorker, InPipeline
<1> QED BY <1>1, <1>2, Zenon

LEMMA LostHolds == Spec => []LostInv
<1>1. Init => LostInv
  BY Zenon DEF Init, LostInv, Entered
<1>2. Init /\ [][Next]_vars /\ []QueueInv /\ []NonceInv /\ []ExecutedInv => []LostInv
  BY <1>1, LostPreserved, PTL
<1> QED BY <1>2, QueueHolds, NonceHolds, ExecutedHolds, PTL DEF Spec

\* A tx that is pending and WIP, which loadFromPool does not load again, is in a
\* queue, in an L2 block or on its way to a new status, as long as no two txs of a
\* sender have the same nonce: the deletions of txs of a lower nonce
\* (addrqueue.go, UpdateCurrentNonceBalance) reach executed txs only.
THEOREM NothingLost == Spec => []NoTxLost
<1>1. QueueInv /\ LostInv => NoTxLost
  <2>1. ASSUME QueueInv, LostInv PROVE NoTxLost
    <3>1. wip \subseteq Txs
      BY <2>1, Zenon DEF QueueInv, Types, PoolType
    <3> QED BY <2>1, <3>1, Zenon DEF LostInv, Entered, Kept, NoTxLost
  <2> QED BY <2>1, Zenon
<1> QED BY <1>1, QueueHolds, LostHolds, PTL

-----------------------------------------------------------------------------
(* Selected is final.                                                      *)

\* The txs of the open block bl and of the blocks B of the pipeline differ.
PipesApart(bl, B) ==
  /\ \A i, j \in 1 .. Len(B) : i # j => \A t \in Range(B[i].txs) : t \notin Range(B[j].txs)
  /\ \A i \in 1 .. Len(B) : \A t \in Range(B[i].txs) : t \notin Range(bl)

\* No late write of failed can come: no queue was dropped, no tx has a rival and no
\* call fails.
CalmNow == expiries = 0 /\ OneTxPerNonce /\ ~ExecErrors

\* Then a tx is at one place, pending until the pipeline lets go of it.
CalmInv == CalmNow =>
  /\ \A t \in InWorker \cup InPipeline : status[t] = "pending" /\ Entered(t)
  /\ InWorker \cap InPipeline = {}
  /\ PipesApart(block, Blocks)
  /\ finPc = "process" => finTx \subseteq InWorker
  /\ addPc \in {"read", "install", "dropped"} => \A t \in addTx : status[t] = "pending"

LEMMA CalmBack ==
  ASSUME QueueInv, Next, CalmNow'
  PROVE  CalmNow
<1>1. deployment' = deployment /\ ~ExecErrors
  BY Steps, Zenon DEF CalmNow, ExecErrors
<1>2. \A t \in Txs : status'[t] = "none" => status[t] = "none"
  <2>1. ASSUME NEW T, NEW s \in {"failed", "invalid", "selected"}, UpdateTxStatus(T, s)
        PROVE  \A t \in Txs : status'[t] = "none" => status[t] = "none"
    <3>1. s # "none"
      BY Zenon
    <3> QED BY <2>1, <3>1, Zenon DEF UpdateTxStatus
  <2>2. ASSUME NEW t \in Txs, SubmitTx(t)
        PROVE  \A u \in Txs : status'[u] = "none" => status[u] = "none"
    <3>1. status[t] = "none" /\ status' = [status EXCEPT ![t] = "pending"] /\ status \in [Txs -> Status]
      BY <2>2, Zenon DEF SubmitTx, QueueInv, Types, PoolType
    <3> QED BY <3>1, Zenon
  <2>3. CASE FailDropped \/ FailReplaced \/ FailExpired \/ SelectTxs
             \/ UpdateAfterSuccess \/ ProcessIntrinsicError \/ ProcessOtherError
    <3>1. \E T : \E s \in {"failed", "invalid", "selected"} : UpdateTxStatus(T, s)
      BY <2>3, RefreshSteps, Zenon DEF FailDropped, FailReplaced, FailExpired, SelectTxs, ProcessOtherError
    <3> QED BY <2>1, <3>1, Zenon
  <2>4. CASE \/ (\E t \in Txs : AddTxTracker(t)) \/ ReadAccount \/ InstallQueue \/ MarkWIP
             \/ GetBestFittingTx \/ ProcessSuccess \/ ProcessAgain
             \/ CloseL2Block \/ ProcessL2Block \/ StoreL2Block \/ ExpireTransactions \/ Restart
    <3>1. status' = status
      BY <2>4, Zenon DEF AddTxTracker, ReadAccount, InstallQueue, MarkWIP, GetBestFittingTx, ProcessSuccess,
         ProcessAgain, CloseL2Block, ProcessL2Block, StoreL2Block, ExpireTransactions, Restart, poolVars
    <3> QED BY <3>1, Zenon
  <2>5. \A t \in deployment.txs : t \in Txs
    BY Constants, Zenon DEF QueueInv, Types, BoundType
  <2> QED BY <2>2, <2>3, <2>4, <2>5, Steps, Zenon
<1>3. OneTxPerNonce
  BY <1>2, RivalsStay, Zenon DEF CalmNow
<1>4. expiries = 0
  <2>1. CASE ExpireTransactions
    <3>1. expiries' = expiries + 1 /\ expiries \in 0 .. MaxExpiries /\ MaxExpiries \in Nat
      BY <2>1, Constants, Zenon DEF ExpireTransactions, QueueInv, Types, BoundType, MaxExpiries
    <3>2. expiries' # 0
      BY <3>1
    <3> QED BY <3>2, Zenon DEF CalmNow
  <2>2. CASE ~ExpireTransactions
    <3>1. expiries' = expiries
      <4>1. \A t : SubmitTx(t) \/ AddTxTracker(t) => expiries' = expiries
        BY Zenon DEF SubmitTx, AddTxTracker, boundVars
      <4>2. ReadAccount \/ InstallQueue \/ FailDropped \/ FailReplaced \/ MarkWIP => expiries' = expiries
        BY Zenon DEF ReadAccount, InstallQueue, FailDropped, FailReplaced, MarkWIP, boundVars
      <4>3. GetBestFittingTx \/ ProcessSuccess \/ UpdateAfterSuccess \/ ProcessIntrinsicError
            \/ ProcessOtherError \/ ProcessAgain => expiries' = expiries
        BY Zenon DEF GetBestFittingTx, ProcessSuccess, UpdateAfterSuccess, ProcessIntrinsicError,
           ProcessOtherError, ProcessAgain, boundVars
      <4>4. CloseL2Block \/ ProcessL2Block \/ StoreL2Block \/ SelectTxs \/ FailExpired \/ Restart => expiries' = expiries
        BY Zenon DEF CloseL2Block, ProcessL2Block, StoreL2Block, SelectTxs, FailExpired, Restart, boundVars
      <4> QED BY <2>2, <4>1, <4>2, <4>3, <4>4, Steps, Zenon
    <3> QED BY <3>1, Zenon DEF CalmNow
  <2> QED BY <2>1, <2>2, Zenon
<1> QED BY <1>1, <1>3, <1>4, Zenon DEF CalmNow

\* Where the txs of the pipeline are.
LEMMA InPipelineIs ==
  ASSUME Types
  PROVE  /\ Blocks \in Seq(L2Block) /\ block \in Seq(Txs)
         /\ \A t : t \in InPipeline <=> t \in Range(block) \/ \E i \in 1 .. Len(Blocks) : t \in Range(Blocks[i].txs)
<1>1. block \in Seq(Txs) /\ toProcess \in Seq(L2Block) /\ toStore \in Seq(L2Block)
  BY Zenon DEF Types, BlockType
<1>2. InPipeline = Under(block, Blocks)
  BY <1>1, PipelineIs, Zenon DEF InPipeline, Blocks
<1>3. Blocks \in Seq(L2Block)
  BY <1>1, Concatenation, Zenon DEF Blocks
<1> QED BY <1>1, <1>2, <1>3, Zenon DEF Under

LEMMA InPipelineNext ==
  ASSUME Types'
  PROVE  \A t : t \in InPipeline' <=> t \in Range(block') \/ \E i \in 1 .. Len(Blocks') : t \in Range(Blocks'[i].txs)
<1>1. block' \in Seq(Txs) /\ toProcess' \in Seq(L2Block) /\ toStore' \in Seq(L2Block)
  BY Zenon DEF Types, BlockType
<1>2. InPipeline' = Under(block', Blocks')
  BY <1>1, PipelineIs, Zenon DEF InPipeline, Blocks
<1> QED BY <1>2, Zenon DEF Under

\* The open block is closed.
LEMMA ApartClose ==
  ASSUME NEW bl, NEW B \in Seq(L2Block), NEW e \in L2Block, e.txs = bl, PipesApart(bl, B)
  PROVE  PipesApart(<<>>, Append(B, e))
<1> DEFINE C == Append(B, e)
<1>1. /\ C \in Seq(L2Block) /\ Len(C) = Len(B) + 1 /\ C[Len(B) + 1] = e /\ Len(B) \in Nat
      /\ \A i \in 1 .. Len(B) : C[i] = B[i]
  OBVIOUS
<1> HIDE DEF C
<1>2. \A i \in 1 .. Len(C) : i \in 1 .. Len(B) \/ i = Len(B) + 1
  BY <1>1
<1>3. Range(<<>>) = {}
  BY DEF Range
<1>4. ASSUME NEW i \in 1 .. Len(C), NEW j \in 1 .. Len(C), i # j, NEW t \in Range(C[i].txs)
      PROVE  t \notin Range(C[j].txs)
  <2>1. CASE i \in 1 .. Len(B) /\ j \in 1 .. Len(B)
    BY <1>1, <1>4, <2>1, Zenon DEF PipesApart
  <2>2. CASE i = Len(B) + 1 /\ j \in 1 .. Len(B)
    BY <1>1, <1>4, <2>2, Zenon DEF PipesApart
  <2>3. CASE i \in 1 .. Len(B) /\ j = Len(B) + 1
    BY <1>1, <1>4, <2>3, Zenon DEF PipesApart
  <2> QED BY <1>2, <1>4, <2>1, <2>2, <2>3, Zenon
<1>5. PipesApart(<<>>, C)
  BY <1>3, <1>4, Zenon DEF PipesApart
<1> QED BY <1>5, Zenon DEF C

\* The first block leaves.
LEMMA ApartDrop ==
  ASSUME NEW bl, NEW B \in Seq(L2Block), NEW C \in Seq(L2Block), PipesApart(bl, B),
         Len(B) \in Nat \ {0}, Len(C) = Len(B) - 1, \A i \in 1 .. Len(B) - 1 : C[i] = B[i + 1]
  PROVE  /\ PipesApart(bl, C)
         /\ \A t \in Range(B[1].txs) : t \notin Range(bl) /\ \A i \in 1 .. Len(C) : t \notin Range(C[i].txs)
<1>1. \A i \in 1 .. Len(C) : i + 1 \in 1 .. Len(B) /\ C[i] = B[i + 1] /\ i + 1 # 1
  OBVIOUS
<1>2. \A i, j \in 1 .. Len(C) : i # j => i + 1 # j + 1
  OBVIOUS
<1>3. 1 \in 1 .. Len(B)
  OBVIOUS
<1>4. ASSUME NEW i \in 1 .. Len(C), NEW j \in 1 .. Len(C), i # j, NEW t \in Range(C[i].txs)
      PROVE  t \notin Range(C[j].txs)
  <2>1. i + 1 \in 1 .. Len(B) /\ j + 1 \in 1 .. Len(B) /\ i + 1 # j + 1 /\ t \in Range(B[i + 1].txs)
    BY <1>1, <1>2, <1>4, Zenon
  <2>2. t \notin Range(B[j + 1].txs)
    BY <2>1, Zenon DEF PipesApart
  <2> QED BY <1>1, <2>2, Zenon
<1>5. \A i \in 1 .. Len(C) : \A t \in Range(C[i].txs) : t \notin Range(bl)
  BY <1>1, Zenon DEF PipesApart
<1>6. ASSUME NEW t \in Range(B[1].txs)
      PROVE  t \notin Range(bl) /\ \A i \in 1 .. Len(C) : t \notin Range(C[i].txs)
  BY <1>1, <1>3, Zenon DEF PipesApart
<1> QED BY <1>4, <1>5, <1>6, Zenon DEF PipesApart

\* A step that brings nothing new into the worker or the pipeline.
LEMMA QuietCalm ==
  ASSUME CalmInv, CalmNow' => CalmNow,
         CalmNow => /\ InWorker' \subseteq InWorker /\ InPipeline' \subseteq InPipeline
                    /\ \A t \in InWorker' \cup InPipeline' : status'[t] = status[t] /\ (Entered(t) => Entered(t)')
                    /\ PipesApart(block', Blocks')
                    /\ finPc' = "process" => finPc = "process" /\ finTx' = finTx /\ InWorker' = InWorker
                    /\ addPc' \in {"read", "install", "dropped"} =>
                         /\ addPc \in {"read", "install", "dropped"} /\ addTx' = addTx
                         /\ \A t \in addTx : status'[t] = status[t]
  PROVE  CalmInv'
<1> SUFFICES ASSUME CalmNow, CalmNow'
             PROVE  /\ \A t \in InWorker' \cup InPipeline' : status'[t] = "pending" /\ Entered(t)'
                    /\ InWorker' \cap InPipeline' = {}
                    /\ PipesApart(block', Blocks')
                    /\ finPc' = "process" => finTx' \subseteq InWorker'
                    /\ addPc' \in {"read", "install", "dropped"} => \A t \in addTx' : status'[t] = "pending"
  BY Zenon DEF CalmInv
<1>1. /\ \A t \in InWorker \cup InPipeline : status[t] = "pending" /\ Entered(t)
      /\ InWorker \cap InPipeline = {}
      /\ finPc = "process" => finTx \subseteq InWorker
      /\ addPc \in {"read", "install", "dropped"} => \A t \in addTx : status[t] = "pending"
  BY Zenon DEF CalmInv
<1> QED BY <1>1, Zenon

LEMMA SubmitTxCalm ==
  ASSUME QueueInv, CalmInv, CalmNow' => CalmNow, NEW t \in Txs, SubmitTx(t)
  PROVE  CalmInv'
<1>1. /\ status[t] = "none" /\ status' = [status EXCEPT ![t] = "pending"] /\ status \in [Txs -> Status]
      /\ UNCHANGED <<wip, found, queue, addPc, addTx, finPc, finTx, block, toProcess, toStore>>
  BY Zenon DEF SubmitTx, QueueInv, Types, PoolType, workerVars, addVars, finVars, blockVars
<1>2. \A u \in Txs : u # t => status'[u] = status[u]
  BY <1>1, Zenon
<1>3. \A u \in InWorker \cup InPipeline \cup addTx : u \in Txs /\ u # t
  BY <1>1, UnderWayIs, Zenon DEF QueueInv, WorkerInv, KnownInv, UnderWay
<1>4. InWorker' = InWorker /\ InPipeline' = InPipeline /\ Blocks' = Blocks /\ \A u : Entered(u)' <=> Entered(u)
  BY <1>1, Zenon DEF InWorker, InPipeline, Blocks, Entered
<1>5. CalmNow => PipesApart(block', Blocks')
  BY <1>1, <1>4, Zenon DEF CalmInv
<1> QED BY <1>1, <1>2, <1>3, <1>4, <1>5, QuietCalm, Zenon

\* A tx that joins the worker.
LEMMA JoinCalm ==
  ASSUME QueueInv, LostInv, CalmInv, CalmNow' => CalmNow, NEW t \in Txs,
         UNCHANGED <<status, wip, finPc, finTx, block, toProcess, toStore>>,
         status[t] = "pending", t \notin wip, addTx' = {t},
         addPc \in {"idle", "install"}, \A u \in InWorker' : u \in InWorker \/ (u = t /\ addPc' = "added"),
         CalmNow => InWorker \subseteq InWorker'
  PROVE  CalmInv'
<1>1. InPipeline' = InPipeline /\ Blocks' = Blocks
  BY Zenon DEF InPipeline, Blocks
<1>2. addPc \notin {"added", "mark"}
  OBVIOUS
<1>3. \A u : Entered(u) => u \in wip
  BY <1>2, Zenon DEF Entered
<1>4. \A u \in wip : Entered(u)'
  BY Zenon DEF Entered
<1>5. addPc' = "added" => Entered(t)'
  BY Zenon DEF Entered
<1> SUFFICES ASSUME CalmNow, CalmNow'
             PROVE  /\ \A u \in InWorker' \cup InPipeline' : status'[u] = "pending" /\ Entered(u)'
                    /\ InWorker' \cap InPipeline' = {}
                    /\ PipesApart(block', Blocks')
                    /\ finPc' = "process" => finTx' \subseteq InWorker'
                    /\ \A u \in addTx' : status'[u] = "pending"
  BY Zenon DEF CalmInv
<1>6. /\ \A u \in InWorker \cup InPipeline : status[u] = "pending" /\ Entered(u)
      /\ InWorker \cap InPipeline = {}
      /\ PipesApart(block, Blocks)
      /\ finPc = "process" => finTx \subseteq InWorker
  BY Zenon DEF CalmInv
<1>7. t \notin InPipeline
  BY <1>3, <1>6, Zenon
<1>8. \A u \in InWorker' \cup InPipeline' : status'[u] = "pending" /\ Entered(u)'
  BY <1>1, <1>3, <1>4, <1>5, <1>6, Zenon
<1>9. InWorker' \cap InPipeline' = {}
  BY <1>1, <1>6, <1>7, Zenon
<1> QED BY <1>1, <1>6, <1>8, <1>9, Zenon

LEMMA AddTxTrackerCalm ==
  ASSUME QueueInv, LostInv, CalmInv, CalmNow' => CalmNow, NEW t \in Txs, AddTxTracker(t)
  PROVE  CalmInv'
<1>1. /\ addPc = "idle" /\ status[t] = "pending" /\ t \notin wip /\ addTx' = {t}
      /\ UNCHANGED <<status, wip, finPc, finTx, block, toProcess, toStore>>
  BY Zenon DEF AddTxTracker, Loadable, poolVars, finVars, blockVars
<1>2. /\ \A u \in InWorker' : u \in InWorker \/ u = t
      /\ \A u \in InWorker : u \in InWorker' \/ (From[u] = From[t] /\ Nonce[u] = Nonce[t])
      /\ (addPc' \in {"dropped", "read"} /\ InWorker' = InWorker) \/ (addPc' = "added" /\ t \in InWorker')
  BY AddStep, Zenon
<1>3. \A u \in InWorker : u \in Txs /\ status[u] # "none"
  BY UnderWayIs, Zenon DEF QueueInv, WorkerInv, KnownInv, UnderWay
<1>4. status[t] # "none"
  BY <1>1
<1>5. CalmNow => InWorker \subseteq InWorker'
  <2>1. OneTxPerNonce => \A u \in InWorker : From[u] = From[t] /\ Nonce[u] = Nonce[t] => u = t
    BY <1>3, <1>4, Zenon DEF OneTxPerNonce
  <2> QED BY <1>2, <2>1, Zenon DEF CalmNow
<1>6. \A u \in InWorker' : u \in InWorker \/ (u = t /\ addPc' = "added")
  BY <1>2, Zenon
<1> QED BY <1>1, <1>5, <1>6, JoinCalm, Zenon

\* When the tx is dropped the new queue stays empty.
LEMMA InstallDropped ==
  ASSUME QueueInv, InstallQueue, addPc' = "dropped"
  PROVE  InWorker' = InWorker
<1>1. PICK t \in addTx :
           /\ t \in Txs /\ From[t] \in Addrs /\ From[t] \notin found /\ found' = found \cup {From[t]}
           /\ \A b \in Addrs : b # From[t] => queue'[b] = queue[b]
           /\ Held(queue'[From[t]]) = {}
  <2>1. PICK t \in addTx : found' = found \cup {From[t]} /\ Enqueue(t, NewAddrQueue(addAcc))
    BY Zenon DEF InstallQueue
  <2>2. t \in Txs /\ From[t] \in Addrs /\ addAcc \in Account /\ queue \in [Addrs -> AddrQueue]
    BY Constants, Zenon DEF QueueInv, Types, AddType, WorkerInv, Agree
  <2>3. From[t] \notin found
    BY Zenon DEF QueueInv, LocalInv, InstallQueue
  <2>4. "dropped" # "added"
    OBVIOUS
  <2>5. queue' = [queue EXCEPT ![From[t]] = NewAddrQueue(addAcc)]
    BY <2>1, <2>4, Zenon DEF Enqueue
  <2>6. Held(NewAddrQueue(addAcc)) = {}
    BY <2>2, NewQueueIs, Zenon
  <2> QED BY <2>1, <2>2, <2>3, <2>5, <2>6, Zenon
<1>2. found \subseteq Addrs
  BY Zenon DEF QueueInv, WorkerInv, Agree
<1>3. \A u \in InWorker : u \in InWorker'
  BY <1>1, <1>2, Zenon DEF InWorker
<1>4. \A u \in InWorker' : u \in InWorker
  BY <1>1, <1>2, Zenon DEF InWorker, Held
<1> QED BY <1>3, <1>4, Zenon

LEMMA InstallQueueCalm ==
  ASSUME QueueInv, LostInv, CalmInv, CalmNow' => CalmNow, InstallQueue
  PROVE  CalmInv'
<1>1. addPc = "install" /\ UNCHANGED <<status, wip, addTx, finPc, finTx, block, toProcess, toStore>>
  BY Zenon DEF InstallQueue, poolVars, finVars, blockVars
<1>2. PICK t \in addTx : /\ t \in Txs /\ InWorker \subseteq InWorker'
                         /\ \A u \in InWorker' : u \in InWorker \/ u = t
                         /\ addPc' = "dropped" \/ (addPc' = "added" /\ t \in InWorker')
  BY InstallStep, Zenon
<1>3. addTx = {t} /\ t \notin wip
  <2>1. addPc \in {"read", "install", "dropped"}
    BY <1>1
  <2> QED BY <2>1, Zenon DEF QueueInv, LocalInv, LostInv
<1>4. CASE CalmNow
  <2>1. status[t] = "pending"
    <3>1. addPc \in {"read", "install", "dropped"}
      BY <1>1
    <3> QED BY <1>4, <3>1, Zenon DEF CalmInv
  <2>2. \A u \in InWorker' : u \in InWorker \/ (u = t /\ addPc' = "added")
    <3>1. CASE addPc' = "added"
      BY <1>2, <3>1, Zenon
    <3>2. CASE addPc' = "dropped"
      <4>1. InWorker' = InWorker
        BY <1>3, <3>2, InstallDropped, Zenon
      <4> QED BY <4>1, Zenon
    <3> QED BY <1>2, <3>1, <3>2, Zenon
  <2> QED BY <1>1, <1>2, <1>3, <2>1, <2>2, JoinCalm, Zenon
<1>5. CASE ~CalmNow
  BY <1>5, Zenon DEF CalmInv
<1> QED BY <1>4, <1>5, Zenon

\* ReadAccount, FailDropped, FailReplaced, MarkWIP and FailExpired.
LEMMA LoadCalm ==
  ASSUME QueueInv, LostInv, CalmInv, CalmNow' => CalmNow,
         ReadAccount \/ FailDropped \/ FailReplaced \/ MarkWIP \/ FailExpired
  PROVE  CalmInv'
<1>1. UNCHANGED <<found, queue, finPc, finTx, block, toProcess, toStore>>
  BY Zenon DEF ReadAccount, FailDropped, FailReplaced, MarkWIP, FailExpired, workerVars, finVars, blockVars
<1>2. InWorker' = InWorker /\ InPipeline' = InPipeline /\ Blocks' = Blocks
  BY <1>1, Zenon DEF InWorker, InPipeline, Blocks
<1>3. /\ InWorker \cup InPipeline \subseteq Txs /\ addTx \subseteq Txs /\ PoolType
      /\ \A t, u \in addTx : t = u
  BY UnderWayIs, Zenon DEF QueueInv, WorkerInv, UnderWay, Types, AddType, LocalInv
<1>4. CASE ~CalmNow
  BY <1>4, Zenon DEF CalmInv
<1>5. CASE CalmNow
  <2>1. PipesApart(block', Blocks')
    BY <1>1, <1>2, <1>5, Zenon DEF CalmInv
  <2>2. /\ \A t \in InWorker \cup InPipeline : status'[t] = status[t] /\ (Entered(t) => Entered(t)')
        /\ addPc' \in {"read", "install", "dropped"} =>
             /\ addPc \in {"read", "install", "dropped"} /\ addTx' = addTx
             /\ \A t \in addTx : status'[t] = status[t]
    <3>1. CASE ReadAccount
      <4>1. UNCHANGED <<status, wip, addTx>> /\ addPc = "read"
        BY <3>1, Zenon DEF ReadAccount, poolVars
      <4>2. addPc \in {"read", "install", "dropped"} /\ addPc \notin {"added", "mark"}
        BY <4>1
      <4> QED BY <4>1, <4>2, Zenon DEF Entered
    <3>2. CASE FailDropped
      <4>1. UpdateTxStatus(addTx, "failed") /\ addPc' = "idle" /\ addPc = "dropped"
        BY <3>2, Zenon DEF FailDropped
      <4>2. /\ addPc \in {"read", "install", "dropped"} /\ addPc \notin {"added", "mark"}
            /\ addPc' \notin {"read", "install", "dropped"}
        BY <4>1
      <4>3. addTx \cap wip = {}
        BY <4>2, Zenon DEF LostInv
      <4>4. \A t \in InWorker \cup InPipeline : t \in wip /\ t \notin addTx
        BY <1>5, <4>2, <4>3, Zenon DEF CalmInv, Entered
      <4>5. \A t \in InWorker \cup InPipeline : status'[t] = status[t] /\ t \in wip'
        BY <1>3, <4>1, <4>4, Zenon DEF UpdateTxStatus
      <4> QED BY <4>2, <4>5, Zenon DEF Entered
    <3>3. CASE FailReplaced
      <4>1. UpdateTxStatus(addRep, "failed") /\ addPc' = "mark" /\ addPc = "added" /\ addTx' = addTx
        BY <3>3, Zenon DEF FailReplaced
      <4>2. addPc' \notin {"read", "install", "dropped"}
        BY <4>1
      <4>3. addRep = {}
        BY <1>5, Zenon DEF LostInv, CalmNow
      <4>4. wip' = wip /\ \A t \in Txs : status'[t] = status[t]
        BY <4>1, <4>3, Zenon DEF UpdateTxStatus
      <4> QED BY <1>3, <4>1, <4>2, <4>4, Zenon DEF Entered
    <3>4. CASE MarkWIP
      <4>1. status' = status /\ addPc' = "idle" /\ wip' = wip \cup addTx
        BY <1>5, <3>4, Zenon DEF MarkWIP, CalmNow
      <4>2. addPc' \notin {"read", "install", "dropped"}
        BY <4>1
      <4> QED BY <4>1, <4>2, Zenon DEF Entered
    <3>5. CASE FailExpired
      <4>1. UpdateTxStatus(expired, "failed") /\ UNCHANGED <<addPc, addTx>>
        BY <3>5, Zenon DEF FailExpired, addVars
      <4>2. expired = {}
        BY <1>5, Zenon DEF CalmNow, QueueInv, LocalInv
      <4>3. wip' = wip /\ \A t \in Txs : status'[t] = status[t]
        BY <4>1, <4>2, Zenon DEF UpdateTxStatus
      <4> QED BY <1>3, <4>1, <4>3, Zenon DEF Entered
    <3> QED BY <3>1, <3>2, <3>3, <3>4, <3>5, Zenon
  <2> QED BY <1>1, <1>2, <2>1, <2>2, QuietCalm, Zenon
<1> QED BY <1>4, <1>5, Zenon

LEMMA GetBestFittingTxCalm ==
  ASSUME QueueInv, CalmInv, CalmNow' => CalmNow, GetBestFittingTx, deployment' = deployment
  PROVE  CalmInv'
<1>1. UNCHANGED <<status, wip, found, queue, addPc, addTx, block, toProcess, toStore>>
  BY Zenon DEF GetBestFittingTx, poolVars, workerVars, addVars, blockVars
<1>2. InWorker' = InWorker /\ InPipeline' = InPipeline /\ Blocks' = Blocks /\ \A t : Entered(t)' <=> Entered(t)
  BY <1>1, Zenon DEF InWorker, InPipeline, Blocks, Entered
<1>3. \A t \in finTx' : t \in InWorker
  BY GetBestFittingTxKeeps, Zenon
<1> QED BY <1>1, <1>2, <1>3, Zenon DEF CalmInv

LEMMA ProcessSuccessCalm ==
  ASSUME QueueInv, CalmInv, CalmNow' => CalmNow, ProcessSuccess
  PROVE  CalmInv'
<1>1. PICK t \in finTx : block' = Append(block, t) /\ Becomes(WorkerDeleteTx(Current, t))
  BY Zenon DEF ProcessSuccess
<1>2. finPc = "process" /\ finPc' = "update" /\ UNCHANGED <<status, wip, found, addPc, addTx, toProcess, toStore>>
  BY Zenon DEF ProcessSuccess, poolVars, addVars
<1>3. /\ t \in Txs /\ block \in Seq(Txs) /\ Types /\ Agree(queue, sorted, found)
      /\ InWorker = HeldIn(queue, found) /\ InWorker' = HeldIn(queue', found)
  BY <1>2, InWorkerIs, Zenon DEF QueueInv, Types, FinType, BlockType, WorkerInv
<1>4. Range(block') = Range(block) \cup {t}
  <2>1. Range(Append(block, t)) = Range(block) \cup {t}
    BY <1>3, RangeAppend
  <2> QED BY <1>1, <2>1, Zenon
<1>5. Blocks' = Blocks /\ \A u : Entered(u)' <=> Entered(u)
  BY <1>2, Zenon DEF Blocks, Entered
<1>6. InPipeline' = InPipeline \cup {t}
  <2>1. \A u \in InPipeline' : u \in InPipeline \cup {t}
    BY <1>2, <1>4, Zenon DEF InPipeline
  <2>2. \A u \in InPipeline \cup {t} : u \in InPipeline'
    BY <1>2, <1>4, Zenon DEF InPipeline
  <2> QED BY <2>1, <2>2, Zenon
<1> SUFFICES ASSUME CalmNow, CalmNow'
             PROVE  /\ \A u \in InWorker' \cup InPipeline' : status'[u] = "pending" /\ Entered(u)'
                    /\ InWorker' \cap InPipeline' = {}
                    /\ PipesApart(block', Blocks')
                    /\ finPc' # "process"
                    /\ addPc' \in {"read", "install", "dropped"} => \A u \in addTx' : status'[u] = "pending"
  BY Zenon DEF CalmInv
<1>7. /\ \A u \in InWorker \cup InPipeline : status[u] = "pending" /\ Entered(u)
      /\ InWorker \cap InPipeline = {}
      /\ PipesApart(block, Blocks)
      /\ t \in InWorker
      /\ addPc \in {"read", "install", "dropped"} => \A u \in addTx : status[u] = "pending"
  BY <1>2, Zenon DEF CalmInv
<1>8. AllApart(queue, found)
  BY Zenon DEF CalmNow, QueueInv, WorkerInv
<1>9. t \notin InWorker' /\ InWorker' \subseteq InWorker
  BY <1>1, <1>3, <1>8, DeleteStep, Zenon
<1>10. \A i \in 1 .. Len(Blocks) : t \notin Range(Blocks[i].txs)
  BY <1>3, <1>7, InPipelineIs, Zenon
<1>11. PipesApart(block', Blocks')
  BY <1>4, <1>5, <1>7, <1>10, Zenon DEF PipesApart
<1>12. finPc' # "process"
  BY <1>2
<1> QED BY <1>2, <1>5, <1>6, <1>7, <1>9, <1>11, <1>12, Zenon

\* The txs failed by an update of a nonce were in the worker and have left it.
LEMMA TooLowLeave ==
  ASSUME QueueInv, NEW a \in Addrs, Refreshed(a), found' = found
  PROVE  \A u \in TxsToDelete(a, im[a].nonce) : u \in InWorker /\ u \notin InWorker'
<1>1. /\ Agree(queue, sorted, found) /\ Agree(queue', sorted', found')
      /\ InWorker = HeldIn(queue, found) /\ InWorker' = HeldIn(queue', found')
      /\ queue \in [Addrs -> AddrQueue] /\ queue' \in [Addrs -> AddrQueue] /\ im \in [Addrs -> Account]
  BY InWorkerIs, Zenon DEF QueueInv, WorkerInv, Refreshed, Agree, Types, StateType
<1> TAKE u \in TxsToDelete(a, im[a].nonce)
<1>2. a \in found /\ u \in queue[a].notReadyTxs /\ Nonce[u] < im[a].nonce
  BY Zenon DEF TxsToDelete, TooLow
<1>3. u \in InWorker
  BY <1>2, Zenon DEF InWorker
<1>4. u \in Txs /\ From[u] = a
  <2>1. From[u] = a
    BY <1>1, <1>2, Zenon DEF Agree, Consistent
  <2> QED BY <1>1, <1>3, <2>1, HeldInIs, Zenon
<1>5. ASSUME u \in InWorker' PROVE FALSE
  <2>1. u \in Held(queue'[a])
    BY <1>1, <1>4, <1>5, HeldInNext, Zenon
  <2>2. Consistent(queue'[a], a) /\ queue'[a].nonce = im[a].nonce
    BY <1>1, <1>2, Zenon DEF Agree, Refreshed
  <2>3. Nonce[u] = im[a].nonce \/ Nonce[u] >= im[a].nonce
    BY <2>1, <2>2, Zenon DEF Consistent, Held
  <2>4. Nonce[u] \in Nat /\ im[a].nonce \in Nat
    BY <1>1, <1>4, Prices, AccountNat, Zenon
  <2> QED BY <1>2, <2>3, <2>4
<1> QED BY <1>3, <1>5, Zenon

LEMMA UpdateCalm ==
  ASSUME QueueInv, LostInv, CalmInv, CalmNow' => CalmNow, UpdateAfterSuccess \/ ProcessIntrinsicError
  PROVE  CalmInv'
<1>1. PICK t \in finTx : /\ From[t] \in Addrs /\ Refreshed(From[t])
                         /\ UpdateTxStatus(TxsToDelete(From[t], im[From[t]].nonce), "failed")
  BY RefreshSteps, Zenon
<1>2. finPc' = "idle" /\ UNCHANGED <<found, addPc, addTx, block, toProcess, toStore>>
  BY RefreshSteps, Zenon
<1> DEFINE T == TxsToDelete(From[t], im[From[t]].nonce)
<1>3. \A u \in T : u \in InWorker /\ u \notin InWorker'
  BY <1>1, <1>2, TooLowLeave, Zenon
<1>4. UpdateTxStatus(T, "failed")
  BY <1>1, Zenon
<1> HIDE DEF T
<1>5. /\ InWorker \cup InPipeline \subseteq Txs /\ addTx \subseteq Txs
  BY UnderWayIs, Zenon DEF QueueInv, WorkerInv, UnderWay
<1>6. InWorker' \subseteq InWorker /\ InPipeline' = InPipeline /\ Blocks' = Blocks
  BY <1>1, <1>2, InWorkerIs, Zenon DEF Refreshed, InPipeline, Blocks
<1>7. CASE ~CalmNow
  BY <1>7, Zenon DEF CalmInv
<1>8. CASE CalmNow
  <2>1. /\ \A u \in InWorker \cup InPipeline : Entered(u)
        /\ InWorker \cap InPipeline = {} /\ PipesApart(block, Blocks)
    BY <1>8, Zenon DEF CalmInv
  <2>2. \A u \in InWorker' \cup InPipeline' : u \notin T
    BY <1>3, <1>6, <2>1, Zenon
  <2>3. \A u \in InWorker' \cup InPipeline' : status'[u] = status[u] /\ (Entered(u) => Entered(u)')
    BY <1>2, <1>4, <1>5, <1>6, <2>2, Zenon DEF UpdateTxStatus, Entered
  <2>4. PipesApart(block', Blocks')
    BY <1>2, <1>6, <2>1, Zenon
  <2>5. finPc' # "process"
    BY <1>2
  <2>6. ASSUME addPc' \in {"read", "install", "dropped"}
        PROVE  /\ addPc \in {"read", "install", "dropped"} /\ addTx' = addTx
               /\ \A u \in addTx : status'[u] = status[u]
    <3>1. addPc \in {"read", "install", "dropped"}
      BY <1>2, <2>6, Zenon
    <3>2. addPc \notin {"added", "mark"}
      BY <3>1
    <3>3. \A u \in addTx : u \notin T
      BY <1>3, <2>1, <2>6, <3>1, <3>2, Zenon DEF Entered, LostInv
    <3> QED BY <1>2, <1>4, <1>5, <3>1, <3>3, Zenon DEF UpdateTxStatus
  <2> QED BY <1>6, <2>3, <2>4, <2>5, <2>6, QuietCalm, Zenon
<1> QED BY <1>7, <1>8, Zenon

LEMMA PipelineCalm ==
  ASSUME QueueInv, QueueInv', CalmInv, CalmNow' => CalmNow, CloseL2Block \/ ProcessL2Block \/ StoreL2Block
  PROVE  CalmInv'
<1>1. UNCHANGED <<status, wip, found, addPc, addTx, finPc, finTx>>
  BY Zenon DEF CloseL2Block, ProcessL2Block, StoreL2Block, poolVars, workerVars, addVars, finVars
<1>2. Types /\ Agree(queue, sorted, found)
  BY Zenon DEF QueueInv, WorkerInv
<1>3. InPipeline' = InPipeline
  <2>1. CASE CloseL2Block
    BY <1>2, <2>1, CloseIs, Zenon
  <2>2. CASE ProcessL2Block
    BY <1>2, <2>2, ProcessIs, Zenon
  <2>3. CASE StoreL2Block
    BY <2>3, Zenon DEF StoreL2Block, InPipeline
  <2> QED BY <2>1, <2>2, <2>3, Zenon
<1>4. InWorker' = InWorker
  <2>1. CASE CloseL2Block \/ StoreL2Block
    BY <2>1, Zenon DEF CloseL2Block, StoreL2Block, workerVars, InWorker
  <2>2. CASE ProcessL2Block
    <3>1. queue' = WithPending(Range(Head(toProcess).txs), {}) /\ Range(Head(toProcess).txs) \in SUBSET Txs
      BY <1>2, <2>2, ProcessIs, Zenon DEF ProcessL2Block
    <3> QED BY <1>1, <1>2, <3>1, PendingIs, InWorkerIs, Zenon
  <2> QED BY <2>1, <2>2, Zenon
<1>5. PipesApart(block, Blocks) => PipesApart(block', Blocks')
  <2>1. CASE CloseL2Block
    <3> DEFINE e == [txs |-> block, root |-> im]
    <3>1. e \in L2Block /\ Blocks' = Append(Blocks, e) /\ Blocks \in Seq(L2Block)
      BY <1>2, <2>1, CloseIs, Zenon
    <3>2. block' = <<>> /\ e.txs = block
      BY <2>1 DEF CloseL2Block
    <3> HIDE DEF e
    <3> QED BY <3>1, <3>2, ApartClose, Zenon
  <2>2. CASE ProcessL2Block
    <3>1. Blocks' = Blocks /\ block' = block
      BY <1>2, <2>2, ProcessIs, Zenon DEF ProcessL2Block
    <3> QED BY <3>1, Zenon
  <2>3. CASE StoreL2Block
    <3>1. Blocks' = Blocks /\ block' = block
      BY <2>3, Zenon DEF StoreL2Block, Blocks
    <3> QED BY <3>1, Zenon
  <2> QED BY <2>1, <2>2, <2>3, Zenon
<1>6. CalmNow => PipesApart(block', Blocks')
  BY <1>5, Zenon DEF CalmInv
<1>7. \A t : Entered(t)' <=> Entered(t)
  BY <1>1, Zenon DEF Entered
<1> QED BY <1>1, <1>3, <1>4, <1>6, <1>7, QuietCalm, Zenon

LEMMA SelectTxsCalm ==
  ASSUME QueueInv, QueueInv', CalmInv, CalmNow' => CalmNow, LostInv, SelectTxs
  PROVE  CalmInv'
<1> DEFINE T == Range(Head(toStore).txs)
<1>1. /\ UNCHANGED <<found, addPc, addTx, finPc, finTx, block>> /\ toStore # <<>>
      /\ UpdateTxStatus(T, "selected") /\ queue' = WithPending({}, T) /\ {} \in SUBSET Txs
  BY Zenon DEF SelectTxs, addVars, finVars, QueueInv, LocalInv
<1>2. Types /\ Types' /\ Agree(queue, sorted, found) /\ addTx \subseteq Txs /\ InWorker \cup InPipeline \subseteq Txs
  BY UnderWayIs, Zenon DEF QueueInv, WorkerInv, UnderWay
<1>3. /\ T = Range(Blocks[1].txs) /\ T \subseteq InPipeline /\ InPipeline' \subseteq InPipeline
      /\ Blocks \in Seq(L2Block) /\ Blocks' \in Seq(L2Block)
      /\ Len(Blocks) \in Nat \ {0} /\ Len(Blocks') = Len(Blocks) - 1
      /\ \A i \in 1 .. Len(Blocks) - 1 : Blocks'[i] = Blocks[i + 1]
  BY <1>1, <1>2, SelectIs, Zenon
<1>4. InWorker' = InWorker
  BY <1>1, <1>2, PendingIs, InWorkerIs, Zenon
<1> HIDE DEF T
<1>5. CASE ~CalmNow
  BY <1>5, Zenon DEF CalmInv
<1>6. CASE CalmNow
  <2>1. /\ \A u \in InWorker \cup InPipeline : Entered(u)
        /\ InWorker \cap InPipeline = {} /\ PipesApart(block, Blocks)
    BY <1>6, Zenon DEF CalmInv
  <2>2. /\ PipesApart(block, Blocks')
        /\ \A t \in T : t \notin Range(block) /\ \A i \in 1 .. Len(Blocks') : t \notin Range(Blocks'[i].txs)
    BY <1>3, <2>1, ApartDrop, Zenon
  <2>3. \A t \in InPipeline' : t \notin T
    BY <1>1, <1>2, <2>2, InPipelineNext, Zenon
  <2>4. \A u \in InWorker' \cup InPipeline' : u \notin T
    BY <1>3, <1>4, <2>1, <2>3, Zenon
  <2>5. \A u \in InWorker' \cup InPipeline' : status'[u] = status[u] /\ (Entered(u) => Entered(u)')
    BY <1>1, <1>2, <1>3, <1>4, <2>4, Zenon DEF UpdateTxStatus, Entered
  <2>6. ASSUME addPc' \in {"read", "install", "dropped"}
        PROVE  /\ addPc \in {"read", "install", "dropped"} /\ addTx' = addTx
               /\ \A u \in addTx : status'[u] = status[u]
    <3>1. addPc \in {"read", "install", "dropped"}
      BY <1>1, <2>6, Zenon
    <3>2. addPc \notin {"added", "mark"}
      BY <3>1
    <3>3. \A u \in addTx : u \notin T
      BY <1>3, <2>1, <3>1, <3>2, Zenon DEF Entered, LostInv
    <3> QED BY <1>1, <1>2, <3>1, <3>3, Zenon DEF UpdateTxStatus
  <2> QED BY <1>1, <1>3, <1>4, <2>2, <2>5, <2>6, QuietCalm, Zenon
<1> QED BY <1>5, <1>6, Zenon

LEMMA RestartCalm ==
  ASSUME QueueInv, QueueInv', Restart
  PROVE  CalmInv'
<1>1. /\ found' = {} /\ block' = <<>> /\ toProcess' = <<>> /\ toStore' = <<>>
      /\ finPc' = "idle" /\ finTx' = {} /\ addTx' = {}
      /\ queue' = [a \in Addrs |-> NewAddrQueue([nonce |-> 0, balance |-> 0])]
  BY Zenon DEF Restart
<1>2. InWorker' = {} /\ InPipeline' = {}
  BY <1>1, EmptyWorker, EmptyPipeline, InWorkerIs, Zenon DEF InPipeline
<1>3. PipesApart(block', Blocks')
  <2>1. <<>> \o <<>> = <<>> /\ Len(<<>>) = 0 /\ 1 .. 0 = {}
    OBVIOUS
  <2> QED BY <1>1, <2>1, Zenon DEF Blocks, PipesApart
<1> QED BY <1>1, <1>2, <1>3, Zenon DEF CalmInv

LEMMA CalmPreserved == QueueInv /\ QueueInv' /\ LostInv /\ CalmInv /\ [Next]_vars => CalmInv'
<1> SUFFICES ASSUME QueueInv, QueueInv', LostInv, CalmInv, [Next]_vars
             PROVE  CalmInv'
  OBVIOUS
<1>1. CASE Next
  <2>1. deployment' = deployment /\ \A t \in deployment.txs : t \in Txs
    BY <1>1, Steps, Constants, Zenon DEF QueueInv, Types, BoundType
  <2>2. CalmNow' => CalmNow
    BY <1>1, CalmBack, Zenon
  <2>3. CASE \/ \E t \in deployment.txs : SubmitTx(t)
             \/ \E t \in Txs : AddTxTracker(t)
    BY <2>1, <2>2, <2>3, SubmitTxCalm, AddTxTrackerCalm, Zenon
  <2>4. CASE ReadAccount \/ InstallQueue \/ FailDropped \/ FailReplaced \/ MarkWIP \/ FailExpired
    BY <2>2, <2>4, LoadCalm, InstallQueueCalm, Zenon
  <2>5. CASE GetBestFittingTx \/ ProcessSuccess \/ UpdateAfterSuccess \/ ProcessIntrinsicError
    BY <2>1, <2>2, <2>5, GetBestFittingTxCalm, ProcessSuccessCalm, UpdateCalm, Zenon
  <2>6. CASE ProcessOtherError \/ ProcessAgain
    <3>1. ExecErrors'
      BY <2>1, <2>6, Zenon DEF ProcessOtherError, ProcessAgain, ExecErrors
    <3> QED BY <3>1, Zenon DEF CalmInv, CalmNow
  <2>7. CASE CloseL2Block \/ ProcessL2Block \/ StoreL2Block \/ SelectTxs
    BY <2>2, <2>7, PipelineCalm, SelectTxsCalm, Zenon
  <2>8. CASE ExpireTransactions
    <3>1. expiries' = expiries + 1 /\ expiries \in 0 .. MaxExpiries /\ MaxExpiries \in Nat
      BY <2>8, Constants, Zenon DEF ExpireTransactions, QueueInv, Types, BoundType, MaxExpiries
    <3>2. expiries' # 0
      BY <3>1
    <3> QED BY <3>2, Zenon DEF CalmInv, CalmNow
  <2>9. CASE Restart
    BY <2>9, RestartCalm, Zenon
  <2> QED BY <1>1, <2>3, <2>4, <2>5, <2>6, <2>7, <2>8, <2>9, Steps, Zenon
<1>2. CASE UNCHANGED vars
  <2>1. UNCHANGED <<deployment, status, wip, found, queue, addPc, addTx, finPc, finTx, block, toProcess, toStore, expiries>>
    BY <1>2, Zenon DEF vars, sequencerVars, poolVars, workerVars, dbVars, addVars, finVars, blockVars, boundVars
  <2>2. InWorker' = InWorker /\ InPipeline' = InPipeline /\ Blocks' = Blocks
    BY <2>1, Zenon DEF InWorker, InPipeline, Blocks
  <2> QED BY <2>1, <2>2, Zenon DEF CalmInv, CalmNow, OneTxPerNonce, ExecErrors, Entered
<1> QED BY <1>1, <1>2, Zenon

LEMMA CalmInitially == Init => CalmInv
<1> SUFFICES ASSUME Init
             PROVE  CalmInv
  OBVIOUS
<1>1. /\ found = {} /\ block = <<>> /\ toProcess = <<>> /\ toStore = <<>>
      /\ finTx = {} /\ addTx = {}
      /\ queue = [a \in Addrs |-> NewAddrQueue([nonce |-> 0, balance |-> 0])]
  BY Zenon DEF Init
<1>2. InWorker = {} /\ InPipeline = {}
  BY <1>1, EmptyWorker, EmptyPipeline, InWorkerIs, Zenon DEF InPipeline
<1>3. PipesApart(block, Blocks)
  <2>1. <<>> \o <<>> = <<>> /\ Len(<<>>) = 0 /\ 1 .. 0 = {}
    OBVIOUS
  <2> QED BY <1>1, <2>1, Zenon DEF Blocks, PipesApart
<1> QED BY <1>1, <1>2, <1>3, Zenon DEF CalmInv

LEMMA CalmHolds == Spec => []CalmInv
<1>1. Init /\ [][Next]_vars /\ []QueueInv /\ []LostInv => []CalmInv
  BY CalmInitially, CalmPreserved, PTL
<1> QED BY <1>1, QueueHolds, LostHolds, PTL DEF Spec

\* No step takes the status selected back.
SelectedStays ==
  expiries = 0 /\ OneTxPerNonce /\ ~ExecErrors =>
    \A t \in Txs : status[t] = "selected" => status'[t] = "selected"

LEMMA SelectedStep == QueueInv /\ LostInv /\ CalmInv /\ Next => SelectedStays
<1> SUFFICES ASSUME QueueInv, LostInv, CalmInv, Next, CalmNow, NEW t \in Txs, status[t] = "selected"
             PROVE  status'[t] = "selected"
  BY Zenon DEF SelectedStays, CalmNow
<1>0. "selected" # "pending" /\ "selected" # "none"
  OBVIOUS
<1>1. ASSUME NEW T, UpdateTxStatus(T, "failed"), t \notin T
      PROVE  status'[t] = "selected"
  BY <1>1, Zenon DEF UpdateTxStatus
<1>2. CASE \E u \in deployment.txs : SubmitTx(u)
  <2>1. status \in [Txs -> Status] /\ \A u \in deployment.txs : u \in Txs
    BY Constants, Zenon DEF QueueInv, Types, PoolType, BoundType
  <2> QED BY <1>0, <1>2, <2>1, Zenon DEF SubmitTx
<1>3. CASE \/ (\E u \in Txs : AddTxTracker(u)) \/ ReadAccount \/ InstallQueue \/ MarkWIP
           \/ GetBestFittingTx \/ ProcessSuccess \/ ProcessAgain
           \/ CloseL2Block \/ ProcessL2Block \/ StoreL2Block \/ ExpireTransactions \/ Restart
  BY <1>3, Zenon DEF AddTxTracker, ReadAccount, InstallQueue, MarkWIP, GetBestFittingTx, ProcessSuccess,
     ProcessAgain, CloseL2Block, ProcessL2Block, StoreL2Block, ExpireTransactions, Restart, poolVars
<1>4. CASE FailDropped
  <2>1. addPc \in {"read", "install", "dropped"} /\ UpdateTxStatus(addTx, "failed")
    BY <1>4, Zenon DEF FailDropped
  <2>2. t \notin addTx
    BY <1>0, <2>1, Zenon DEF CalmInv
  <2> QED BY <1>1, <2>1, <2>2, Zenon
<1>5. CASE FailReplaced
  <2>1. addRep = {} /\ UpdateTxStatus(addRep, "failed")
    BY <1>5, Zenon DEF FailReplaced, LostInv, CalmNow
  <2> QED BY <1>1, <2>1, Zenon
<1>6. CASE FailExpired
  <2>1. expired = {} /\ UpdateTxStatus(expired, "failed")
    BY <1>6, Zenon DEF FailExpired, QueueInv, LocalInv, CalmNow
  <2> QED BY <1>1, <2>1, Zenon
<1>7. CASE UpdateAfterSuccess \/ ProcessIntrinsicError
  <2>1. PICK u \in finTx : /\ From[u] \in Addrs /\ Refreshed(From[u])
                           /\ UpdateTxStatus(TxsToDelete(From[u], im[From[u]].nonce), "failed")
    BY <1>7, RefreshSteps, Zenon
  <2>2. found' = found
    BY <1>7, RefreshSteps, Zenon
  <2>3. \A v \in TxsToDelete(From[u], im[From[u]].nonce) : v \in InWorker
    BY <2>1, <2>2, TooLowLeave, Zenon
  <2>4. t \notin InWorker
    BY <1>0, Zenon DEF CalmInv
  <2> QED BY <1>1, <2>1, <2>3, <2>4, Zenon
<1>8. CASE ProcessOtherError
  BY <1>8, Zenon DEF ProcessOtherError, CalmNow
<1>9. CASE SelectTxs
  BY <1>9, Zenon DEF SelectTxs, UpdateTxStatus
<1> QED BY <1>2, <1>3, <1>4, <1>5, <1>6, <1>7, <1>8, <1>9, Steps, Zenon

\* The status selected is final, restarts included, while no queue was dropped, no
\* two txs of a sender have one nonce and no call fails: a tx is in one queue or one
\* L2 block at a time, so that no write of failed meets one that is stored.
THEOREM SelectedRemains == Spec => SelectedIsFinal
<1>1. QueueInv /\ LostInv /\ CalmInv /\ [Next]_vars => [SelectedStays]_vars
  BY SelectedStep, Zenon
<1>2. []QueueInv /\ []LostInv /\ []CalmInv /\ [][Next]_vars => [][SelectedStays]_vars
  BY <1>1, PTL
<1>3. Spec => [][SelectedStays]_vars
  BY <1>2, QueueHolds, LostHolds, CalmHolds, PTL DEF Spec
<1> QED BY <1>3, Zenon DEF SelectedIsFinal, SelectedStays
=============================================================================
