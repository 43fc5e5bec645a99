------------------------------- MODULE Worker -------------------------------
(***************************************************************************)
(* The sequencer's worker: one addrQueue per sender, the list of ready     *)
(* transactions sorted by gas price, and the four goroutines that use them *)
(* under workerMutex: loadFromPool (adds pool transactions), the finalizer *)
(* (picks, executes and removes them), the L2 block pipeline (processes    *)
(* and stores the blocks they end in) and the expiry loop.                 *)
(*                                                                         *)
(* One action is one critical section of workerMutex, one SQL statement or *)
(* one executor call.  The executor and the state database are external:  *)
(* what they hold is the nonce and balance of every account, im for the    *)
(* root the finalizer executes on and stored for the last root in the      *)
(* database.                                                               *)
(***************************************************************************)
EXTENDS Naturals, Sequences, FiniteSets, FiniteSetsExt, Functions

CONSTANTS
  Addrs,        \* the sender accounts
  Txs,          \* the transactions users may submit
  From, To,     \* sender and receiver of a transaction: [Txs -> Addrs]
  Nonce,        \* [Txs -> Nat]
  GasPrice,     \* [Txs -> Nat], what the worker compares
  Fee,          \* [Txs -> Nat], gas price times gas limit: what the pool compares
  Cost, Value,  \* [Txs -> Nat], Value is the part of Cost that To receives
  Funds,        \* [Addrs -> Nat], the balances at the start
  Deployments   \* what a sequencer may meet (see below)

\* txs: the transactions that are submitted; overLimit: those that exceed the
\* batch constraints; execErrors: may executor calls fail; expiries, crashes:
\* bounds on the runs of the expiry loop and on the restarts.
ASSUME ConstantsAssumption ==
  /\ {From, To} \subseteq [Txs -> Addrs]
  /\ {Nonce, GasPrice, Fee, Cost, Value} \subseteq [Txs -> Nat]
  /\ \A t \in Txs : Value[t] <= Cost[t]
  /\ Funds \in [Addrs -> Nat]
  /\ \A d \in Deployments :
       /\ {d.txs, d.overLimit} \subseteq SUBSET Txs /\ d.execErrors \in BOOLEAN
       /\ {d.expiries, d.crashes} \subseteq Nat

VARIABLES
  deployment,  \* the one of Deployments this sequencer is in
  status,   \* pool.transaction.status, "none" before the user submits
  wip,      \* the transactions with pool.transaction.is_wip
  found,    \* the keys of worker.pool
  queue,    \* worker.pool: the addrQueue of every key
  sorted,   \* txSortedList.sorted
  im,       \* accounts at wipBatch.imStateRoot
  stored,   \* accounts at the state root of the last stored L2 block
  txTable,  \* the transactions of the stored L2 blocks (state.transaction)
  addPc, addTx, addAcc, addRep,  \* loadFromPool: program counter and locals
  finPc, finTx,                  \* finalizeBatches: program counter, picked tx
  block,      \* wipL2Block.transactions
  toProcess,  \* pendingL2BlocksToProcess
  toStore,    \* pendingL2BlocksToStore
  storePc,    \* storePendingL2Blocks: "idle", or "commit" once dbTx is committed
  expired,    \* txs ExpireTransactions returned, not yet failed in the pool
  expiries, crashes

poolVars == <<status, wip>>
dbVars == <<stored, txTable>>
workerVars == <<found, queue, sorted>>
addVars == <<addPc, addTx, addAcc, addRep>>
finVars == <<finPc, finTx>>
blockVars == <<block, toProcess, toStore, storePc>>
boundVars == <<expired, expiries, crashes>>
sequencerVars == <<poolVars, workerVars, im, dbVars, addVars, finVars,
                   blockVars, boundVars>>
vars == <<deployment, sequencerVars>>

OverLimit == deployment.overLimit
ExecErrors == deployment.execErrors
MaxExpiries == deployment.expiries
MaxCrashes == deployment.crashes

Status == {"none", "pending", "selected", "failed", "invalid"}
Account == [nonce : Nat, balance : Nat]
AddrQueue ==
  [nonce : Nat, balance : Nat, readyTx : SUBSET Txs,
   notReadyTxs : SUBSET Txs, pendingTxsToStore : SUBSET Txs]
L2Block == [txs : Seq(Txs), root : [Addrs -> Account]]

\* Mutant: the queue starts one nonce too high.
NewAddrQueueHigh(acc) ==
  [nonce |-> acc.nonce + 1, balance |-> acc.balance, readyTx |-> {},
   notReadyTxs |-> {}, pendingTxsToStore |-> {}]

NewAddrQueue(acc) ==
  [nonce |-> acc.nonce, balance |-> acc.balance, readyTx |-> {},
   notReadyTxs |-> {}, pendingTxsToStore |-> {}]

-----------------------------------------------------------------------------
(* addrQueue *)

SameNonce(q, t) == {u \in q.notReadyTxs : Nonce[u] = Nonce[t]}

\* The transactions a new one with t's nonce competes with.
Rivals(q, t) == IF Nonce[t] = q.nonce THEN q.readyTx ELSE SameNonce(q, t)

AddTxDropped(q, t) ==
  \/ Nonce[t] < q.nonce
  \/ \E u \in Rivals(q, t) : GasPrice[t] < GasPrice[u]

\* Mutant: the balance is not compared with the cost.
AddTxNoBalance(q, t) ==
  IF Nonce[t] = q.nonce
    THEN [q EXCEPT !.readyTx = {t}]
    ELSE [q EXCEPT !.notReadyTxs = (@ \ SameNonce(q, t)) \cup {t}]

\* addTx, for a tx that is not dropped; with too little balance for the
\* current nonce the tx takes the place of whatever notReadyTxs has there.
AddTx(q, t) ==
  IF Nonce[t] = q.nonce /\ Cost[t] <= q.balance
    THEN [q EXCEPT !.readyTx = {t}]
    ELSE [q EXCEPT !.readyTx = IF Nonce[t] = q.nonce THEN {} ELSE @,
                   !.notReadyTxs = (@ \ SameNonce(q, t)) \cup {t}]

\* The replacedTx that addTx returns.
Replaced(q, t) == Rivals(q, t) \ {t}

DeleteTx(q, t) ==
  IF t \in q.readyTx
    THEN [q EXCEPT !.readyTx = {}]
    ELSE [q EXCEPT !.notReadyTxs = @ \ {t}]

\* The txsToDelete of updateCurrentNonceBalance.
TooLow(q, nonce) == {t \in q.notReadyTxs : nonce # q.nonce /\ Nonce[t] < nonce}

\* Mutants: the nonce is not stored; no other tx becomes ready.
UpdateBalanceOnly(q, nonce, balance) == [q EXCEPT !.balance = balance]

\* updateCurrentNonceBalance: the ready tx that no longer matches is put back
\* with the others only when its nonce is above the current one.
UpdateNonceBalance(q, nonce, balance) ==
  LET rest == q.notReadyTxs \ TooLow(q, nonce)
      old  == {t \in q.readyTx : Nonce[t] # nonce \/ balance < Cost[t]}
      next == {t \in rest : /\ q.readyTx \subseteq old
                            /\ Nonce[t] = nonce /\ Cost[t] <= balance}
      back == {t \in old : Nonce[t] > nonce}
  IN [q EXCEPT !.nonce = nonce, !.balance = balance,
               !.readyTx = (q.readyTx \ old) \cup next,
               !.notReadyTxs =
                 {t \in rest \ next : \A b \in back : Nonce[t] # Nonce[b]} \cup back]

\* Mutant: a queue without a ready tx is taken for empty.
IsEmptyNotReady(q) == q.readyTx = {} /\ q.pendingTxsToStore = {}

IsEmpty(q) ==
  q.readyTx = {} /\ q.notReadyTxs = {} /\ q.pendingTxsToStore = {}

-----------------------------------------------------------------------------
(* txSortedList *)

\* add: behind every tx of the same or a higher price; a no-op if present.
ListAdd(s, t) ==
  LET lower == {i \in 1..Len(s) : GasPrice[t] > GasPrice[s[i]]}
      at == IF lower = {} THEN Len(s) + 1 ELSE Min(lower)
  IN IF \E i \in 1..Len(s) : s[i] = t THEN s ELSE SubSeq(s, 1, at - 1) \o <<t>> \o SubSeq(s, at, Len(s))

\* Mutant: the search gives up at the first tx of the same price.
ListDeleteFirst(s, t) ==
  LET at == {i \in 1..Len(s) : s[i] = t /\ \A j \in 1..i-1 : GasPrice[s[j]] > GasPrice[t]}
  IN IF at = {} THEN s ELSE SubSeq(s, 1, Min(at) - 1) \o SubSeq(s, Min(at) + 1, Len(s))

\* delete: the search starts at the first tx whose price is not above t's and
\* gives up at the first one whose price differs.
ListDelete(s, t) ==
  LET at == {i \in 1..Len(s) : s[i] = t /\ \A j \in 1..i-1 : GasPrice[s[j]] >= GasPrice[t]}
  IN IF at = {} THEN s ELSE SubSeq(s, 1, Min(at) - 1) \o SubSeq(s, Min(at) + 1, Len(s))

\* worker.pool[a] goes to r in the worker w; prev leaves the list and the ready
\* tx of r enters it.
SetQueue(w, a, r, prev) ==
  LET cut == IF prev = {} THEN w.sorted ELSE ListDelete(w.sorted, CHOOSE t \in prev : TRUE)
  IN [queue |-> [w.queue EXCEPT ![a] = r],
      sorted |-> IF r.readyTx = {} THEN cut
                 ELSE ListAdd(cut, CHOOSE t \in r.readyTx : TRUE)]

\* The worker, and what a critical section of workerMutex makes of it.
Current == [queue |-> queue, sorted |-> sorted]
Becomes(w) == queue' = w.queue /\ sorted' = w.sorted

-----------------------------------------------------------------------------
(* pool *)

\* pool.AddTx: validateTx against the last stored L2 block and the rows with
\* the same sender and nonce.
SubmitTx(t) ==
  /\ status[t] = "none"
  /\ Nonce[t] >= stored[From[t]].nonce
  /\ Cost[t] <= stored[From[t]].balance
  /\ \A u \in Txs : /\ status[u] \in {"pending", "selected"}
                    /\ From[u] = From[t] /\ Nonce[u] = Nonce[t]
                    => Fee[u] <= Fee[t]
  /\ status' = [status EXCEPT ![t] = "pending"]
  /\ UNCHANGED <<wip, workerVars, im, dbVars, addVars, finVars, blockVars, boundVars>>

\* UpdateTxStatus for every tx of T; it clears is_wip.
UpdateTxStatus(T, s) ==
  /\ status' = [t \in Txs |-> IF t \in T THEN s ELSE status[t]]
  /\ wip' = wip \ T

-----------------------------------------------------------------------------
(* loadFromPool and addTxToWorker *)

\* AddTxTracker's last part: the tx enters r, the queue of its sender.
Enqueue(t, r) ==
  IF AddTxDropped(r, t)
    THEN /\ queue' = [queue EXCEPT ![From[t]] = r]
         /\ addPc' = "dropped"
         /\ UNCHANGED <<sorted, addRep>>
    ELSE /\ Becomes(SetQueue(Current, From[t], AddTx(r, t),
                             IF Nonce[t] = r.nonce THEN r.readyTx ELSE {}))
         /\ addPc' = "added"
         /\ addRep' = Replaced(r, t)

\* Mutant: the status is not compared.
LoadableAny(t) == status[t] # "none" /\ t \notin wip

\* GetNonWIPPendingTxs.
Loadable(t) == status[t] = "pending" /\ t \notin wip

\* AddTxTracker of a pending tx: dropped over the limits, added to the queue of
\* its sender, or, without one, the mutex is released to read the state.
AddTxTracker(t) ==
  /\ addPc = "idle" /\ Loadable(t)
  /\ addTx' = {t}
  /\ \/ /\ t \in OverLimit
        /\ addPc' = "dropped"
        /\ UNCHANGED <<workerVars, addRep>>
     \/ /\ t \notin OverLimit /\ From[t] \in found
        /\ Enqueue(t, queue[From[t]])
        /\ UNCHANGED found
     \/ /\ t \notin OverLimit /\ From[t] \notin found
        /\ addPc' = "read"
        /\ UNCHANGED <<workerVars, addRep>>
  /\ UNCHANGED <<poolVars, im, dbVars, addAcc, finVars, blockVars, boundVars>>

\* GetLastStateRoot, GetNonceByStateRoot, GetBalanceByStateRoot.
ReadAccount ==
  /\ addPc = "read"
  /\ \/ \E t \in addTx : addAcc' = stored[From[t]] /\ addPc' = "install"
     \/ ExecErrors /\ addPc' = "dropped" /\ UNCHANGED addAcc
  /\ UNCHANGED <<poolVars, workerVars, im, dbVars, addTx, addRep, finVars, blockVars, boundVars>>

\* The mutex is taken again and the new queue put in worker.pool.
InstallQueue ==
  /\ addPc = "install"
  /\ \E t \in addTx : /\ found' = found \cup {From[t]}
                      /\ Enqueue(t, NewAddrQueue(addAcc))
  /\ UNCHANGED <<poolVars, im, dbVars, addTx, addAcc, finVars, blockVars, boundVars>>

\* A dropped tx fails in the pool.
FailDropped ==
  /\ addPc = "dropped"
  /\ UpdateTxStatus(addTx, "failed")
  /\ addPc' = "idle" /\ addTx' = {}
  /\ UNCHANGED <<workerVars, im, dbVars, addAcc, addRep, finVars, blockVars, boundVars>>

\* The replaced tx fails in the pool, then the added one becomes WIP.
FailReplaced ==
  /\ addPc = "added"
  /\ UpdateTxStatus(addRep, "failed")
  /\ addPc' = "mark" /\ addRep' = {}
  /\ UNCHANGED <<workerVars, im, dbVars, addTx, addAcc, finVars, blockVars, boundVars>>

MarkWIP ==
  /\ addPc = "mark"
  /\ wip' \in {wip \cup addTx} \cup (IF ExecErrors THEN {wip} ELSE {})
  /\ addPc' = "idle" /\ addTx' = {}
  /\ UNCHANGED <<status, workerVars, im, dbVars, addAcc, addRep, finVars, blockVars, boundVars>>

-----------------------------------------------------------------------------
(* finalizer *)

\* GetBestFittingTx: any tx of the list may be the first that fits.
GetBestFittingTx ==
  /\ finPc = "idle"
  /\ \E i \in 1..Len(sorted) : finTx' = {sorted[i]}
  /\ finPc' = "process"
  /\ UNCHANGED <<poolVars, workerVars, im, dbVars, addVars, blockVars, boundVars>>

Executable(t) ==
  Nonce[t] = im[From[t]].nonce /\ Cost[t] <= im[From[t]].balance

\* The accounts after t is executed.
Executed(acc, t) ==
  LET paid == [acc EXCEPT ![From[t]] = [nonce |-> @.nonce + 1, balance |-> @.balance - Cost[t]]]
  IN [paid EXCEPT ![To[t]].balance = @ + Value[t]]

\* Mutant: the tx leaves its queue and stays in the list.
WorkerDeleteTxQueueOnly(w, t) ==
  IF From[t] \in found THEN [w EXCEPT !.queue[From[t]] = DeleteTx(@, t)] ELSE w

\* Worker.DeleteTx.
WorkerDeleteTx(w, t) ==
  IF From[t] \in found
    THEN LET q == w.queue[From[t]]
         IN SetQueue(w, From[t], DeleteTx(q, t), q.readyTx \cap {t})
    ELSE w

ApplyAddressUpdate(w, a, nonce, balance) ==
  IF a \in found
    THEN LET r == UpdateNonceBalance(w.queue[a], nonce, balance)
         IN SetQueue(w, a, r, w.queue[a].readyTx \ r.readyTx)
    ELSE w

\* The txsToDelete of applyAddressUpdate.
TxsToDelete(a, nonce) == IF a \in found THEN TooLow(queue[a], nonce) ELSE {}

\* processTransaction succeeds: the tx joins the L2 block and leaves the worker.
ProcessSuccess ==
  /\ finPc = "process"
  /\ \E t \in finTx :
       /\ Executable(t)
       /\ im' = Executed(im, t)
       /\ block' = Append(block, t)
       /\ Becomes(WorkerDeleteTx(Current, t))
  /\ finPc' = "update"
  /\ UNCHANGED <<poolVars, found, dbVars, addVars, finTx, toProcess, toStore, storePc, boundVars>>

\* UpdateAfterSingleSuccessfulTxExecution: the sender's nonce and balance, then
\* the balance of the other account touched.
UpdateAfterSuccess ==
  /\ finPc = "update"
  /\ \E t \in finTx :
       LET a == From[t]
           b == To[t]
           w == ApplyAddressUpdate(Current, a, im[a].nonce, im[a].balance)
       IN /\ Becomes(IF a = b THEN w
                     ELSE ApplyAddressUpdate(w, b, w.queue[b].nonce, im[b].balance))
          /\ UpdateTxStatus(TxsToDelete(a, im[a].nonce), "failed")
  /\ finPc' = "idle" /\ finTx' = {}
  /\ UNCHANGED <<found, im, dbVars, addVars, blockVars, boundVars>>

\* The executor reports a wrong nonce or too little balance: MoveTxToNotReady
\* with the values the executor has.
ProcessIntrinsicError ==
  /\ finPc = "process"
  /\ \E t \in finTx :
       LET a == From[t]
       IN /\ ~Executable(t)
          /\ Becomes(ApplyAddressUpdate(Current, a, im[a].nonce, im[a].balance))
          /\ UpdateTxStatus(TxsToDelete(a, im[a].nonce), "failed")
  /\ finPc' = "idle" /\ finTx' = {}
  /\ UNCHANGED <<found, im, dbVars, addVars, blockVars, boundVars>>

\* Out of counters or an executor level error: the tx is deleted and becomes
\* invalid; any other ROM error: deleted and failed.
ProcessOtherError ==
  /\ ExecErrors /\ finPc = "process"
  /\ \E t \in finTx, s \in {"invalid", "failed"} :
       /\ Becomes(WorkerDeleteTx(Current, t))
       /\ UpdateTxStatus({t}, s)
  /\ finPc' = "idle" /\ finTx' = {}
  /\ UNCHANGED <<found, im, dbVars, addVars, blockVars, boundVars>>

\* The executor's database failed, or the tx exceeds what is left of the batch:
\* it stays where it is and is picked again.
ProcessAgain ==
  /\ ExecErrors /\ finPc = "process"
  /\ finPc' = "idle" /\ finTx' = {}
  /\ UNCHANGED <<poolVars, workerVars, im, dbVars, addVars, blockVars, boundVars>>

-----------------------------------------------------------------------------
(* The L2 block pipeline, as far as the worker sees it *)

\* finalizeL2Block, of a block with transactions.
CloseL2Block ==
  /\ finPc = "idle" /\ block # <<>>
  /\ toProcess' = Append(toProcess, [txs |-> block, root |-> im])
  /\ block' = <<>>
  /\ UNCHANGED <<poolVars, workerVars, im, dbVars, addVars, finVars, toStore, storePc, boundVars>>

\* The queues with the txs of Add in pendingTxsToStore and those of Del not.
WithPending(Add, Del) ==
  [a \in Addrs |-> IF a \in found
     THEN [queue[a] EXCEPT !.pendingTxsToStore =
             (@ \ Del) \cup {t \in Add : From[t] = a}]
     ELSE queue[a]]

\* processPendingL2Blocks and addPendingL2BlockToStore.
ProcessL2Block ==
  /\ toProcess # <<>>
  /\ queue' = WithPending(Range(Head(toProcess).txs), {})
  /\ toStore' = Append(toStore, Head(toProcess))
  /\ toProcess' = Tail(toProcess)
  /\ UNCHANGED <<poolVars, found, sorted, im, dbVars, addVars, finVars, block, storePc, boundVars>>

\* storeL2Block up to the commit of its database transaction.
StoreL2Block ==
  /\ storePc = "idle" /\ toStore # <<>>
  /\ stored' = Head(toStore).root
  /\ txTable' = txTable \cup Range(Head(toStore).txs)
  /\ storePc' = "commit"
  /\ UNCHANGED <<poolVars, workerVars, im, addVars, finVars, block, toProcess, toStore, boundVars>>

\* Its transactions become selected in the pool, and DeletePendingTxToStore.
SelectTxs ==
  /\ storePc = "commit"
  /\ LET T == Range(Head(toStore).txs)
     IN UpdateTxStatus(T, "selected") /\ queue' = WithPending({}, T)
  /\ toStore' = Tail(toStore)
  /\ storePc' = "idle"
  /\ UNCHANGED <<found, sorted, im, dbVars, addVars, finVars, block, toProcess, boundVars>>

-----------------------------------------------------------------------------
(* Expiry and restart *)

\* ExpireTransactions: at most one tx is too old in a run; runs that find more
\* are several runs in a row.  Queues that are empty leave worker.pool.
ExpireTransactions ==
  /\ expired = {} /\ expiries < MaxExpiries
  /\ \E old \in {{}} \cup {{t} : t \in UNION {queue[a].readyTx \cup queue[a].notReadyTxs : a \in found}} :
       LET w == IF old = {} THEN Current ELSE WorkerDeleteTx(Current, CHOOSE t \in old : TRUE)
       IN /\ Becomes(w)
          /\ found' = {a \in found : ~IsEmpty(w.queue[a])}
          /\ expired' = old
  /\ expiries' = expiries + 1
  /\ UNCHANGED <<poolVars, im, dbVars, addVars, finVars, blockVars, crashes>>

FailExpired ==
  /\ expired # {}
  /\ UpdateTxStatus(expired, "failed")
  /\ expired' = {}
  /\ UNCHANGED <<workerVars, im, dbVars, addVars, finVars, blockVars, expiries, crashes>>

\* The sequencer stops and Start runs again: MarkWIPTxsAsPending, an empty
\* worker, and the wip batch at the last stored state root.
Restart ==
  /\ crashes < MaxCrashes
  /\ crashes' = crashes + 1
  /\ wip' = {} /\ found' = {} /\ sorted' = <<>>
  /\ queue' = [a \in Addrs |-> NewAddrQueue([nonce |-> 0, balance |-> 0])]
  /\ im' = stored
  /\ addPc' = "idle" /\ addTx' = {} /\ addRep' = {}
  /\ finPc' = "idle" /\ finTx' = {}
  /\ block' = <<>> /\ toProcess' = <<>> /\ toStore' = <<>> /\ storePc' = "idle"
  /\ expired' = {}
  /\ UNCHANGED <<status, dbVars, addAcc, expiries>>

-----------------------------------------------------------------------------
Init ==
  /\ deployment \in Deployments
  /\ status = [t \in Txs |-> "none"] /\ wip = {}
  /\ found = {} /\ sorted = <<>>
  /\ queue = [a \in Addrs |-> NewAddrQueue([nonce |-> 0, balance |-> 0])]
  /\ stored = [a \in Addrs |-> [nonce |-> 0, balance |-> Funds[a]]] /\ im = stored /\ txTable = {}
  /\ addPc = "idle" /\ addTx = {} /\ addRep = {} /\ addAcc = [nonce |-> 0, balance |-> 0]
  /\ finPc = "idle" /\ finTx = {}
  /\ block = <<>> /\ toProcess = <<>> /\ toStore = <<>> /\ storePc = "idle"
  /\ expired = {} /\ expiries = 0 /\ crashes = 0

LoadFromPool ==
  \/ \E t \in Txs : AddTxTracker(t)
  \/ ReadAccount \/ InstallQueue \/ FailDropped \/ FailReplaced \/ MarkWIP

Finalizer ==
  \/ GetBestFittingTx \/ ProcessSuccess \/ UpdateAfterSuccess
  \/ ProcessIntrinsicError \/ ProcessOtherError \/ ProcessAgain

Pipeline == CloseL2Block \/ ProcessL2Block \/ StoreL2Block \/ SelectTxs

Next ==
  /\ \/ \E t \in deployment.txs : SubmitTx(t)
     \/ LoadFromPool \/ Finalizer \/ Pipeline
     \/ ExpireTransactions \/ FailExpired \/ Restart
  /\ UNCHANGED deployment

Spec == Init /\ [][Next]_vars

-----------------------------------------------------------------------------
(* Properties *)

\* Type invariant.
TypeOK ==
  /\ status \in [Txs -> Status] /\ wip \subseteq Txs
  /\ found \subseteq Addrs /\ queue \in [Addrs -> AddrQueue] /\ sorted \in Seq(Txs)
  /\ im \in [Addrs -> Account] /\ stored \in [Addrs -> Account] /\ txTable \subseteq Txs
  /\ addPc \in {"idle", "read", "install", "added", "mark", "dropped"}
  /\ addTx \subseteq Txs /\ addRep \subseteq Txs /\ addAcc \in Account
  /\ finPc \in {"idle", "process", "update"} /\ finTx \subseteq Txs
  /\ block \in Seq(Txs) /\ toProcess \in Seq(L2Block) /\ toStore \in Seq(L2Block)
  /\ storePc \in {"idle", "commit"} /\ expired \subseteq Txs
  /\ expiries \in 0..MaxExpiries /\ crashes \in 0..MaxCrashes

\* txSortedList holds exactly the ready tx of every addrQueue, each once and by
\* descending gas price.
ListIsReadyTxs ==
  /\ Range(sorted) = UNION {queue[a].readyTx : a \in found}
  /\ \A i, j \in 1..Len(sorted) :
       i < j => sorted[i] # sorted[j] /\ GasPrice[sorted[i]] >= GasPrice[sorted[j]]

\* A queue has at most one ready tx, its nonce is the current one and the
\* current balance covers its cost; no two other txs share a nonce, and none has
\* a nonce below the current one.  The ready tx is not among the others, unless
\* it was loaded twice because the write of is_wip failed.
QueueConsistent(a) ==
  LET q == queue[a]
  IN /\ \A t \in q.readyTx : Nonce[t] = q.nonce /\ Cost[t] <= q.balance
     /\ \A t, u \in q.readyTx : t = u
     /\ \A t, u \in q.notReadyTxs : Nonce[t] = Nonce[u] => t = u
     /\ \A t \in q.notReadyTxs : Nonce[t] >= q.nonce
     /\ \A t \in q.readyTx \cup q.notReadyTxs : From[t] = a
     /\ ExecErrors \/ q.readyTx \cap q.notReadyTxs = {}

\* Whenever workerMutex is free, the variables have their types, every queue is
\* consistent and the list is that of the ready txs: nothing the finalizer picks has
\* left its queue, and no ready tx is unreachable for it.
QueuesConsistent == TypeOK /\ ListIsReadyTxs /\ \A a \in found : QueueConsistent(a)

\* A queue is created from the last stored state and then follows the executor:
\* whatever the interleaving of loadFromPool, expiry, the pipeline and a restart,
\* its nonce never runs ahead of the account's, so no tx is tried too early.  Between
\* the finalizer's steps it is the nonce of its account, as long as no queue was
\* dropped by the expiry loop: what loadFromPool reads without the mutex and from the
\* last stored state is not stale when the queue is created.
NonceFollows ==
  /\ \A a \in found : queue[a].nonce <= im[a].nonce
  /\ finPc # "update" /\ expiries = 0 => \A a \in found : queue[a].nonce = im[a].nonce

InPipeline ==
  Range(block) \cup UNION {Range(b.txs) : b \in Range(toProcess) \cup Range(toStore)}

InWorker == UNION {queue[a].readyTx \cup queue[a].notReadyTxs : a \in found}

OneTxPerNonce ==
  \A t, u \in {v \in Txs : status[v] # "none"} :
    From[t] = From[u] /\ Nonce[t] = Nonce[u] => t = u

\* Every tx that is pending and WIP in the pool, which loadFromPool never loads
\* again before a restart, is in a queue of the worker, on its way to one, in an
\* L2 block, or about to have its status changed; as long as no two txs of one
\* sender have the same nonce.
NoTxLost ==
  OneTxPerNonce =>
    \A t \in wip : status[t] = "pending" =>
      t \in InWorker \cup InPipeline \cup expired \cup addTx \cup addRep

\* The status selected is final whatever the restarts: loadFromPool does not take
\* a stored tx back.  (Three late writes of failed can: that of the expiry loop,
\* that of a replacement, and that of a tx that is loaded twice because the write
\* of is_wip failed.)
SelectedIsFinal ==
  [][expiries = 0 /\ OneTxPerNonce /\ ~ExecErrors =>
       \A t \in Txs : status[t] = "selected" => status'[t] = "selected"]_vars

\* A tx of a stored L2 block is not failed or invalid in the pool.  It does not hold
\* and is in no run: see the README, Known divergences.
StoredIsNotFailed == \A t \in txTable : status[t] \notin {"failed", "invalid"}

\* Fairness of the goroutines: loadFromPool walks over all rows it may load, the
\* finalizer's loop closes the L2 block and picks a tx in every turn, and every
\* goroutine that can take its next step takes it.
FairSpec ==
  /\ Spec
  /\ \A t \in Txs : SF_sequencerVars(AddTxTracker(t))
  /\ WF_sequencerVars(ReadAccount \/ InstallQueue \/ FailDropped \/ FailReplaced \/ MarkWIP)
  /\ SF_sequencerVars(GetBestFittingTx) /\ SF_sequencerVars(CloseL2Block)
  /\ WF_sequencerVars(ProcessSuccess \/ UpdateAfterSuccess \/ ProcessIntrinsicError)
  /\ WF_sequencerVars(ProcessL2Block) /\ WF_sequencerVars(StoreL2Block \/ SelectTxs)

\* t is pending and so is, or was stored, a tx with every lower nonce.
Runnable(t) ==
  /\ status[t] = "pending"
  /\ \A n \in 0..Nonce[t]-1 : \E u \in Txs :
       From[u] = From[t] /\ Nonce[u] = n /\ status[u] \in {"pending", "selected"}

=============================================================================
