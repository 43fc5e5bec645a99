# x1-node in TLA+

TLA+ modules for the concurrent core of this zkEVM node, the TLC instances that
check them and TLAPS proofs about one of them. Paths such as
`sequencer/batch.go:269` are relative to the repository's root. `PROJECT.json` lists
for every definition the lines it models, for every run its properties, and the
components and hazards of the code.

## The system

A trusted node turns L2 transactions into batches and gets them onto L1:

1. The **pool** accepts transactions. The **sequencer** loads them into its **worker**,
   which keeps one queue per sender and a list of the transactions that can be executed.
2. The **finalizer** executes them one by one into an open L2 block and an open ("WIP")
   batch. Goroutines execute closed blocks as a whole and store them once the
   executor has made them durable (their *flush id* is stored).
3. **Forced batches**, sent by users through L1, are processed between two batches.
4. The **sequence sender** sends closed batches to L1, the **aggregator** has provers
   prove them and sends final proofs. Both use the **L1 transaction manager**.
5. The **synchronizer** reads L1 (in parallel ranges, or sequentially), stores what it
   finds and resets the state after a reorg; permissionless nodes also copy the
   trusted node's batches. **JSON RPC** serves the result.

Executor, provers, hashdb, PostgreSQL and L1 are separate services; a module has of
them what the modelled code sends and can be answered.

## Modules

| Module | Code | Actions |
|---|---|---|
| `EthTxManager` | `ethtxmanager/` | one per SQL statement or L1 call of `monitorTx`, of the owner (`setStatusDone`) and of `Reorg`; L1 mining and reorgs; restarts |
| `Worker` | `sequencer/worker.go`, `addrqueue.go`, `txsorted_list.go`, `sequencer.go` | one per critical section of `workerMutex`, SQL statement or executor call of `loadFromPool`, the finalizer, the block pipeline and the expiry loop; restarts |
| `Finalizer` | `sequencer/finalizer.go`, `l2block.go`, `batch.go` | the steps of the loop, with a call stack for the functions that call each other; both block goroutines; the flush id goroutine; the parallel sanity check; restarts |
| `ForcedBatches` | `sequencer/forcedbatch.go`, `closingsignalsmanager.go` | manager, listener, deadline, processing of the list; restarts |
| `Aggregator` | `aggregator/aggregator.go`, `state/pgstatestorage/proof.go` | one per table access or prover call of each prover's goroutine, of the sender and of the cleanup; restarts |
| `L1ParallelSync` | `synchronizer/synchronizer.go`, `l1_parallel_sync/` | main loop, producer, workers, filter, consumer; L1 growing and reorganizing |

Each `MC…` module holds the instances of one of them. Where an instance needs several
configurations, the constant `Deployments` is a set of them and the variable
`deployment`, chosen by `Init`, never changes: one run covers all of them.

The main abstractions: a signed L1 transaction is its row, nonce and price (gas and
price are one number); a state root is the sequence of blocks executed; the ten
resource counters of a batch are one number; an L1 block is its number and fork.
Definitions next to an action with a similar name (`BuildNotStored` by `Build`,
`WaitProcessedNot` by `WaitProcessed`) are faulty variants. No specification uses them;
each is substituted for the real one to show that a property notices the fault.

## Runs

States are distinct states; times are for two cores. Deadlock is not checked: all
instances bound what may happen, and a bounded instance stops.

| Run | Result | States | Time |
|---|---|---|---|
| `ethtx_calm` | passes | 27,433 | 8 s |
| `ethtx_reorg` | passes | 2,509,865 | 1:24 |
| `ethtx_rpc_error` | violation | | 1 s |
| `worker_safety` | passes | 805,058 | 52 s |
| `worker_live` | passes | 15,543 | 58 s |
| `finalizer_safety` | passes | 666,068 | 33 s |
| `finalizer_flush` | violation | | 1 s |
| `forced_batches` | passes | 25,674 | 7 s |
| `aggregator` | passes | 183,857 | 1:18 |
| `aggregator_slow` | violation | | 24 s |
| `l1_sync` | passes | 127,787 | 1:25 |
| `l1_sync_reorg` | violation | | 4 s |

What the passing runs show, and under which conditions the properties are stated:

- **`ethtx_calm`**: without reorgs and RPC errors, with reverts, gas bumps and a restart
  at any point, a row's data succeeds at most once (`AtMostOneSuccess`), nonces are
  renewed over reverted transactions only (`NonceDiscipline`), a confirmed row is in a
  synchronized block (`ConfirmedOnSyncedChain`), and every row is done in the end
  (`AddedGetsDone`) unless a transaction of its history lost its nonce to another.
- **`ethtx_reorg`**: with reorgs, RPC errors, lost answers and a restart, whole-row
  Updates lose nothing (`HistoryCoversNetwork`, `CopiesAgree`, `RowsOnlyAdvance`).
  Both runs have one row; the theorems below cover any number.
- **`worker_safety`**: the sorted list is the set of ready transactions, queues are
  consistent and never ahead of the account. `NonceFollows` is stated until a queue
  expires, `NoTxLost` for one transaction per sender and nonce, `SelectedIsFinal` also
  without failing calls and expiries: each fails otherwise (see below).
- **`worker_live`**: a transaction whose lower nonces are in the pool does not stay
  pending for ever (without expiry and failing calls, with a restart).
- **`finalizer_safety`**: the stored chain is what was executed, block by block and
  transaction by transaction, in the right batch, once, durable, and closed batches do
  not change. `ChainIsConsistent`, `ImFollowsFinal`, `StoredOnce` and `StoredIsFlushed`
  are stated until a block is closed twice, the first of them also until a store fails.
  `DownOnlyWithoutRoom` names the one way in which the WIP batch is lost; the deployment
  `NoRoom` reaches it.
- **`forced_batches`**: forced batches enter the state once and in order, none is
  forgotten; processing of every one is stated without executor failures and without
  transactions in forced batches. In the instance forced batch *n* is in L1 block *n*,
  the only numbering for which the code looks up the right block.
- **`aggregator`**: rows of the proof table are disjoint, no two provers work on a batch,
  final proofs are in order: as long as no lock is deleted under its holder. Every batch
  is verified, in deployments without such a cleanup.
- **`l1_sync`**: without reorgs, blocks are stored in order and without gaps
  (`NothingSkipped`). `NeverFatal` and `SyncedIsLast` also hold with a reorg, within
  these bounds. `AllStored` is stated for deployments without failures and reorgs.

The four violations are findings in `PROJECT.json`, each against a comment of the code:

- `ethtx_rpc_error`: an error of `CheckTxWasMined` counts as mined
  (`ethtxmanager/ethtxmanager.go:293`), the nonce is renewed and the data succeeds twice.
- `finalizer_flush`: the flush id of an L2 block is not announced
  (`sequencer/l2block.go:167`): the poller sleeps and the block is never stored.
- `aggregator_slow`: a stored proof that starts below the last verified batch is never
  ready to verify (`state/pgstatestorage/proof.go:43`), and its batches stay unverified.
- `l1_sync_reorg`: an unsigned distance wraps (`l1_syncstatus.go:331`), the newest range
  counts as safe, and blocks of two forks are stored.

## Bounds

| Instance | Bounds | Why they are enough for the cases of interest |
|---|---|---|
| EthTxManager | one row, 2 prices, 2 to 4 L1 blocks, 1 or 2 reverts, 1 empty block, at most 1 reorg and 1 crash | a bump, a revert, a renewed nonce and a second revert fit; one reorg or crash can hit any step between them |
| Worker | 2 senders, up to 5 of 8 transactions, up to 2 expiries and 2 restarts, balance 3 | two nonces of a sender, up to three transactions for one nonce, a transaction that takes all the balance, and a payment that makes another ready |
| Finalizer | up to 2 transactions, at most 3 timeouts, 1 restart, batches of 5 to 10 units, a block takes 1 | full channels of closed blocks, a batch closed for each reason, and both block goroutines behind the loop. `MaxDepth` 6 cuts off calls that have no end, see below |
| ForcedBatches | 3 forced batches, finality 1, 4 L1 blocks, up to 2 closes and restarts | a gap in the list, a batch sent twice and a failure in the middle of a list |
| Aggregator | 2 provers, sequences 1–2 and 3–3, up to 2 failures, 1 cleanup or 1 restart | proofs to aggregate, a sequence that is complete with one batch, two provers competing for each |
| L1ParallelSync | 2 workers, L1 of 5 blocks with genesis at 2, ranges of 1 block, channel of 2, 1 reorg, 1 failing request, 1 failing store | answers out of order, a full channel, ranges up to the latest block while L1 grows |

Symmetry is not used, because rows, senders and workers are told apart by order or by
liveness properties.

## Fairness

Each goroutine is weakly fair: it is a loop that is never told to stop. Weak fairness
of external parts says that L1 mines and is synchronized, that the executor stores what
it was given and that provers answer. Strong fairness is used in three places:

- `Worker`: `AddTxTracker(t)`, because `loadFromPool` walks all pending rows in each
  turn; `GetBestFittingTx` and `CloseL2Block`, because `finalizeBatches` does both in
  its turns and other goroutines only disable them for a moment.
- `L1ParallelSync`: `ExecuteCmd ∨ OnResponseRollupInfo`, because Go's `select` chooses at
  random among ready channels.
- `L1ParallelSync`: `Renews`, because the time to live of the last known L1 block runs out.

No fairness is assumed of failures, restarts, reorgs and expiries. In `Aggregator` only
the cleanup of locks that nobody holds is fair.

## Proofs

`EthTxManagerProofs` and `EthTxManagerOnceProofs` prove, for every set of rows, every
price, and every number of blocks, reverts, reorgs and crashes:

| Theorem | Statement | Condition |
|---|---|---|
| `TypeCorrect` | `Spec => []TypeOK` | |
| `CopiesCorrect` | `Spec => []CopiesAgree` | |
| `RowsAdvance` | `Spec => RowsOnlyAdvance` | |
| `HistoryIsComplete` | `Spec => []HistoryCoversNetwork` | |
| `NoncesRenewed` | `Spec => []NonceDiscipline` | no reorgs, no RPC errors |
| `SucceedsOnce` | `Spec => []AtMostOneSuccess` | no reorgs, no RPC errors |

The only assumption is `ConstantsAssumption`, on the types of the constants.

The argument. `monitorTx` reads a row, works on its copy through many calls and then
writes the whole row, while the owner and `Reorg` write it too. `CopiesAgree` says that
whoever holds a copy holds one that agrees with the table on what an Update overwrites.
It is inductive together with `TypeOK`. The proof has one step per action, and one lemma
(`OtherRow`) for the goroutines of the other rows. From it, no Update drops history
(`RowsAdvance`), and a transaction is in the stored history before it is sent
(`HistoryIsComplete`).

At most one success is not inductive. `NonceDiscipline` is the strengthening: what is
synchronized is a prefix of the chain, nonces ascend along it, and a row whose nonce was
renewed over a transaction has that transaction reverted on the chain (with what the
goroutine's local variables must hold on the way there). Two successes of
a row then have different nonces, and the older would have been renewed over although
it succeeded. Both conditions are needed: `ethtx_rpc_error` violates the property with
RPC errors, and a reorg can undo the revert that a renewal relied on.

Only model-checked: liveness of every module (out of TLAPS's reach), and everything
about the other five modules.

## Known divergences

Behaviour of the code, met while modelling, that differs from what its comments, its
names or the rest of the code suggest. The models follow the code. Besides the four
violations above, six definitions state what one would expect and do not hold. To see a
counterexample, replace the properties of the named cfg with the definition:

| Definition | cfg | What happens |
|---|---|---|
| `SettledConfirmationsHold` | `MCEthTxManager_reorg.cfg` | a receipt read before a reorg confirms the row after it (`ethtxmanager/ethtxmanager.go:471`) |
| `StoredIsNotFailed` | `MCWorker_safety.cfg` | a transaction in a stored block ends as failed in the pool (`sequencer/l2block.go:350`, `pool/transaction.go:18`) |
| `ClosedOnce` | `MCFinalizer_safety.cfg` | `finalizeL2Block`, `openNewWIPL2Block` and `finalizeBatch` call each other and close a block again (`sequencer/l2block.go:400`, against the comment at 374) |
| `ChecksClosedBatches` | `MCFinalizer_safety.cfg` | the parallel sanity check reads its batch late (`sequencer/batch.go:207`) |
| `RemainingIsRoom` | `MCFinalizer_safety.cfg` | the resources of a new block are subtracted from the old batch (`sequencer/batch.go:269`) |
| `FlushIDFollows` | `MCFinalizer_flush.cfg`, as PROPERTY | a wakeup of the poller is lost (`sequencer/finalizer.go:299`) |

Part of the models, without a definition of their own:

- The calls behind `ClosedOnce` never return for an exhausted batch whose open block has
  transactions. The model stops at `MaxDepth` calls.
- When the subtraction behind `RemainingIsRoom` fails, the batch that was just
  opened is not returned and the WIP batch becomes nil (`sequencer/batch.go:269`); this
  is `pc = "down"` in `Finalizer`.
- After a block cannot be stored, `halt` only sets a flag, and later blocks may still be
  stored (`sequencer/l2block.go:185`).
- A row stays sent for ever when a transaction of its history lost its nonce
  (`ethtxmanager/ethtxmanager.go:330`): `Superseded` in `AddedGetsDone`.
- With several transactions for one nonce, one may be in no queue although the pool has it
  as WIP: a second one for the current nonce overwrites one that waits for balance
  (`sequencer/addrqueue.go:59`), and a replacement of the one that is being executed is
  dropped (`sequencer/addrqueue.go:211`).
- `sequencer/forcedbatch.go`: line 77 looks up the L1 block by the number of the forced
  batch, though the comment at 113 says its block; line 145 returns an error whether or
  not handling the response failed; line 192 stores blocks through a transaction that is
  committed.
- Parallel L1 sync: `Reset` keeps `errorRanges` (`l1_syncstatus.go:59`, against
  `synchronizer.go:408`), and an ad hoc instance with `Deploy(7, 7, 0, 1, 1)` and
  `MaxBlock` 7 then ends synchronized with a block that is never requested. A failed
  range up to the latest block is requested again only when L1 grows. An answer to a request from before a
  reset is accepted. A reorg of a synchronized node is noticed only when L1 grows. An
  empty answer clears the consumer's cached block. `setStatus` may overwrite a
  concurrent reset. The filter logs "Ignoring it" and adds the result.

## Inventory

`PROJECT.json` gives the sources and the reason for each part. In short:

| Part | State |
|---|---|
| L1 transaction manager; forced batches and closing signals | modelled |
| Worker; finalizer; aggregator; parallel L1 sync | modelled except for what their notes name |
| Pool; state batches and L2 blocks; state storage | only the operations the modules above call |
| Sequence sender; sequential L1 sync; trusted state sync; L1 event processors; flush and prover id of the synchronizer | not yet |
| Effective gas price; encodings; L1 info tree; fork ids; data stream; JSON RPC filters | not yet |
| Gas price suggesters; queue and stack; profitability checker; external control | not planned: sequential and small, or a development aid |
| Executor, prover and hashdb clients; etherman; fake VM; contract bindings | not planned: clients of other services, or generated |
| Commands, configuration, databases, metrics, logs, events, encoding helpers, tools, end-to-end tests | not planned: wiring, I/O, not part of the node |

What the six modules leave out of their own components: the forced transaction lists
and the counters of transactions in the worker; forced batches, the L1 info tree index,
the data stream and the stop at a configured batch in the finalizer, whose failures of
single transactions are in `Worker`; the building of the prover's input, failing
database calls and unprofitable batches in the aggregator; L1 reorgs deeper than the
finality of forced batches; abort, stop and the switch to sequential mode in the
parallel sync. About a tenth of the implementation's
lines is mapped to a definition.

Hazards that belong to parts not modelled yet, beyond those in `PROJECT.json`:

- `synchronizer/synchronizer.go:768`: each call replaces the pending flush id, whatever
  its order.
- `synchronizer/synchronizer.go:484`: the sequential sync asks for blocks past the last
  known one, and goes on after the end of the range.
- `synchronizer/l2_sync/l2_sync_etrog/executor_trusted_batch_sync.go:403`: a trusted
  batch that is closed without new data is refused, and each new try is the same.
- `sequencer/batch.go:557`, `pool/effectivegasprice.go:76`: products modulo 2^32 and 2^64.
- `sequencer/finalizer.go:257`: `lastL1InfoTreeValid` is read without its lock.
- `sequencer/finalizer.go:397`: `proverID` is never assigned, so a restart of the executor
  is not noticed.
- `sequencer/sequencer.go:254`: after an error the data streamer is dropped.
- `aggregator/aggregator.go:819`: no batch and no error when it is not profitable.
- `jsonrpc/query.go:44`: a subscription is signalled without the lock of its condition.
- `jsonrpc/endpoints_eth.go:411`: the time of the last poll is set after the query.

## Plan

In this order:

1. `SequenceSender`: `getSequencesToSend`, `isSynced` and the errors of estimates, and its
   composition with the rows of `EthTxManager`. Checked: sequences on L1 are contiguous,
   none is sent twice, every closed batch is sent.
2. `TrustedSync`: trusted state sync, processing of virtual batches, flush ids and resets,
   against a trusted node that goes on. Abstract specification: the state of a
   permissionless node is a prefix of the trusted one until L1 says otherwise.
3. Sequential sync as a second mode of `L1ParallelSync`, and an abstract in-order log of L1
   blocks that both modes implement when L1 does not reorg.
4. Pure algorithms against reference definitions: `AddLeaf` and `BuildL1InfoRoot`, batch
   resources and thresholds modulo 2^32, effective gas price modulo 2^64, encoding of
   batches.
5. Pool validation and replacement; JSON RPC filters and subscriptions; data stream.
6. Proofs: `QueuesConsistent` of `Worker`; the wait groups of `Finalizer` (what a closed
   batch waits for); `RowsDisjoint` and `NoDoubleWork` of `Aggregator`; the refinements of
   2 and 3.
7. An instance of `EthTxManager` with two rows of one sender.
