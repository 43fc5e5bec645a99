----------------------------- MODULE StateSync -----------------------------
(***************************************************************************)
(* The synchronizer of a permissionless node (synchronizer/) in sequential *)
(* mode: it copies the batches of the trusted node, open ones included,    *)
(* and the events of the L1, each batch and each L1 block in one database  *)
(* transaction, committed once the executor has stored the state it        *)
(* computed.  The trusted node, the L1 and the executor run beside it.     *)
(* The rollup is at fork 7 (etrog) from its first batch.                   *)
(***************************************************************************)
EXTENDS StateDB

CONSTANTS
  MaxBatch,        \* bound on the batches of the trusted node
  MaxL2Blocks,     \* bound on the L2 blocks of batch b
  MaxL1,           \* bound on the height of the L1
  MaxSequence,     \* bound on the batches of a sequence
  MaxForced,       \* bound on the forced batches
  MaxVerify,       \* bound on the verifications
  MaxReorgs,       \* bound on the reorganisations of the L1
  MaxDiverge,      \* bound on the sequences that differ from the trusted node
  MaxFaults,       \* bound on failed calls and restarts of the node or executor
  SyncChunkSize,
  ExitsDiffer,     \* whether the rollup and the local exit root differ
  ReorgsMidPass,   \* whether the L1 reorganises while its blocks are read
  UsesL1Info       \* batches with a block that refers to the L1 info tree

ASSUME ConstantsAssumption ==
  /\ {MaxBatch, MaxL1, MaxSequence, SyncChunkSize} \subseteq Nat \ {0}
  /\ {MaxForced, MaxVerify, MaxReorgs, MaxDiverge, MaxFaults} \subseteq Nat
  /\ UsesL1Info \subseteq Nat
  /\ MaxL2Blocks \in [1 .. MaxBatch -> Nat]
  /\ {ReorgsMidPass, ExitsDiffer} \subseteq BOOLEAN

VARIABLES
  trusted,   \* the batches of the trusted node
  l1,        \* the canonical chain of the L1; l1[1] is the genesis block
  reorgs, diverged,      \* how often the L1 reorganised and diverged
  executor,  \* prover id, roots it has not stored yet, roots it has stored
  db,        \* the committed state database
  tx,        \* the open transaction: its database, a batch for the cache and
             \* how many batches of a sequence it has done
  pool,      \* L2 blocks put back into the pool
  cache,     \* TrustedStateManager.Cache
  flush,     \* proverID, "is latestFlushID > 0", latestFlushIDIsFulfilled
  last,      \* lastEthBlockSynced
  pc,        \* where the loop of Sync is
  cur, goal, \* batchNumberToSync and lastTrustedStateBatchNumber
  from, known, todo,     \* fromBlock, lastKnownBlock, blocks left of a range
  faults     \* failed calls and restarts so far

env == <<trusted, l1, reorgs, diverged>>
memory == <<cache, flush, last>>
control == <<pc, cur, goal, from, known, todo>>
vars == <<env, executor, db, tx, pool, memory, control, faults>>

NoBatch == [none |-> TRUE]
NoTx == [db |-> NoDB, batch |-> NoBatch, done |-> 0]
NoProver == 0
Quiet == [type |-> "none"]
EmptyCache == <<>>

-----------------------------------------------------------------------------
(* The L1: its blocks, and what the rollup contract has after each one.    *)
(* The hash of a block is the number of reorganisations before it.         *)

Batch(data, forced) == [data |-> data, closed |-> TRUE, forced |-> forced]
BatchesOf(ev) == IF ev.type \in {"sequence", "sequenceForce"} THEN ev.batches ELSE <<>>
Contract == l1[Len(l1)].contract
GetLatestBatchNumber == Len(Contract)
Events(type) == {n \in DOMAIN l1 : l1[n].ev.type = type}
ForcedOnL1 == Cardinality(Events("force"))
ForcedUsed(batches) == Max({batches[b].forced : b \in DOMAIN batches})
Data(batches, b) ==
  LET root[i \in 0 .. b] == IF i = 0 THEN <<>> ELSE Execute(root[i - 1], batches[i].data)
  IN root[b]

TrustedBlock(b, k) == 10 * b + k
OtherData(b) == <<10 * b>>
ForcedData(f) == <<100 + f>>

L1Adds(ev) ==
  /\ Len(l1) < MaxL1
  /\ l1' = Append(l1, [hash |-> reorgs, ev |-> ev, contract |-> Contract \o BatchesOf(ev)])
  /\ UNCHANGED <<trusted, reorgs, executor, db, tx, pool, memory, control, faults>>

L1Block == L1Adds(Quiet) /\ UNCHANGED diverged

\* Agrees: the trusted node has what the contract has.
Agrees ==
  /\ Len(Contract) <= Len(trusted)
  /\ \A b \in DOMAIN Contract : Contract[b] = trusted[b]

L1Sequence ==
  \E n \in 1 .. MaxSequence :
    LET from1 == Len(Contract) + 1
        batches == SubSeq(trusted, from1, from1 + n - 1)
    IN /\ Agrees
       /\ from1 + n - 1 <= Len(trusted)
       /\ \A i \in 1 .. n : batches[i].closed
       /\ ForcedUsed(batches) <= ForcedOnL1
       /\ L1Adds([type |-> "sequence", first |-> from1, batches |-> batches])
       /\ UNCHANGED diverged

L1Diverges ==
  /\ diverged < MaxDiverge
  /\ Len(Contract) < MaxBatch
  /\ LET b == Len(Contract) + 1
     IN L1Adds([type |-> "sequence", first |-> b, batches |-> <<Batch(OtherData(b), NoForced)>>])
  /\ diverged' = diverged + 1

L1Force ==
  /\ ForcedOnL1 < MaxForced
  /\ L1Adds([type |-> "force", num |-> ForcedOnL1 + 1, data |-> ForcedData(ForcedOnL1 + 1)])
  /\ UNCHANGED diverged

L1SequenceForce ==
  LET f == ForcedUsed(Contract) + 1
  IN /\ f <= ForcedOnL1
     /\ Len(Contract) < MaxBatch
     /\ L1Adds([type |-> "sequenceForce", first |-> Len(Contract) + 1, batches |-> <<Batch(ForcedData(f), f)>>])
     /\ UNCHANGED diverged

L1Verify ==
  /\ Cardinality(Events("verify")) < MaxVerify
  /\ \E b \in 2 .. Len(Contract) :
       /\ \A n \in Events("verify") : l1[n].ev.batch < b
       /\ L1Adds([type |-> "verify", batch |-> b, root |-> Data(Contract, b)])
       /\ UNCHANGED diverged

L1Reorg ==
  /\ reorgs < MaxReorgs
  /\ known # 0 => ReorgsMidPass
  /\ \E n \in 1 .. Len(l1) - 1 : l1' = SubSeq(l1, 1, n)
  /\ reorgs' = reorgs + 1
  /\ UNCHANGED <<trusted, diverged, executor, db, tx, pool, memory, control, faults>>

-----------------------------------------------------------------------------
(* The trusted node, as its RPC shows it.                                  *)

TrustedChanges ==
  UNCHANGED <<l1, reorgs, diverged, executor, db, tx, pool, memory, control, faults>>
LastTrusted == trusted[Len(trusted)]
Open == ~LastTrusted.closed

TrustedOpens ==
  /\ ~Open /\ Len(trusted) < MaxBatch
  /\ trusted' = Append(trusted, [data |-> <<>>, closed |-> FALSE, forced |-> NoForced])
  /\ TrustedChanges

TrustedAdds ==
  /\ Open /\ Len(LastTrusted.data) < MaxL2Blocks[Len(trusted)]
  /\ trusted' = [trusted EXCEPT ![Len(trusted)].data =
                   Append(@, TrustedBlock(Len(trusted), Len(@) + 1))]
  /\ TrustedChanges

TrustedCloses ==
  /\ Open /\ LastTrusted.data # <<>>
  /\ trusted' = [trusted EXCEPT ![Len(trusted)].closed = TRUE]
  /\ TrustedChanges

TrustedForces ==
  /\ ~Open /\ Len(trusted) < MaxBatch
  /\ LET f == ForcedUsed(trusted) + 1
     IN f <= ForcedOnL1 /\ trusted' = Append(trusted, Batch(ForcedData(f), f))
  /\ TrustedChanges

\* The trusted node starts again from the L1.
TrustedResyncs ==
  /\ ~Agrees
  /\ trusted' = Contract
  /\ TrustedChanges

-----------------------------------------------------------------------------
(* The executor.                                                           *)

ExecutorStores ==
  /\ executor.pending # {}
  /\ executor' = [executor EXCEPT !.stored = @ \cup executor.pending, !.pending = {}]
  /\ UNCHANGED <<env, db, tx, pool, memory, control, faults>>

-----------------------------------------------------------------------------
(* The outcome of the work of a transaction: whether it succeeds, fails or *)
(* ends the process, its database, the roots given to the executor to be   *)
(* stored (PendingFlushID), the batch for the cache, whether the cache was *)
(* cleaned, and the L2 blocks put back into the pool.                      *)

Ok(d) == [status |-> "ok", db |-> d, roots |-> {}, batch |-> NoBatch, cleaned |-> FALSE, pool |-> {}]
Stores(o, root) == [o EXCEPT !.roots = @ \cup {root}]
Fails(o) == [o EXCEPT !.status = "error"]
Dies(o) == [o EXCEPT !.status = "fatal"]
Gives(o, d) == IF d = NoDB THEN Fails(o) ELSE [o EXCEPT !.db = d]

(* The trusted node has batch b as t, with the state root root.            *)

\* checkIfSynced
Synced(row, t, root) ==
  row.data = t.data /\ row.root = root /\ row.ler /\ row.wip = ~t.closed

\* updateWIPBatch stores RollupExitRoot as the local exit root; closeBatch
\* stores LocalExitRoot.
LerStored(t) == t.closed \/ ~ExitsDiffer

\* FullProcess
FullProcess(b, t, root, previous) ==
  LET new == Execute(previous.root, t.data)
      row == [data |-> t.data, root |-> new, wip |-> ~t.closed, forced |-> t.forced, ler |-> LerStored(t)]
      o == Stores(Ok(db), new)
  IN CASE ~CanOpen(db, b, t.forced) -> Fails(Ok(db))
       [] new # root -> Dies(o)
       [] OTHER -> [o EXCEPT !.db.rows = Append(@, row), !.batch = [row EXCEPT !.ler = TRUE]]

\* Mutant: a batch that differs is discarded and stored again.
IncrementalProcessAgain(b, t, root, current) ==
  Gives(Ok(db), ProcessAndStoreClosedBatch(ResetTrustedState(db, b - 1), b, t.data, NoForced))

\* checkThatL2DataIsIncremental and composePartialBatch: data is old with
\* something appended to it.
IsIncremental(data, old) == Len(old) < Len(data) /\ SubSeq(data, 1, Len(old)) = old

\* IncrementalProcess: composePartialBatch checks that there is new data, and
\* getProcessRequest has the executor run all the data of the trusted batch.
IncrementalProcess(b, t, root, current) ==
  LET new == Execute(current.root, t.data)
      row == [current EXCEPT !.data = t.data, !.root = new, !.wip = ~t.closed, !.ler = TRUE]
      stored == [db.rows[b] EXCEPT !.data = t.data, !.root = new, !.wip = @ /\ ~t.closed,
                                   !.ler = LerStored(t)]
      o == Stores(Ok(db), new)
  IN CASE ~IsIncremental(t.data, current.data) -> Fails(Ok(db))
       [] b > LastBatch(db) -> Fails(o)                          \* StoreL2Block
       [] new # root -> Dies(o)
       [] t.closed /\ b # LastBatch(db) -> Fails(o)              \* isBatchClosable
       [] t.closed /\ ~db.rows[b].wip -> [o EXCEPT !.batch = row]
       [] OTHER -> [o EXCEPT !.batch = row, !.db.rows[b] = stored]

\* getModeForProcessBatch and ProcessTrustedBatch.  A row always has a state
\* root here, so ReProcess is left out.
ProcessTrustedBatch(b, t, root, current, previous) ==
  CASE previous = NoBatch -> Fails(Ok(db))
    [] current = NoBatch -> FullProcess(b, t, root, previous)
    [] Synced(current, t, root) -> Ok(db)
    [] OTHER -> IncrementalProcess(b, t, root, current)

(* The events of L1 block n.                                               *)

\* A forced batch of processSequenceBatches is checked but leaves the
\* processing context empty: storing it asks for batch 0, executing it
\* dereferences its nil timestamp.
ForcedInSequence(o, b, data) ==
  LET f == NextForced(o.db)
      matches == f # NoForced /\ o.db.forced[f].data = data
  IN IF matches /\ b <= LastBatch(o.db) THEN Dies(o) ELSE Fails(o)

\* ExecuteBatchV2 is given an empty L1 info tree.
ExecuteBatch(d, b, data) ==
  IF b \in UsesL1Info THEN <<"unknown L1 info">> ELSE Execute(RootOf(d, b - 1), data)

\* Mutant: an open batch is not compared.
MismatchOfClosed(d, b, data) ==
  b \in DOMAIN d.rows /\ ~d.rows[b].wip /\ d.rows[b].data # data

\* checkTrustedState
Mismatch(d, b, data) ==
  /\ b \in DOMAIN d.rows
  /\ d.rows[b].data # data \/ d.rows[b].root # ExecuteBatch(d, b, data)

\* reorgPool: the blocks of the batches the contract does not have.
ReorgPool(d) ==
  UNION {Range(d.rows[b].data) : b \in {c \in DOMAIN d.rows : c > GetLatestBatchNumber}}

\* Mutant: the cache is not cleaned.
DiscardKeepsCache(o, b) ==
  [o EXCEPT !.pool = @ \cup ReorgPool(o.db), !.db = ResetTrustedState(@, b - 1)]
Discard(o, b) ==
  [o EXCEPT !.cleaned = TRUE, !.pool = @ \cup ReorgPool(o.db), !.db = ResetTrustedState(@, b - 1)]

StoreBatch(o, b, data, forced) ==
  LET p == Gives(o, ProcessAndStoreClosedBatch(o.db, b, data, forced))
  IN IF p.status = "ok" THEN Stores(p, RootOf(p.db, b)) ELSE p

AddVirtual(o, b, n) ==
  IF o.status = "ok" THEN Gives(o, AddVirtualBatch(o.db, b, n)) ELSE o

SequencedBatch(o, b, batch, n) ==
  CASE batch.forced # NoForced -> ForcedInSequence(o, b, batch.data)
    [] Mismatch(o.db, b, batch.data) -> AddVirtual(StoreBatch(Discard(o, b), b, batch.data, NoForced), b, n)
    [] b \in DOMAIN o.db.rows -> AddVirtual(o, b, n)
    [] OTHER -> AddVirtual(StoreBatch(o, b, batch.data, NoForced), b, n)

\* Mutant: the sequence starts at its last batch.
EndSequenceFromLast(o, ev) ==
  LET to == ev.first + Len(ev.batches) - 1
  IN IF o.status = "ok" THEN Gives(o, AddSequence(o.db, to, to)) ELSE o
EndSequence(o, ev) ==
  IF o.status = "ok" THEN Gives(o, AddSequence(o.db, ev.first, ev.first + Len(ev.batches) - 1)) ELSE o

\* processSequenceForceBatch
SequenceForceBatches(d, n, ev) ==
  LET o == [Ok(ResetTrustedState(d, LastVirtual(d))) EXCEPT !.cleaned = TRUE]
      f == NextForced(o.db)
      batch == ev.batches[1]
  IN IF f = NoForced THEN Fails(o)
     ELSE IF o.db.forced[f].data # batch.data THEN Fails(o)
     ELSE EndSequence(AddVirtual(StoreBatch(o, ev.first, batch.data, f), ev.first, n), ev)

\* processVerifyBatches
VerifyBatches(d, n, ev) ==
  IF ev.batch > LastBatch(d) THEN Fails(Ok(d))
  ELSE IF RootOf(d, ev.batch) # ev.root THEN Fails(Ok(d))
  ELSE Gives(Ok(d), AddVerifiedBatches(d, LastVerified(d) + 1 .. ev.batch, n, ev.root))

\* The events but SequenceBatches.
ProcessEvent(d, n, ev) ==
  CASE ev.type = "sequenceForce" -> SequenceForceBatches(d, n, ev)
    [] ev.type = "force" -> Gives(Ok(d), AddForcedBatch(d, ev.num, ev.data, n))
    [] ev.type = "verify" -> VerifyBatches(d, n, ev)
    [] OTHER -> Ok(d)

-----------------------------------------------------------------------------
(* The synchronizer.                                                       *)

LastOf(d) == [n |-> LastBlock(d), hash |-> d.blocks[LastBlock(d)].hash]
Forget == cur' = 0 /\ goal' = 0 /\ from' = 0 /\ known' = 0 /\ todo' = {}
Idle == pc' = "top" /\ tx' = NoTx /\ Forget
Fresh == [prover |-> NoProver, sent |-> FALSE, fulfilled |-> FALSE]

\* log.Fatal, a panic or a crash: the node starts again from its database.
Die ==
  /\ cache' = EmptyCache /\ flush' = Fresh /\ last' = LastOf(db)
  /\ Idle

\* An error of syncTrustedState cleans the cache and skips the L1; an error of
\* the L1 sync has lastEthBlockSynced read again.
TrustedError == cache' = EmptyCache /\ Idle /\ UNCHANGED last
\* Mutant: lastEthBlockSynced is not read again.
L1ErrorKeepsLast == Idle /\ UNCHANGED last
L1Error == last' = LastOf(db) /\ Idle

firstTrustedBatchNumber == 2

\* The loop of Sync: the trusted node is asked when the database has every batch
\* of the contract (SyncTrustedState, isSyncrhonizedTrustedState).
Loop ==
  /\ pc = "top"
  /\ LET first == Max({LastBatch(db), firstTrustedBatchNumber})
     IN IF LastBatch(db) >= GetLatestBatchNumber /\ Len(trusted) >= first
        THEN pc' = "batch" /\ cur' = first /\ goal' = Len(trusted)
        ELSE pc' = "l1" /\ UNCHANGED <<cur, goal>>
  /\ UNCHANGED <<env, executor, db, tx, pool, memory, from, known, todo, faults>>

\* PendingFlushID: what the executor ran is pending, and it must be the same
\* executor as before.
OtherProver(o) == o.roots # {} /\ flush.prover \notin {NoProver, executor.prover}
\* Mutant: latestFlushIDIsFulfilled is not reset.
PendingFlushFulfilled(o) ==
  flush' = IF o.roots = {} THEN flush ELSE [flush EXCEPT !.prover = executor.prover, !.sent = TRUE]
PendingFlush(o) ==
  flush' = IF o.roots = {} THEN flush
           ELSE [prover |-> executor.prover, sent |-> TRUE, fulfilled |-> FALSE]
Ran(o) ==
  /\ executor' = [executor EXCEPT !.pending = @ \cup (o.roots \ executor.stored)]
  /\ pool' = pool \cup o.pool
  /\ UNCHANGED <<env, db, faults>>

\* GetStateForWorkingBatch: what the cache still has, else the database.
Working(kept, b) ==
  IF b \in DOMAIN kept THEN kept[b]
  ELSE IF b <= LastBatch(db) THEN db.rows[b] ELSE NoBatch
Set(kept, b, row) == IF row = NoBatch THEN kept ELSE Insert(kept, b, row)

\* syncTrustedBatchesToFrom, one batch up to CheckFlushID.
SyncTrustedBatch ==
  /\ pc = "batch" /\ cur <= Len(trusted)
  /\ \E live \in SUBSET DOMAIN cache :
       LET kept == Restrict(cache, live)
           current == Working(kept, cur)
           previous == Working(kept, cur - 1)
           o == ProcessTrustedBatch(cur, trusted[cur], Data(trusted, cur), current, previous)
       IN /\ Ran(o)
          /\ CASE o.status = "fatal" \/ OtherProver(o) -> Die
               [] o.status = "error" -> TrustedError /\ PendingFlush(o)
               [] OTHER -> /\ cache' = Set(Set(kept, cur, current), cur - 1, previous)
                           /\ tx' = [db |-> o.db, batch |-> o.batch, done |-> 0]
                           /\ PendingFlush(o) /\ pc' = "flush"
                           /\ UNCHANGED <<last, cur, goal, from, known, todo>>

\* BatchByNumber fails: the trusted node has fewer batches by now.
TrustedBatchGone ==
  /\ pc = "batch" /\ cur > Len(trusted)
  /\ TrustedError
  /\ UNCHANGED <<env, executor, db, pool, flush, faults>>

\* checkReorg and the start of syncBlocksSequential.
Canonical(n) == n = 1 \/ db.blocks[n].hash = l1[n].hash
CheckReorg ==
  /\ pc = "l1"
  /\ IF last.n > Len(l1) THEN L1Error /\ UNCHANGED db
     ELSE IF last.n = 1 \/ last.hash = l1[last.n].hash
     THEN /\ pc' = "range" /\ known' = Len(l1) /\ from' = last.n + 1
          /\ UNCHANGED <<db, tx, last, cur, goal, todo>>
     ELSE LET good == Max({n \in DOMAIN db.blocks : Canonical(n)})
              d == Reset(db, good)
          IN /\ db' = IF d = NoDB THEN db ELSE d
             /\ last' = LastOf(db')
             /\ Idle
  /\ UNCHANGED <<env, executor, pool, cache, flush, faults>>

\* GetRollupInfoByBlockRange gives the blocks with an event; without one, the
\* last block of a range below the head is stored.
BlockAt(n) == [n |-> n, hash |-> l1[n].hash, ev |-> l1[n].ev]
ToBlock == from + SyncChunkSize
WithEvents == {BlockAt(n) : n \in {m \in DOMAIN l1 : m \in from .. ToBlock /\ l1[m].ev # Quiet}}
GetRange ==
  /\ pc = "range"
  /\ IF WithEvents # {}
     THEN todo' = WithEvents /\ pc' = "block" /\ UNCHANGED <<tx, last, cur, goal, from, known>>
     ELSE IF known <= ToBlock THEN Idle /\ UNCHANGED last
     ELSE IF ToBlock > Len(l1) THEN L1Error
     ELSE todo' = {BlockAt(ToBlock)} /\ pc' = "block" /\ UNCHANGED <<tx, last, cur, goal, from, known>>
  /\ UNCHANGED <<env, executor, db, pool, cache, flush, faults>>

\* The blocks of a range are processed in their order.
NextBlock == CHOOSE block \in todo : \A other \in todo : block.n <= other.n

\* Work on the transaction of an L1 block: it goes on at next if it succeeds.
Works(o, done, next) ==
  /\ Ran(o)
  /\ IF o.status = "fatal" \/ OtherProver(o) THEN Die
     ELSE /\ PendingFlush(o)
          /\ cache' = IF o.cleaned THEN EmptyCache ELSE cache
          /\ IF o.status = "error" THEN L1Error
             ELSE /\ tx' = [db |-> o.db, batch |-> NoBatch, done |-> done] /\ pc' = next
                  /\ UNCHANGED <<last, cur, goal, from, known, todo>>

\* ProcessBlockRange, one block up to checkFlushID.
ProcessBlockRange ==
  /\ pc = "block"
  /\ LET block == NextBlock
         d == AddBlock(db, block.n, [hash |-> block.hash, ev |-> block.ev])
     IN IF d = NoDB THEN Works(Fails(Ok(db)), 0, "flush")
        ELSE IF block.ev.type = "sequence" THEN Works(Ok(d), 0, "sequence")
        ELSE Works(ProcessEvent(d, block.n, block.ev), 0, "flush")

\* processSequenceBatches, one batch; the sequence is added after the last one.
ProcessSequenceBatches ==
  /\ pc = "sequence"
  /\ LET block == NextBlock
         ev == block.ev
         i == tx.done + 1
         o == SequencedBatch(Ok(tx.db), ev.first + i - 1, ev.batches[i], block.n)
     IN IF i < Len(ev.batches) THEN Works(o, i, "sequence") ELSE Works(EndSequence(o, ev), i, "flush")

-----------------------------------------------------------------------------
(* checkFlushID and the commit, of a trusted batch (cur > 0) or a block.   *)

InTrusted == cur > 0
Error == IF InTrusted THEN TrustedError ELSE L1Error /\ UNCHANGED cache

CommitTrusted ==
  /\ cache' = IF tx.batch = NoBatch THEN EmptyCache ELSE Insert(cache, cur, tx.batch)
  /\ IF cur < goal THEN pc' = "batch" /\ cur' = cur + 1 /\ UNCHANGED goal
     ELSE pc' = "l1" /\ cur' = 0 /\ goal' = 0
  /\ UNCHANGED <<last, from, known, todo>>

\* lastEthBlockSynced advances at the end of a range; the last range is the one
\* that reaches lastKnownBlock.
CommitBlock ==
  /\ UNCHANGED <<cache, cur, goal>>
  /\ IF todo # {NextBlock}
     THEN pc' = "block" /\ todo' = todo \ {NextBlock} /\ UNCHANGED <<last, from, known>>
     ELSE /\ last' = [n |-> NextBlock.n, hash |-> NextBlock.hash]
          /\ todo' = {}
          /\ IF known <= ToBlock THEN pc' = "top" /\ from' = 0 /\ known' = 0
             ELSE pc' = "range" /\ from' = ToBlock + 1 /\ UNCHANGED known

Commit ==
  /\ db' = tx.db /\ tx' = NoTx
  /\ IF InTrusted THEN CommitTrusted ELSE CommitBlock
  /\ UNCHANGED <<env, executor, pool, faults>>

\* Mutant: storedFlushID <= latestFlushID.
PendingOffByOne == flush.sent

\* storedFlushID < latestFlushID: a new executor counts from 0 again.
Pending == flush.sent /\ (executor.pending # {} \/ flush.prover # executor.prover)
Fulfilled == flush' = [flush EXCEPT !.prover = executor.prover, !.fulfilled = TRUE]

CheckFlushID ==
  /\ pc = "flush"
  /\ \/ flush.fulfilled /\ Commit /\ UNCHANGED flush
     \/ /\ ~flush.fulfilled /\ flush.prover \notin {NoProver, executor.prover}
        /\ Die
        /\ UNCHANGED <<env, executor, db, pool, faults>>
     \/ /\ ~flush.fulfilled /\ flush.prover \in {NoProver, executor.prover}
        /\ ~Pending /\ Fulfilled /\ Commit
     \/ /\ ~flush.fulfilled /\ flush.prover \in {NoProver, executor.prover}
        /\ Pending /\ pc' = "wait"
        /\ UNCHANGED <<env, executor, db, tx, pool, memory, cur, goal, from, known, todo, faults>>

\* The loop that waits does not look at the prover id.
FlushIsStored ==
  /\ pc = "wait" /\ ~Pending
  /\ flush' = [flush EXCEPT !.fulfilled = TRUE]
  /\ Commit

-----------------------------------------------------------------------------
(* Faults.                                                                 *)

Faulty == faults < MaxFaults /\ faults' = faults + 1

\* A call to the database, the L1, the trusted node or the executor fails.
CallFails ==
  /\ pc # "top" /\ Faulty /\ Error
  /\ UNCHANGED <<env, executor, db, pool, flush>>

\* The commit succeeds and its answer is lost.
CommitUnanswered ==
  /\ pc = "flush" /\ flush.fulfilled /\ Faulty
  /\ db' = tx.db
  /\ IF InTrusted THEN TrustedError ELSE last' = LastOf(tx.db) /\ Idle /\ UNCHANGED cache
  /\ UNCHANGED <<env, executor, pool, flush>>

\* A new executor has the state the old one stored, and a new prover id.
ExecutorRestarts ==
  /\ Faulty
  /\ executor' = [executor EXCEPT !.prover = @ + 1, !.pending = {}]
  /\ UNCHANGED <<env, db, tx, pool, memory, control>>

NodeRestarts ==
  /\ Faulty /\ Die
  /\ UNCHANGED <<env, executor, db, pool>>

-----------------------------------------------------------------------------
GenesisDB ==
  [blocks |-> <<[hash |-> 0, ev |-> Quiet]>>, rows |-> <<Closed(<<>>, <<>>, NoForced)>>,
   virtual |-> <<1>>, verified |-> <<>>, forced |-> <<>>, seqs |-> <<1>>]

Init ==
  /\ trusted = <<Batch(<<>>, NoForced)>>
  /\ l1 = <<[hash |-> 0, ev |-> Quiet, contract |-> <<Batch(<<>>, NoForced)>>]>>
  /\ reorgs = 0 /\ diverged = 0 /\ faults = 0
  /\ executor = [prover |-> 1, pending |-> {}, stored |-> {<<>>}]
  /\ db = GenesisDB
  /\ tx = NoTx /\ pool = {} /\ cache = EmptyCache /\ flush = Fresh
  /\ last = LastOf(GenesisDB)
  /\ pc = "top" /\ cur = 0 /\ goal = 0 /\ from = 0 /\ known = 0 /\ todo = {}

TrustedNode == TrustedOpens \/ TrustedAdds \/ TrustedCloses \/ TrustedForces \/ TrustedResyncs
L1 == L1Block \/ L1Sequence \/ L1Diverges \/ L1Force \/ L1SequenceForce \/ L1Verify \/ L1Reorg
Sync ==
  \/ Loop \/ SyncTrustedBatch \/ TrustedBatchGone
  \/ CheckReorg \/ GetRange \/ ProcessBlockRange \/ ProcessSequenceBatches
  \/ CheckFlushID \/ FlushIsStored
Faults == CallFails \/ CommitUnanswered \/ NodeRestarts \/ ExecutorRestarts
Next == TrustedNode \/ L1 \/ Sync \/ ExecutorStores \/ Faults

Spec == Init /\ [][Next]_vars

\* The loop of Sync runs for ever and the executor stores what it computed.
\* The first conjunct is WF_vars(Sync) with ENABLED spelt out.
Blocked == pc = "wait" /\ Pending
FairSpec == Spec /\ ([]<>Blocked \/ []<><<Sync>>_vars) /\ WF_vars(ExecutorStores)

-----------------------------------------------------------------------------
(* Properties.                                                             *)

L2Blocks == Nat
BatchType == [data : Seq(L2Blocks), closed : BOOLEAN, forced : Nat]
BatchesType == Seq(BatchType) \ {<<>>}
EventType ==
  [type : {"none"}]
  \cup [type : {"sequence", "sequenceForce"}, first : Nat \ {0}, batches : BatchesType]
  \cup [type : {"force"}, num : Nat, data : Seq(L2Blocks)]
  \cup [type : {"verify"}, batch : Nat, root : Seq(L2Blocks)]
RowType ==
  [data : Seq(L2Blocks), root : Seq(L2Blocks), wip : BOOLEAN, forced : Nat, ler : BOOLEAN]
DBType(d) ==
  /\ d.rows \in Seq(RowType)
  /\ DOMAIN d.virtual \subseteq 1 .. Len(d.rows)
  /\ \A f \in DOMAIN d.forced : f \in Nat /\ d.forced[f].data \in Seq(L2Blocks)

\* A database transaction is open, for a trusted batch or for an L1 block.
InTx == pc \in {"flush", "wait", "sequence"}

\* The type of the variables; a virtual batch references a batch.
TypeOK ==
  /\ trusted \in BatchesType
  /\ l1 \in Seq([hash : Nat, ev : EventType, contract : BatchesType]) \ {<<>>}
  /\ {reorgs, diverged, faults, cur, goal, from, known} \subseteq Nat
  /\ executor \in [prover : Nat, pending : SUBSET Seq(L2Blocks), stored : SUBSET Seq(L2Blocks)]
  /\ pool \subseteq L2Blocks
  /\ DBType(db)
  /\ InTx => DBType(tx.db)
  /\ \A b \in DOMAIN cache : cache[b] \in RowType
  /\ tx.batch \in RowType \cup {NoBatch}
  /\ tx.done \in Nat
  /\ flush \in [prover : Nat, sent : BOOLEAN, fulfilled : BOOLEAN]
  /\ pc \in {"top", "batch", "l1", "range", "block", "sequence", "flush", "wait"}
  /\ todo \subseteq [n : Nat, hash : Nat, ev : EventType]

Rows == DOMAIN db.rows

\* Batches chain: the state root of every batch is the one of the batch before
\* it with its own data executed, and only the last batch is still open,
\* whatever mixture of the trusted node, its cache, the L1, discarded batches and
\* failed transactions the batches came from.
RootsChain ==
  /\ \A b \in Rows : db.rows[b].root = Execute(RootOf(db, b - 1), db.rows[b].data)
  /\ \A b \in Rows : db.rows[b].wip => b = LastBatch(db)

\* checkFlushID: the executor has stored the state of every committed batch, also
\* when it restarted after it computed it.
RootsAreDurable == \A b \in Rows : db.rows[b].root \in executor.stored

\* At the top of the loop lastEthBlockSynced is the last block of the database,
\* after an error or a commit without an answer too: no block is read twice or
\* left out.
LastFollowsDB == pc \in {"top", "l1"} => last = LastOf(db)

EventOf(b) == db.blocks[db.virtual[b]].ev

\* The virtual batches are those of the stored L1 blocks, without a gap: each has
\* the data and the forced batch its event has, and the trusted sync does not
\* change it.
VirtualIsL1 ==
  /\ TypeOK
  /\ DOMAIN db.virtual = 1 .. LastVirtual(db)
  /\ \A b \in DOMAIN db.virtual \ {1} :
       /\ db.virtual[b] \in DOMAIN db.blocks
       /\ EventOf(b).type \in {"sequence", "sequenceForce"}
       /\ LET batch == EventOf(b).batches[b - EventOf(b).first + 1]
          IN db.rows[b].data = batch.data /\ db.rows[b].forced = batch.forced

\* A verified batch is virtual and has the root the L1 verified, after every
\* reorganisation and every discarded batch.
VerifiedMatches ==
  \A b \in DOMAIN db.verified :
    /\ b \in DOMAIN db.virtual
    /\ b + 1 \notin DOMAIN db.verified => db.verified[b].root = RootOf(db, b)

\* Every virtual batch is in a sequence the aggregator can find, although a
\* reorganisation leaves sequences behind.
VirtualInSequence ==
  \A b \in DOMAIN db.virtual : \E f \in DOMAIN db.seqs : b \in f .. db.seqs[f]

\* A batch stays virtual as long as the L1 block that sequenced it is stored:
\* no reset of the trusted state takes it away.
VirtualIsKept ==
  [][\A b \in DOMAIN db.virtual :
       b \in DOMAIN db'.virtual \/ db.virtual[b] \notin DOMAIN db'.blocks]_db

CaughtUp == LastVirtual(db) = Len(Contract)

\* The trusted node has another batch under the number of the last one, or the
\* same data in a batch it has closed: the trusted sync fails, and Sync goes on
\* to the L1 only when the contract has more batches than the database.
Refused ==
  LET b == LastBatch(db)
      row == db.rows[b]
  IN /\ b > 1 /\ b <= Len(trusted)
     /\ ~Synced(row, trusted[b], Data(trusted, b))
     /\ ~(row.wip /\ row.data = <<>> /\ row.root = Data(trusted, b - 1))

\* Once the L1 is quiet its batches all become virtual, whatever failed before,
\* unless the trusted node refuses the last batch or the executor restarted while
\* its flush was waited for.
CatchesUp == <>[](CaughtUp \/ Refused \/ (Blocked /\ flush.prover # executor.prover))

\* Batch b is on the database with the data of a batch the trusted node closed.
OnDatabase(b) ==
  /\ b \in Rows /\ b \in DOMAIN trusted
  /\ trusted[b].closed /\ db.rows[b].data = trusted[b].data

\* What the comment on NothingProcess says of such a batch: if it needs to be
\* closed, it is.
BatchGetsClosed ==
  \A b \in 2 .. MaxBatch : OnDatabase(b) ~> (b \in Rows => ~db.rows[b].wip)
=============================================================================
