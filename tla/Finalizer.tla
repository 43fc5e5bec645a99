------------------------------ MODULE Finalizer ------------------------------
(***************************************************************************)
(* The sequencer's finalizer: the loop that executes transactions into an  *)
(* open L2 block and an open ("WIP") batch, the two goroutines that        *)
(* process and store closed L2 blocks, the goroutine that follows the      *)
(* executor's flush id, and the sanity check of closed batches             *)
(* (sequencer/finalizer.go, l2block.go, batch.go).                         *)
(*                                                                         *)
(* A state root is the sequence of L2 blocks executed since the genesis.   *)
(* The resources of a batch (ten counters that are subtracted together)    *)
(* are one number.  An L2 block is an index into blocks, as the code       *)
(* passes pointers.  A restart of the process forgets everything but       *)
(* batches (the state database) and the executor's flush ids.              *)
(***************************************************************************)
EXTENDS Integers, Sequences, FiniteSets, FiniteSetsExt, Functions

CONSTANTS
  Size,            \* resources of each tx
  BlockRes,        \* l2BlockUsedResources
  Deployments,     \* what a node may be configured for, and meet (see below)
  MaxDepth         \* bound: depth of the calls of finalizeBatch and finalizeL2Block
                   \* inside each other, which has no end for an exhausted batch

\* txs: the transactions the worker offers; maxRes: the batch constraints;
\* threshold: ResourcePercentageToCloseBatch of them; maxTxs: MaxTxsPerBatch;
\* buffer: pendingL2BlocksBufferSize; sequential: SequentialReprocessFullBatch;
\* storeErrors: may storing a block fail; timeouts, crashes: bounds on the L2
\* block times and batch deadlines that pass and on the restarts.
ASSUME ConstantsAssumption ==
  /\ BlockRes \in Nat /\ MaxDepth \in Nat
  /\ \A d \in Deployments :
       /\ d.txs \subseteq DOMAIN Size /\ \A t \in d.txs : Size[t] \in 1 .. d.maxRes
       /\ d.threshold \in 0 .. d.maxRes
       /\ {d.maxRes, d.maxTxs, d.buffer} \subseteq Nat \ {0}
       /\ {d.sequential, d.storeErrors} \subseteq BOOLEAN
       /\ {d.timeouts, d.crashes} \subseteq Nat

VARIABLES
  deployment,  \* the one of Deployments this node is
  batches,     \* state.batch: the stored batches, by batch number
  blocks,      \* every L2Block ever allocated; a pointer is an index
  wipBatch, wipL2Block,
  pc, stack,   \* the finalizer's loop: where it is, and the calls it is in
  toProcess, processWG, procPc, procBlock,   \* processPendingL2Blocks
  toStore, storeWG, storePc, storeBlock,     \* storePendingL2Blocks
  flush, flushed,                            \* the executor: ids given, stored
  lastPendingFlushID, storedFlushID, pollPc, \* updateProverIdAndFlushId
  checks, checked,   \* sanity checks running in parallel; batches they took
  halted,            \* haltFinalizer
  timeouts, crashes,
  closings,  \* history: the L2 blocks that were closed, in order
  unstored   \* history: the L2 blocks that could not be stored

loopVars == <<wipL2Block, pc, stack>>
processVars == <<toProcess, processWG, procPc, procBlock, closings>>
storeVars == <<toStore, storeWG, storePc, storeBlock, unstored>>
executorVars == <<flush, flushed>>
flushVars == <<lastPendingFlushID, storedFlushID, pollPc>>
checkVars == <<checks, checked, halted>>
boundVars == <<timeouts, crashes>>
nodeVars == <<batches, blocks, wipBatch, loopVars, processVars, storeVars,
              executorVars, flushVars, checkVars, boundVars>>
vars == <<deployment, nodeVars>>

Txs == deployment.txs
MaxRes == deployment.maxRes
Threshold == deployment.threshold
MaxTxsPerBatch == deployment.maxTxs
Buffer == deployment.buffer
Sequential == deployment.sequential
StoreErrors == deployment.storeErrors
MaxTimeouts == deployment.timeouts
MaxCrashes == deployment.crashes

-----------------------------------------------------------------------------
(* Data.                                                                    *)

Last(s) == s[Len(s)]

L2Block == [txs : Seq(DOMAIN Size), used : Nat, initial : Seq(Nat), root : Seq(Nat),
            flush : Nat, batch : Nat]
EmptyL2Block == [txs |-> <<>>, used |-> BlockRes, initial |-> <<>>, root |-> <<>>,
                 flush |-> 0, batch |-> 0]

TxsOfBlocks(bs) ==
  LET upTo[i \in 0 .. Len(bs)] ==
        IF i = 0 THEN <<>> ELSE upTo[i - 1] \o blocks[bs[i]].txs
  IN  upTo[Len(bs)]

StateBatch(root) == [root |-> root, blocks |-> <<>>, closed |-> FALSE, res |-> 0]

\* A variant that leaves imStateRoot at its zero value.
NewWIPBatchNoIm(n, root) ==
  [num |-> n, initial |-> root, final |-> root, im |-> <<>>,
   count |-> 0, remaining |-> MaxRes]

\* What openNewWIPBatch returns.
NewWIPBatch(n, root) ==
  [num |-> n, initial |-> root, final |-> root, im |-> TxsOfBlocks(root),
   count |-> 0, remaining |-> MaxRes]

\* Variants of setWIPBatch that take a root from the previous batch.
SetWIPBatchPrevFinal(n) ==
  [num |-> n, initial |-> batches[n - 1].root, final |-> batches[n - 1].root,
   im |-> TxsOfBlocks(batches[n].root), count |-> 0, remaining |-> MaxRes]
SetWIPBatchPrevIm(n) ==
  [num |-> n, initial |-> batches[n - 1].root, final |-> batches[n].root,
   im |-> TxsOfBlocks(batches[n - 1].root), count |-> 0, remaining |-> MaxRes]

\* setWIPBatch: the batch that was open when the process stopped.
SetWIPBatch(n) ==
  [num |-> n, initial |-> batches[n - 1].root, final |-> batches[n].root,
   im |-> TxsOfBlocks(batches[n].root),
   count |-> Len(TxsOfBlocks(batches[n].blocks)),
   remaining |-> MaxRes - batches[n].res]

IsBatchResourcesExhausted(rem) == rem <= Threshold

\* updateLastPendingFlushID: the broadcast is made without pendingFlushIDCond.L,
\* so it only reaches a poller that is already in the waiting list.
UpdateLastPendingFlushID(id) ==
  IF id > lastPendingFlushID
    THEN /\ lastPendingFlushID' = id
         /\ pollPc' = IF pollPc = "asleep" THEN "check" ELSE pollPc
         /\ UNCHANGED storedFlushID
    ELSE UNCHANGED flushVars

Call(proc, ret) == pc' = proc /\ stack' = <<ret>> \o stack
Return == pc' = Head(stack) /\ stack' = Tail(stack)

-----------------------------------------------------------------------------
(* finalizeBatches: one iteration is "top", "pick", "check".                *)

Offered == Txs \ Range(wipBatch.im)
Fitting == {t \in Offered : Size[t] <= wipBatch.remaining}

L2BlockTime ==
  /\ pc = "top" /\ timeouts < MaxTimeouts
  /\ timeouts' = timeouts + 1
  /\ Call("closeBlock", "pick")
  /\ UNCHANGED <<batches, blocks, wipBatch, wipL2Block, processVars, storeVars,
                 executorVars, flushVars, checkVars, crashes>>

\* processTransaction and handleProcessTransactionResponse of a tx that is
\* executed successfully; the other outcomes are in module Worker.
ProcessTransaction(t) ==
  /\ pc \in {"top", "pick"} /\ t \in Fitting
  /\ wipBatch' = [wipBatch EXCEPT !.im = Append(@, t),
                                  !.count = @ + 1,
                                  !.remaining = @ - Size[t]]
  /\ blocks' = [blocks EXCEPT ![wipL2Block].txs = Append(@, t),
                              ![wipL2Block].used = @ + Size[t]]
  /\ flush' = flush + 1
  /\ UpdateLastPendingFlushID(flush + 1)
  /\ pc' = "check"
  /\ UNCHANGED <<batches, wipL2Block, stack, processVars, storeVars, flushed,
                 checkVars, boundVars>>

NoFittingTransaction ==
  /\ pc \in {"top", "pick"} /\ Offered # {} /\ Fitting = {}
  /\ Call("closeBatch", "check")
  /\ UNCHANGED <<batches, blocks, wipBatch, wipL2Block, processVars, storeVars,
                 executorVars, flushVars, checkVars, boundVars>>

NoTransaction ==
  /\ pc \in {"top", "pick"} /\ Offered = {}
  /\ pc' = "check"
  /\ UNCHANGED <<batches, blocks, wipBatch, wipL2Block, stack, processVars,
                 storeVars, executorVars, flushVars, checkVars, boundVars>>

MaxTxsPerBatchReached == wipBatch.count >= MaxTxsPerBatch

\* The end of an iteration; a halted finalizer stays here for ever.
FullBatch ==
  /\ pc = "check" /\ ~halted
  /\ MaxTxsPerBatchReached \/ IsBatchResourcesExhausted(wipBatch.remaining)
  /\ Call("closeBatch", "top")
  /\ UNCHANGED <<batches, blocks, wipBatch, wipL2Block, processVars, storeVars,
                 executorVars, flushVars, checkVars, boundVars>>

Deadline ==
  /\ pc = "check" /\ ~halted /\ wipBatch.count > 0 /\ timeouts < MaxTimeouts
  /\ timeouts' = timeouts + 1
  /\ Call("closeBatch", "top")
  /\ UNCHANGED <<batches, blocks, wipBatch, wipL2Block, processVars, storeVars,
                 executorVars, flushVars, checkVars, crashes>>

NextIteration ==
  /\ pc = "check" /\ ~halted
  /\ ~MaxTxsPerBatchReached /\ ~IsBatchResourcesExhausted(wipBatch.remaining)
  /\ pc' = "top"
  /\ UNCHANGED <<batches, blocks, wipBatch, wipL2Block, stack, processVars,
                 storeVars, executorVars, flushVars, checkVars, boundVars>>

-----------------------------------------------------------------------------
(* finalizeL2Block: closeWIPL2Block, then openNewWIPL2Block.                *)

\* An empty block is executed first, which takes a flush id that nobody
\* announces; then the block is handed to processPendingL2Blocks.
CloseWIPL2Block ==
  /\ pc = "closeBlock" /\ Len(toProcess) < Buffer
  /\ flush' = IF blocks[wipL2Block].txs = <<>> THEN flush + 1 ELSE flush
  /\ processWG' = processWG + 1
  /\ toProcess' = Append(toProcess, wipL2Block)
  /\ closings' = Append(closings, wipL2Block)
  /\ pc' = "openBlock"
  /\ UNCHANGED <<batches, blocks, wipBatch, wipL2Block, stack, procPc, procBlock,
                 storeVars, flushed, flushVars, checkVars, boundVars>>

NewL2Block ==
  /\ blocks' = Append(blocks, EmptyL2Block)
  /\ wipL2Block' = Len(blocks) + 1

OpenNewWIPL2Block ==
  LET fits == BlockRes <= wipBatch.remaining
      rem  == IF fits THEN wipBatch.remaining - BlockRes ELSE wipBatch.remaining
  IN  /\ pc = "openBlock"
      /\ wipBatch' = [wipBatch EXCEPT !.remaining = rem]
      /\ IF ~fits \/ IsBatchResourcesExhausted(rem)
           THEN /\ Len(stack) < MaxDepth
                /\ Call("closeBatch", "newBlock")
                /\ UNCHANGED <<blocks, wipL2Block>>
           ELSE Return /\ NewL2Block
      /\ UNCHANGED <<batches, processVars, storeVars, executorVars, flushVars,
                     checkVars, boundVars>>

\* The rest of openNewWIPL2Block, after the batch it had to finalize.
OpenAfterBatch ==
  /\ pc = "newBlock"
  /\ NewL2Block /\ Return
  /\ UNCHANGED <<batches, wipBatch, processVars, storeVars, executorVars,
                 flushVars, checkVars, boundVars>>

-----------------------------------------------------------------------------
(* finalizeBatch: closeAndOpenNewWIPBatch.  The forced batches it may       *)
(* process on the way are in module ForcedBatches.                          *)

FinalizeBatch ==
  /\ pc = "closeBatch"
  /\ IF blocks[wipL2Block].txs # <<>>
       THEN Call("closeBlock", "waitProcess")
       ELSE pc' = "waitProcess" /\ UNCHANGED stack
  /\ UNCHANGED <<batches, blocks, wipBatch, wipL2Block, processVars, storeVars,
                 executorVars, flushVars, checkVars, boundVars>>

\* A variant that does not wait for the blocks to be processed.
WaitProcessedNot ==
  /\ pc = "waitProcess"
  /\ pc' = "waitStore"
  /\ UNCHANGED <<batches, blocks, wipBatch, wipL2Block, stack, processVars,
                 storeVars, executorVars, flushVars, checkVars, boundVars>>

WaitProcessed ==
  /\ pc = "waitProcess" /\ processWG = 0
  /\ pc' = "waitStore"
  /\ UNCHANGED <<batches, blocks, wipBatch, wipL2Block, stack, processVars,
                 storeVars, executorVars, flushVars, checkVars, boundVars>>

\* reprocessFullBatch: the stored data of batch n executed from root initial
\* must lead to root final.
Reprocessed(n, initial, final) == initial \o batches[n].blocks = final

\* A variant that does not wait for the blocks to be stored.
CloseWIPBatchNoWait ==
  /\ pc = "waitStore" /\ pc' = "openBatch"
  /\ batches' = [batches EXCEPT ![wipBatch.num].closed = TRUE]
  /\ UNCHANGED <<blocks, wipBatch, wipL2Block, stack, processVars, storeVars,
                 executorVars, flushVars, checkVars, boundVars>>

\* The sanity check, inline or in a goroutine, and closeWIPBatch.  An error
\* of the inline check makes wipBatch nil, and finalizeBatch then panics.
CloseWIPBatch ==
  LET n == wipBatch.num IN
  /\ pc = "waitStore" /\ storeWG = 0
  /\ flush' = IF wipBatch.initial = wipBatch.final THEN flush + 1 ELSE flush
  /\ IF Sequential /\ ~Reprocessed(n, wipBatch.initial, wipBatch.final)
       THEN pc' = "down" /\ UNCHANGED <<batches, checks>>
       ELSE /\ pc' = "openBatch"
            /\ checks' = IF Sequential THEN checks ELSE checks + 1
            /\ batches' = [batches EXCEPT ![n].closed = TRUE,
                                          ![n].res = MaxRes - wipBatch.remaining]
  /\ UNCHANGED <<blocks, wipBatch, wipL2Block, stack, processVars, storeVars,
                 flushed, flushVars, checked, halted, boundVars>>

\* A variant that compares with the last batch number itself.
OpenableLast(n) == n = Len(batches) /\ Last(batches).closed

\* OpenWIPBatch refuses a number that does not follow the last closed batch.
Openable(n) == n = Len(batches) + 1 /\ Last(batches).closed

\* openNewWIPBatch, and the subtraction of the open L2 block's resources from
\* f.wipBatch, which is still the old batch; an error makes wipBatch nil.
OpenNewWIPBatch ==
  LET n == wipBatch.num + 1
      ok == Openable(n) /\ BlockRes <= wipBatch.remaining
  IN  /\ pc = "openBatch"
      /\ batches' = IF Openable(n) THEN Append(batches, StateBatch(wipBatch.final))
                                  ELSE batches
      /\ wipBatch' = IF ok THEN NewWIPBatch(n, wipBatch.final) ELSE wipBatch
      /\ IF ok THEN Return ELSE pc' = "down" /\ UNCHANGED stack
      /\ UNCHANGED <<blocks, wipL2Block, processVars, storeVars, executorVars,
                     flushVars, checkVars, boundVars>>

\* The goroutine of the parallel check reads f.wipBatch when it is scheduled.
ParallelCheck ==
  /\ checks > 0 /\ pc # "down"
  /\ checks' = checks - 1
  /\ checked' = checked \cup {wipBatch.num}
  /\ halted' = (halted \/ ~Reprocessed(wipBatch.num, wipBatch.initial, wipBatch.final))
  /\ UNCHANGED <<batches, blocks, wipBatch, loopVars, processVars, storeVars,
                 executorVars, flushVars, boundVars>>

-----------------------------------------------------------------------------
(* processPendingL2Blocks.                                                  *)

ProcessL2Block ==
  LET b == Head(toProcess)
      root == Append(wipBatch.final, b)
  IN  /\ procPc = "idle" /\ toProcess # <<>> /\ pc # "down"
      /\ toProcess' = Tail(toProcess)
      /\ procBlock' = b
      /\ procPc' = "send"
      /\ flush' = flush + 1
      /\ blocks' = [blocks EXCEPT ![b].initial = wipBatch.final, ![b].root = root,
                                  ![b].flush = flush + 1, ![b].batch = wipBatch.num]
      /\ wipBatch' = [wipBatch EXCEPT !.final = root]
      /\ UNCHANGED <<batches, loopVars, processWG, closings, storeVars, flushed, flushVars,
                     checkVars, boundVars>>

AddPendingL2BlockToStore ==
  /\ procPc = "send" /\ Len(toStore) < Buffer /\ pc # "down"
  /\ storeWG' = storeWG + 1
  /\ toStore' = Append(toStore, procBlock)
  /\ procPc' = "done"
  /\ UNCHANGED <<batches, blocks, wipBatch, loopVars, toProcess, processWG,
                 procBlock, closings, storePc, storeBlock, unstored, executorVars,
                 flushVars, checkVars, boundVars>>

ProcessDone ==
  /\ procPc = "done" /\ pc # "down"
  /\ processWG' = processWG - 1
  /\ procPc' = "idle"
  /\ UNCHANGED <<batches, blocks, wipBatch, loopVars, toProcess, procBlock,
                 closings, storeVars, executorVars, flushVars, checkVars, boundVars>>

-----------------------------------------------------------------------------
(* storePendingL2Blocks.                                                    *)

TakeL2BlockToStore ==
  /\ storePc = "idle" /\ toStore # <<>> /\ pc # "down"
  /\ storeBlock' = Head(toStore)
  /\ toStore' = Tail(toStore)
  /\ storePc' = "flush"
  /\ UNCHANGED <<batches, blocks, wipBatch, loopVars, processVars, storeWG,
                 unstored, executorVars, flushVars, checkVars, boundVars>>

\* A variant that compares with the wrong flush id.
FlushedPending(b) == lastPendingFlushID + 1 >= blocks[b].flush

Flushed(b) == storedFlushID >= blocks[b].flush

\* A variant that stores the WIP batch's root in place of the block's.
StoreL2BlockFinalRoot ==
  LET n == wipBatch.num IN
  /\ storePc = "flush" /\ Flushed(storeBlock) /\ pc # "down"
  /\ batches' = [batches EXCEPT ![n].blocks = Append(@, storeBlock),
                                ![n].root = wipBatch.final,
                                ![n].res = @ + blocks[storeBlock].used]
  /\ storePc' = "done"
  /\ UNCHANGED <<blocks, wipBatch, loopVars, processVars, toStore, storeWG,
                 storeBlock, unstored, executorVars, flushVars, checkVars, boundVars>>

\* storeL2Block: the block, and the data, root and resources of f.wipBatch.
StoreL2Block ==
  LET n == wipBatch.num IN
  /\ storePc = "flush" /\ Flushed(storeBlock) /\ pc # "down"
  /\ batches' = [batches EXCEPT ![n].blocks = Append(@, storeBlock),
                                ![n].root = blocks[storeBlock].root,
                                ![n].res = @ + blocks[storeBlock].used]
  /\ storePc' = "done"
  /\ UNCHANGED <<blocks, wipBatch, loopVars, processVars, toStore, storeWG,
                 storeBlock, unstored, executorVars, flushVars, checkVars, boundVars>>

\* An error of the database: halt, and go on as if the block were stored.
StoreFails ==
  /\ StoreErrors /\ storePc = "flush" /\ Flushed(storeBlock) /\ pc # "down"
  /\ halted' = TRUE
  /\ unstored' = unstored \cup {storeBlock}
  /\ storePc' = "done"
  /\ UNCHANGED <<batches, blocks, wipBatch, loopVars, processVars, toStore,
                 storeWG, storeBlock, executorVars, flushVars, checks, checked,
                 boundVars>>

StoreDone ==
  /\ storePc = "done" /\ pc # "down"
  /\ storeWG' = storeWG - 1
  /\ storePc' = "idle"
  /\ UNCHANGED <<batches, blocks, wipBatch, loopVars, processVars, toStore,
                 storeBlock, unstored, executorVars, flushVars, checkVars, boundVars>>

-----------------------------------------------------------------------------
(* updateProverIdAndFlushId, and the executor's storing of what it flushed. *)

FlushIDCheck ==
  /\ pollPc = "check" /\ pc # "down"
  /\ pollPc' = IF storedFlushID >= lastPendingFlushID THEN "wait" ELSE "poll"
  /\ UNCHANGED <<batches, blocks, wipBatch, loopVars, processVars, storeVars,
                 executorVars, lastPendingFlushID, storedFlushID, checkVars,
                 boundVars>>

\* Cond.Wait enters the waiting list; a broadcast before this is missed.
FlushIDWait ==
  /\ pollPc = "wait" /\ pc # "down"
  /\ pollPc' = "asleep"
  /\ UNCHANGED <<batches, blocks, wipBatch, loopVars, processVars, storeVars,
                 executorVars, lastPendingFlushID, storedFlushID, checkVars,
                 boundVars>>

\* One round of polling: GetStoredFlushID, and the broadcast that wakes
\* storePendingL2Blocks (made under storedFlushIDCond.L, so it is never missed).
FlushIDPoll ==
  /\ pollPc = "poll" /\ pc # "down"
  /\ IF storedFlushID < lastPendingFlushID
       THEN storedFlushID' = flushed /\ UNCHANGED pollPc
       ELSE pollPc' = "check" /\ UNCHANGED storedFlushID
  /\ UNCHANGED <<batches, blocks, wipBatch, loopVars, processVars, storeVars,
                 executorVars, lastPendingFlushID, checkVars, boundVars>>

ExecutorStores ==
  /\ flushed < flush
  /\ \E id \in flushed + 1 .. flush : flushed' = id
  /\ UNCHANGED <<batches, blocks, wipBatch, loopVars, processVars, storeVars,
                 flush, flushVars, checkVars, boundVars>>

-----------------------------------------------------------------------------
(* The process.                                                             *)

\* Start: initWIPBatch on the batches bs, then initWIPL2Block.  Block 1 is the
\* empty L2 block initWIPL2Block allocates, which is never closed.
Start(bs, batch) ==
  /\ batches' = bs
  /\ wipBatch' = batch
  /\ wipL2Block' = 1 /\ pc' = "openBlock" /\ stack' = <<"top">>
  /\ toProcess' = <<>> /\ processWG' = 0 /\ procPc' = "idle" /\ procBlock' = 1
  /\ toStore' = <<>> /\ storeWG' = 0 /\ storePc' = "idle" /\ storeBlock' = 1
  /\ lastPendingFlushID' = 0 /\ storedFlushID' = 0 /\ pollPc' = "check"
  /\ checks' = 0 /\ halted' = FALSE

\* initWIPBatch ends the process when the open batch holds more than a batch may.
Restart ==
  LET n == Len(batches) IN
  /\ crashes < MaxCrashes
  /\ crashes' = crashes + 1
  /\ \/ /\ Last(batches).closed
        /\ Start(Append(batches, StateBatch(Last(batches).root)),
                 NewWIPBatch(n + 1, Last(batches).root))
     \/ /\ ~Last(batches).closed /\ Last(batches).res <= MaxRes
        /\ Start(batches, SetWIPBatch(n))
     \/ /\ ~Last(batches).closed /\ Last(batches).res > MaxRes
        /\ pc' = "down"
        /\ UNCHANGED <<batches, wipBatch, wipL2Block, stack, toProcess, processWG, procPc,
                       procBlock, toStore, storeWG, storePc, storeBlock, flushVars,
                       checks, halted>>
  /\ UNCHANGED <<blocks, closings, unstored, executorVars, checked, timeouts>>

Genesis == [root |-> <<>>, blocks |-> <<>>, closed |-> TRUE, res |-> 0]

Init ==
  /\ deployment \in Deployments
  /\ batches = <<Genesis, StateBatch(<<>>)>>
  /\ blocks = <<EmptyL2Block>>
  /\ wipBatch = [num |-> 2, initial |-> <<>>, final |-> <<>>, im |-> <<>>,
                 count |-> 0, remaining |-> MaxRes]
  /\ wipL2Block = 1 /\ pc = "openBlock" /\ stack = <<"top">>
  /\ toProcess = <<>> /\ processWG = 0 /\ procPc = "idle" /\ procBlock = 1
  /\ toStore = <<>> /\ storeWG = 0 /\ storePc = "idle" /\ storeBlock = 1
  /\ flush = 0 /\ flushed = 0
  /\ lastPendingFlushID = 0 /\ storedFlushID = 0 /\ pollPc = "check"
  /\ checks = 0 /\ checked = {} /\ halted = FALSE
  /\ timeouts = 0 /\ crashes = 0 /\ closings = <<>> /\ unstored = {}

FinalizeBatches ==
  \/ L2BlockTime \/ NoFittingTransaction \/ NoTransaction
  \/ \E t \in Txs : ProcessTransaction(t)
  \/ FullBatch \/ Deadline \/ NextIteration
  \/ CloseWIPL2Block \/ OpenNewWIPL2Block \/ OpenAfterBatch
  \/ FinalizeBatch \/ WaitProcessed \/ CloseWIPBatch \/ OpenNewWIPBatch

ProcessPendingL2Blocks == ProcessL2Block \/ AddPendingL2BlockToStore \/ ProcessDone
StorePendingL2Blocks == TakeL2BlockToStore \/ StoreL2Block \/ StoreFails \/ StoreDone
UpdateProverIdAndFlushId == FlushIDCheck \/ FlushIDWait \/ FlushIDPoll

Next ==
  /\ \/ FinalizeBatches \/ ProcessPendingL2Blocks \/ StorePendingL2Blocks
     \/ UpdateProverIdAndFlushId \/ ParallelCheck \/ ExecutorStores \/ Restart
  /\ UNCHANGED deployment

Spec == Init /\ [][Next]_vars

-----------------------------------------------------------------------------
(* Properties.                                                              *)

BlockIds == 1 .. Len(blocks)

\* The state has the shape the goroutines assume: the wait groups count exactly
\* the blocks in their channel and in the hands of their goroutine, and the WIP
\* batch is the last one of the database.
TypeOK ==
  /\ wipL2Block \in BlockIds /\ procBlock \in BlockIds /\ storeBlock \in BlockIds
  /\ toProcess \in Seq(BlockIds) /\ toStore \in Seq(BlockIds)
  /\ processWG = Len(toProcess) + (IF procPc = "idle" THEN 0 ELSE 1)
  /\ storeWG = Len(toStore) + (IF storePc = "idle" THEN 0 ELSE 1)
  /\ wipBatch.remaining \in 0 .. MaxRes
  /\ pc # "down" => wipBatch.num = Len(batches)
  /\ storedFlushID <= flushed /\ flushed <= flush

\* A closed L2 block is handed to the executor once: finalizeL2Block closes the
\* current L2 block and opens a new one.  It does not hold for an exhausted batch and
\* is in no run: see the README, Known divergences.
ClosedOnce == IsInjective(closings)

\* The stored chain: every batch's root is the root of the one before it and the
\* blocks stored in it, and every block was executed on top of the one stored before
\* it (processPendingL2Blocks and storeL2Block), until a block fails to be stored or
\* is closed twice.  A block is stored in the batch it was executed for, although
\* storePendingL2Blocks reads f.wipBatch long after processPendingL2Blocks did.
ChainIsConsistent ==
  /\ TypeOK
  /\ \A n \in DOMAIN batches : \A i \in DOMAIN batches[n].blocks :
       blocks[batches[n].blocks[i]].batch = n
  /\ unstored = {} /\ ClosedOnce =>
       \A n \in 2 .. Len(batches) :
         /\ batches[n].root = batches[n - 1].root \o batches[n].blocks
         /\ \A i \in DOMAIN batches[n].blocks :
              blocks[batches[n].blocks[i]].initial =
                batches[n - 1].root \o SubSeq(batches[n].blocks, 1, i - 1)

\* The tx by tx execution that fills a block and the execution of whole blocks
\* agree: what imStateRoot has executed is what finalStateRoot has executed, the
\* closed blocks waiting for processPendingL2Blocks, and the open block.  So no tx is
\* executed twice, whatever the restarts: the txs of a block that was not stored are
\* executed again, those of a stored one are not.
ImFollowsFinal ==
  pc # "down" /\ ClosedOnce =>
    /\ wipBatch.im = TxsOfBlocks(wipBatch.final) \o TxsOfBlocks(toProcess)
                       \o (IF wipL2Block \in Range(closings)
                             THEN <<>> ELSE blocks[wipL2Block].txs)
    /\ IsInjective(TxsOfBlocks(wipBatch.final \o toProcess))

\* A stored block is durable in the executor: its flush id was stored first.
StoredIsFlushed ==
  ClosedOnce =>
    \A n \in DOMAIN batches : \A i \in DOMAIN batches[n].blocks :
      blocks[batches[n].blocks[i]].flush <= flushed

\* A closed batch never changes: neither its blocks nor its root.
ClosedIsFinal ==
  [][\A n \in DOMAIN batches : batches[n].closed =>
       /\ batches'[n].closed
       /\ batches'[n].blocks = batches[n].blocks
       /\ batches'[n].root = batches[n].root]_vars

\* The parallel sanity check takes the batch that was closed (reprocessFullBatch
\* is started by closeAndOpenNewWIPBatch for the batch it closes).  It does not hold
\* and is in no run: see the README, Known divergences.
ChecksClosedBatches == \A n \in checked : n < Len(batches) \/ Last(batches).closed

\* finalizeBatch is left without a WIP batch for one reason only: the next batch was
\* opened and the old one, from which closeAndOpenNewWIPBatch subtracts, had no room
\* for another L2 block.  So the sanity check agrees with the execution block by block
\* and OpenWIPBatch refuses no number; and with a threshold that leaves room for two
\* L2 blocks in a batch that is not exhausted, it never happens.  A process that does
\* not start (setWIPBatch) has an open batch that holds more than a batch may.
DownOnlyWithoutRoom ==
  pc = "down" =>
    \/ /\ Len(batches) = wipBatch.num + 1 /\ ~Last(batches).closed
       /\ wipBatch.remaining < BlockRes
       /\ Threshold + 1 < 2 * BlockRes
    \/ ~Last(batches).closed /\ Last(batches).res > MaxRes

\* The WIP batch's remaining resources leave room for what it holds: the blocks
\* executed for it and the open L2 block.  It does not hold
\* and is in no run: see the README, Known divergences.
RemainingIsRoom ==
  LET held == {b \in BlockIds : blocks[b].batch = wipBatch.num}
                \cup Range(toProcess) \cup {wipL2Block}
  IN  pc = "top" => MapThenSumSet(LAMBDA b : blocks[b].used, held) + wipBatch.remaining <= MaxRes

FairSpec ==
  /\ Spec
  /\ WF_nodeVars(FinalizeBatches) /\ WF_nodeVars(ProcessPendingL2Blocks)
  /\ WF_nodeVars(StorePendingL2Blocks) /\ WF_nodeVars(UpdateProverIdAndFlushId)
  /\ WF_nodeVars(ExecutorStores)

\* The goroutine that follows the flush id learns of every pending flush id.  It does not hold
\* and is in no run: see the README, Known divergences.
FlushIDFollows ==
  lastPendingFlushID > storedFlushID ~> lastPendingFlushID <= storedFlushID

\* Every processed L2 block is stored in the end.
ProcessedIsStored == storePc # "idle" ~> storePc = "idle"
=============================================================================
