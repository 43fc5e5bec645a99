--------------------------- MODULE L1ParallelSync ---------------------------
(***************************************************************************)
(* The synchronization with L1 in parallel mode: the loop of the           *)
(* synchronizer (Sync, checkReorg, resetState), the orchestration, the     *)
(* producer that hands out ranges of L1 blocks to workers and puts their   *)
(* results in order, and the consumer that stores them                     *)
(* (synchronizer/synchronizer.go, synchronizer/l1_parallel_sync/).         *)
(*                                                                         *)
(* An L1 block is its number and the fork it belongs to: a reorg gives all *)
(* blocks from some number on a new fork, so number and fork stand for the *)
(* block's hash and, as all blocks below are the same, its parent hash.    *)
(* Only blocks with events of the rollup are in the answers of L1.         *)
(***************************************************************************)
EXTENDS Integers, Sequences, FiniteSets, FiniteSetsExt, SequencesExt

CONSTANTS
  NumWorkers,      \* the ethermans that answer ranges
  Genesis,         \* the block of the rollup's genesis
  MaxBlock,        \* a bound on the length of L1
  Amount,          \* SyncChunkSize
  Capacity,        \* MaxPendingNoProcessedBlocks: of the channel
  UnsafeDistance,  \* maximumBlockDistanceFromLatestToFinalized
  Deployments      \* bounds on L1 blocks, reorgs, failing requests and failing stores

Workers == 1 .. NumWorkers
Latest == MaxBlock + 1000   \* latestBlockNumber, the largest uint64
Blocks == [num : 0 .. MaxBlock, fork : Nat]
NoBlock == [num |-> 0, fork |-> 0]

ASSUME ConstantsAssumption ==
  /\ NumWorkers \in Nat \ {0}
  /\ Genesis \in Nat \ {0} /\ MaxBlock \in Nat /\ Genesis <= MaxBlock
  /\ {Amount, Capacity, UnsafeDistance} \subseteq Nat \ {0}
  /\ \A d \in Deployments :
       /\ Genesis <= d.start /\ d.start <= d.blocks /\ d.blocks <= MaxBlock
       /\ {d.start, d.blocks, d.reorgs, d.failures, d.storeErrors} \subseteq Nat

VARIABLES
  deployment,
  chain, reorgs,                  \* L1: per number, its fork and if it has events
  db,                             \* the blocks of the state, in order
  main, synced,                   \* Sync: its place and lastEthBlockSynced
  pc, status, cmds, outbox,       \* the producer: its place, status, channelCmds,
                                  \* and the packages it is sending
  lastStored, highestRequested, lastBlockOnL1, processing, errors,  \* syncStatus
  filterLast, pending,            \* the filter that orders the results
  worker, responses,              \* the workers and the channel of their answers
  channel,                        \* from the producer to the consumer
  consumer, highest, received, lastSynced,  \* the consumer
  failures, storeErrors

l1Vars == <<chain, reorgs>>
mainVars == <<main, synced>>
statusVars == <<lastStored, highestRequested, lastBlockOnL1, processing, errors>>
filterVars == <<filterLast, pending>>
workerVars == <<worker, responses>>
consumerVars == <<consumer, highest, received, lastSynced>>
boundVars == <<failures, storeErrors>>
syncVars == <<l1Vars, db, mainVars, pc, status, cmds, outbox, statusVars, filterVars,
              workerVars, channel, consumerVars, boundVars>>
vars == <<deployment, syncVars>>

-----------------------------------------------------------------------------
(* L1, external: it grows and reorganizes.                                  *)

BlockAt(n) == [num |-> n, fork |-> chain[n].fork]
OnChain(b) == b.num \in 1 .. Len(chain) /\ BlockAt(b.num) = b
EventBlocks(f, t) == {BlockAt(n) : n \in {m \in f .. Min({t, Len(chain)}) : chain[m].event}}
InOrder(B) == SetToSortSeq(B, LAMBDA a, b : a.num < b.num)

Mine ==
  /\ Len(chain) < deployment.blocks
  /\ \E e \in BOOLEAN : chain' = Append(chain, [fork |-> reorgs, event |-> e])
  /\ UNCHANGED <<reorgs, db, mainVars, pc, status, cmds, outbox, statusVars, filterVars,
                 workerVars, channel, consumerVars, boundVars>>

\* Some block follows every reorg.
Reorg ==
  /\ reorgs < deployment.reorgs /\ Len(chain) < deployment.blocks
  /\ reorgs' = reorgs + 1
  /\ \E n \in Genesis + 1 .. Len(chain) : \E e \in [n .. Len(chain) -> BOOLEAN] :
       chain' = [m \in 1 .. Len(chain) |->
                   IF m < n THEN chain[m] ELSE [fork |-> reorgs + 1, event |-> e[m]]]
  /\ UNCHANGED <<db, mainVars, pc, status, cmds, outbox, statusVars, filterVars,
                 workerVars, channel, consumerVars, boundVars>>

-----------------------------------------------------------------------------
(* Results of a range, as producer, filter and consumer read them.          *)

Range2(f, t) == [from |-> f, to |-> t]
Result(br) == [range |-> br, blocks |-> {}, last |-> NoBlock, previous |-> NoBlock]
Synced == Result(Range2(0, 0))   \* the control package eventProducerIsFullySynced

Numbers(r) == {b.num : b \in r.blocks \cup {r.last}}

\* getHighestBlockNumberInResponse
Highest(r) == IF r.range.to # Latest THEN r.range.to ELSE Max(Numbers(r))

\* getHighestBlockReceived; NoBlock when there is none.
HighestReceived(r) ==
  IF r.last # NoBlock \/ r.blocks = {} THEN r.last
  ELSE CHOOSE b \in r.blocks : b.num = Max(Numbers(r))

-----------------------------------------------------------------------------
(* Workers: LAST, Rollup, PREVIOUS, in this order.                          *)

IdleWorker == [at |-> "idle", result |-> Synced, unsafe |-> FALSE]

\* The answer is on its way and the worker is idle again.
Answer(w, r, ok) ==
  /\ responses' = Append(responses, [result |-> r, ok |-> ok])
  /\ worker' = [worker EXCEPT ![w] = IdleWorker]

FillLastBlock(w) ==
  LET r == worker[w].result IN
  /\ worker[w].at = "last"
  /\ worker' = [worker EXCEPT ![w].at = "rollup",
                              ![w].result.last = IF worker[w].unsafe /\ r.range.to # Latest
                                                 THEN BlockAt(r.range.to) ELSE NoBlock]
  /\ UNCHANGED <<responses, boundVars>>

FillRollup(w) ==
  LET r == worker[w].result
      B == EventBlocks(r.range.from, r.range.to)
      needsLast == r.last = NoBlock /\ B = {} /\ r.range.to # Latest
  IN
  /\ worker[w].at = "rollup"
  /\ worker' = [worker EXCEPT ![w].at = "previous",
                              ![w].result.blocks = B,
                              ![w].result.last = IF needsLast THEN BlockAt(r.range.to) ELSE r.last]
  /\ UNCHANGED <<responses, boundVars>>

FillPreviousBlock(w) ==
  LET r == worker[w].result
      p == IF worker[w].unsafe /\ r.range.from > 2 THEN BlockAt(r.range.from - 1) ELSE NoBlock
  IN
  /\ worker[w].at = "previous"
  /\ Answer(w, [r EXCEPT !.previous = p], TRUE)
  /\ UNCHANGED boundVars

RequestFails(w) ==
  /\ worker[w].at # "idle"
  /\ failures < deployment.failures
  /\ failures' = failures + 1
  /\ Answer(w, Result(worker[w].result.range), FALSE)
  /\ UNCHANGED storeErrors

Work(w) ==
  /\ FillLastBlock(w) \/ FillRollup(w) \/ FillPreviousBlock(w) \/ RequestFails(w)
  /\ UNCHANGED <<l1Vars, db, mainVars, pc, status, cmds, outbox, statusVars, filterVars,
                 channel, consumerVars>>

-----------------------------------------------------------------------------
(* syncStatus.                                                              *)

\* BlockNumberIsInsideUnsafeArea; the difference is unsigned.
InsideUnsafeArea(n, lastL1) == n <= lastL1 /\ lastL1 - n < UnsafeDistance
HaveRequiredAll == lastBlockOnL1 <= highestRequested
FullySynchronized(lastL1) ==
  lastL1 # 0 /\ lastL1 <= highestRequested /\ errors = <<>> /\ processing = {}

\* getNextRangeOnlyRetriesUnsafe: an error of a range up to the latest block is
\* dropped, any other is the next range.
Drops(errs) == errs # <<>> /\ errs[1].to = Latest
ErrorsLeft(errs) == IF Drops(errs) THEN Tail(errs) ELSE errs

\* Mutant: the next range starts with the last block.
NextBlockRangeAt(last, lastL1) ==
  LET to == Min({lastL1, last + Amount}) IN
  Range2(last, IF to = lastL1 THEN Latest ELSE to)

\* getNextBlockRangeFromUnsafe
NextBlockRangeFrom(last, lastL1) ==
  LET to == Min({lastL1, last + 1 + Amount}) IN
  Range2(last + 1, IF to = lastL1 THEN Latest ELSE to)

\* GetNextRange, or GetNextRangeOnlyRetries when no new ranges are allowed; st has
\* the parts of syncStatus that change while work is launched.
NextRanges(st, lastL1, allowNew) ==
  LET live == Max({0} \cup {r.to : r \in st.processing \cup ToSet(ErrorsLeft(st.errors))}) IN
  IF st.errors # <<>> /\ ~Drops(st.errors) THEN {st.errors[1]}
  ELSE IF allowNew /\ lastL1 # 0 /\ lastL1 > st.requested /\ live # Latest
       THEN {NextBlockRangeFrom(Max({lastStored, live}), lastL1)}
       ELSE {}

Overlaps(R, br) == \E r \in R : r.from <= br.to /\ br.from <= r.to

-----------------------------------------------------------------------------
(* The producer.                                                            *)

otherVars == <<l1Vars, db, mainVars, consumerVars, boundVars>>

\* resetUnsafe.  Neither are the workers stopped nor the errors forgotten.
ExecuteCmd ==
  /\ pc = "select" /\ cmds # <<>>
  /\ LET n == cmds[1] IN
     /\ lastStored' = n /\ highestRequested' = n /\ processing' = {}
     /\ filterLast' = n /\ pending' = <<>>
  /\ cmds' = Tail(cmds)
  /\ channel' = <<>>
  /\ status' = "reseting" /\ pc' = "reset"
  /\ UNCHANGED <<otherVars, outbox, lastBlockOnL1, errors, workerVars>>

StepTimeout ==
  /\ pc = "select"
  /\ pc' = "status"
  /\ UNCHANGED <<otherVars, status, cmds, outbox, statusVars, filterVars, workerVars, channel>>

\* sendResultIfPossibleUnsafe: results leave the filter as long as one of them
\* starts right after the last block that left.
ReleaseOne(f, r) ==
  LET M == {i \in DOMAIN f.pending : f.pending[i].range.from = f.last + 1} IN
  IF M = {} THEN f
  ELSE LET sent == f.pending[Min(M)] IN
       [last    |-> IF Highest(sent) = 0 THEN f.last ELSE Highest(sent),
        pending |-> RemoveAt(f.pending, Min(M)),
        out     |-> Append(f.out, sent)]

\* Mutant: one result at most leaves the filter.
FilteredOnce(r) ==
  ReleaseOne([last |-> filterLast, pending |-> Append(pending, r), out |-> <<>>], r)

Filtered(r) ==
  LET P == Append(pending, r) IN
  FoldLeft(ReleaseOne, [last |-> filterLast, pending |-> P, out |-> <<>>], P)

\* onResponseRollupInfo, OnFinishWorker.  A range that is not being processed is
\* ignored; log.Fatal when an error overlaps another.
OnResponseRollupInfo ==
  LET r == responses[1].result
      f == Filtered(r)
  IN
  /\ pc = "select" /\ responses # <<>>
  /\ responses' = Tail(responses)
  /\ \/ /\ status = "reseting" \/ r.range \notin processing
        /\ pc' = "status"
        /\ UNCHANGED <<outbox, statusVars, filterVars>>
     \/ /\ status # "reseting" /\ r.range \in processing /\ responses[1].ok
        /\ processing' = processing \ {r.range}
        /\ lastStored' = Max({lastStored, Highest(r)})
        /\ filterLast' = f.last /\ pending' = f.pending /\ outbox' = f.out
        /\ pc' = IF f.out = <<>> THEN "status" ELSE "send"
        /\ UNCHANGED <<highestRequested, lastBlockOnL1, errors>>
     \/ /\ status # "reseting" /\ r.range \in processing /\ ~responses[1].ok
        /\ processing' = processing \ {r.range}
        /\ errors' = Append(errors, r.range)
        /\ pc' = IF Overlaps(ToSet(errors), r.range) THEN "fatal" ELSE "status"
        /\ UNCHANGED <<outbox, lastStored, highestRequested, lastBlockOnL1, filterVars>>
  /\ UNCHANGED <<otherVars, status, cmds, worker, channel>>

\* sendPackages: blocks while the channel is full.
SendPackage ==
  /\ pc \in {"send", "sendSynced"} /\ Len(channel) < Capacity
  /\ channel' = Append(channel, outbox[1])
  /\ outbox' = Tail(outbox)
  /\ pc' = CASE Len(outbox) > 1 -> pc
             [] pc = "send"     -> "status"
             [] OTHER           -> "select"
  /\ UNCHANGED <<otherVars, status, cmds, statusVars, filterVars, workerVars>>

\* renewLastBlockOnL1IfNeeded: the time to live may be over; never backwards.
MayRenew ==
  \/ UNCHANGED lastBlockOnL1
  \/ lastBlockOnL1' = Max({lastBlockOnL1, Len(chain)})

\* launchWork: the next ranges go to the idle workers, in their order; when none is
\* left the next range is asked for once more.
LaunchTo(lastL1, allowNew, st, w) ==
  LET next == NextRanges(st, lastL1, allowNew)
      br   == CHOOSE r \in next : TRUE
  IN
  IF ~st.more \/ (w # 0 /\ worker[w].at # "idle") THEN st
  ELSE IF w = 0 \/ next = {}
       THEN [st EXCEPT !.errors = ErrorsLeft(@), !.more = FALSE]
       ELSE [st EXCEPT
               !.worker[w] = [at |-> "last", result |-> Result(br),
                              unsafe |-> InsideUnsafeArea(br.from, lastL1)],
               !.errors = SelectSeq(ErrorsLeft(@), LAMBDA e : e # br),
               !.processing = @ \cup {br},
               !.requested = IF br.to = Latest THEN lastL1 ELSE Max({@, br.to}),
               !.fatal = @ \/ Overlaps(st.processing, br)]

\* The one outcome, as a set.
LaunchedWork(lastL1) ==
  LET allowNew == Len(pending) + Len(channel) <= Capacity IN
  FoldLeft(LAMBDA outcome, w : {LaunchTo(lastL1, allowNew, st, w) : st \in outcome},
           {[worker |-> worker, errors |-> errors, processing |-> processing,
             requested |-> highestRequested, more |-> TRUE, fatal |-> FALSE]},
           [i \in 1 .. NumWorkers + 1 |-> i % (NumWorkers + 1)])

\* OnStartedNewWorker ends the process when ranges overlap.
LaunchWork(lastL1, next) ==
  \E st \in LaunchedWork(lastL1) :
    /\ worker' = st.worker /\ errors' = st.errors /\ processing' = st.processing
    /\ highestRequested' = st.requested
    /\ pc' = CASE st.fatal -> "fatal"
               [] next = "setWorking" /\ st.worker = worker -> "select"
               [] OTHER -> next

statusRest == <<otherVars, cmds, lastStored, filterVars, responses, channel>>

StatusIdle ==
  /\ pc = "status" /\ status = "idle"
  /\ MayRenew
  /\ pc' = IF lastBlockOnL1' # 0 /\ lastStored # 0 THEN "setWorking" ELSE "select"
  /\ UNCHANGED <<statusRest, status, outbox, highestRequested, processing, errors, worker>>

StatusWorking ==
  /\ pc = "status" /\ status = "working"
  /\ LaunchWork(lastBlockOnL1, "renew")
  /\ UNCHANGED <<statusRest, status, outbox, lastBlockOnL1>>

\* The rest of the working step.  setStatus tells the consumer when the producer
\* gets synchronized.
RenewAndCheck ==
  /\ pc = "renew"
  /\ IF HaveRequiredAll \/ InsideUnsafeArea(highestRequested, lastBlockOnL1)
       THEN MayRenew ELSE UNCHANGED lastBlockOnL1
  /\ IF FullySynchronized(lastBlockOnL1')
       THEN /\ status' = "synchronized" /\ outbox' = <<Synced>> /\ pc' = "sendSynced"
            /\ UNCHANGED <<highestRequested, processing, errors, worker>>
       ELSE LaunchWork(lastBlockOnL1', "select") /\ UNCHANGED <<status, outbox>>
  /\ UNCHANGED statusRest

StatusSynchronized ==
  /\ pc = "status" /\ status = "synchronized"
  /\ MayRenew
  /\ LaunchWork(lastBlockOnL1', "setWorking")
  /\ UNCHANGED <<statusRest, status, outbox>>

StatusReseting ==
  /\ pc = "status" /\ status = "reseting"
  /\ pc' = "select"
  /\ UNCHANGED <<statusRest, status, outbox, statusVars, worker>>

\* setStatus overwrites whatever a concurrent Reset has set.
SetStatus ==
  /\ pc \in {"reset", "setWorking"}
  /\ status' = IF pc = "reset" THEN "idle" ELSE "working"
  /\ pc' = IF pc = "reset" THEN "status" ELSE "select"
  /\ UNCHANGED <<statusRest, outbox, statusVars, worker>>

Producer ==
  \/ ExecuteCmd \/ StepTimeout \/ OnResponseRollupInfo \/ SendPackage
  \/ StatusIdle \/ StatusWorking \/ RenewAndCheck \/ StatusSynchronized
  \/ StatusReseting \/ SetStatus

-----------------------------------------------------------------------------
(* The consumer.                                                            *)

consumerRest == <<l1Vars, mainVars, pc, status, cmds, outbox, statusVars, filterVars,
                  workerVars, failures>>

\* step: a control package, or a range that is not the next one, which is ignored.
ConsumerSkips ==
  LET m == channel[1] IN
  /\ consumer = "run" /\ channel # <<>>
  /\ m = Synced \/ (highest # 0 /\ highest + 1 # m.range.from)
  /\ channel' = Tail(channel)
  /\ consumer' = IF m = Synced /\ Len(channel) = 1 THEN "done" ELSE "run"
  /\ UNCHANGED <<consumerRest, db, highest, received, lastSynced, storeErrors>>

\* checkPreviousBlocks
PreviousDiffers(m) ==
  received # NoBlock /\ m.previous.num = received.num /\ m.previous # received

\* The blocks ProcessBlockRange is called with.
ToStore(m) == InOrder(IF m.blocks = {} THEN {m.last} \ {NoBlock} ELSE m.blocks)

Known(m) == {b.num : b \in ToSet(ToStore(m))} \cap {b.num : b \in ToSet(db)} # {}

Rejects(m) ==
  /\ PreviousDiffers(m)
  /\ consumer' = "error"
  /\ UNCHANGED <<db, received, lastSynced, storeErrors>>

Stores(m) ==
  /\ ~PreviousDiffers(m) /\ ~Known(m)
  /\ received' = HighestReceived(m)
  /\ db' = db \o ToStore(m)
  /\ lastSynced' = IF ToStore(m) = <<>> THEN lastSynced ELSE Last(ToStore(m))
  /\ UNCHANGED <<consumer, storeErrors>>

\* Mutant: the blocks after it are stored, and the error is not returned.
StoreFailsSilently(m) ==
  /\ ~PreviousDiffers(m)
  /\ received' = HighestReceived(m)
  /\ \/ Known(m) /\ UNCHANGED <<db, storeErrors>>
     \/ /\ ~Known(m)
        /\ storeErrors < deployment.storeErrors
        /\ storeErrors' = storeErrors + 1
        /\ \E k \in DOMAIN ToStore(m) : db' = db \o RemoveAt(ToStore(m), k)
  /\ lastSynced' = IF ToStore(m) = <<>> THEN lastSynced ELSE Last(ToStore(m))
  /\ UNCHANGED consumer

\* A block that is already there fails, and any other may; the ones before it stay.
StoreFails(m) ==
  /\ ~PreviousDiffers(m)
  /\ received' = HighestReceived(m)
  /\ \/ Known(m) /\ UNCHANGED <<db, storeErrors>>
     \/ /\ ~Known(m)
        /\ storeErrors < deployment.storeErrors
        /\ storeErrors' = storeErrors + 1
        /\ \E k \in 0 .. Len(ToStore(m)) - 1 : db' = db \o SubSeq(ToStore(m), 1, k)
  /\ consumer' = "error"
  /\ UNCHANGED lastSynced

\* processIncommingRollupInfoData; every block is stored in a transaction of its own.
ConsumerProcesses ==
  LET m == channel[1] IN
  /\ consumer = "run" /\ channel # <<>> /\ m # Synced
  /\ highest = 0 \/ highest + 1 = m.range.from
  /\ channel' = Tail(channel)
  /\ highest' = Highest(m)
  /\ Rejects(m) \/ Stores(m) \/ StoreFails(m)
  /\ UNCHANGED consumerRest

-----------------------------------------------------------------------------
(* The loop of the synchronizer and the orchestration.                      *)

mainRest == <<l1Vars, lastStored, highestRequested, lastBlockOnL1, processing, errors,
              filterVars, workerVars, outbox, received>>

\* L1SyncOrchestration.Reset: of the consumer, and of the producer, which gets a
\* command and whose channel is emptied.
Reset(n) ==
  /\ highest' = n /\ lastSynced' = NoBlock
  /\ status' = "reseting" /\ channel' = <<>> /\ cmds' = Append(cmds, n)

\* The last block of the state that is on L1 is where checkReorg ends.
GoodBlocks == {i \in DOMAIN db : OnChain(db[i]) \/ db[i].num <= Genesis}

\* checkReorg finds the last block on another fork: resetState.
ReorgDetected ==
  /\ main = "loop" /\ ~OnChain(synced)
  /\ LET n == Max(GoodBlocks) IN
     /\ db' = SubSeq(db, 1, n)
     /\ synced' = db[n]
     /\ Reset(db[n].num)
  /\ UNCHANGED <<mainRest, boundVars, main, pc, consumer>>

\* resetState fails: the orchestration is reset twice.
ResetStateFails ==
  /\ main = "loop" /\ ~OnChain(synced)
  /\ storeErrors < deployment.storeErrors
  /\ storeErrors' = storeErrors + 1
  /\ synced' = Last(db)
  /\ highest' = Last(db).num /\ lastSynced' = NoBlock
  /\ status' = "reseting" /\ channel' = <<>>
  /\ cmds' = cmds \o <<synced.num, Last(db).num>>
  /\ UNCHANGED <<mainRest, failures, db, main, pc, consumer>>

\* Start: the producer is launched the first time, the consumer every time.
StartOrchestration ==
  /\ main = "loop" /\ OnChain(synced)
  /\ main' = "wait"
  /\ consumer' = "run"
  /\ lastSynced' = synced
  /\ highest' = IF highest = 0 THEN synced.num ELSE highest
  /\ IF pc = "off"
       THEN pc' = "select" /\ status' = "idle" /\ cmds' = Append(cmds, synced.num)
       ELSE UNCHANGED <<pc, status, cmds>>
  /\ UNCHANGED <<mainRest, boundVars, db, synced, channel>>

\* orchestrate: the consumer is done, with a last block.
OrchestrationDone ==
  /\ main = "wait" /\ consumer = "done" /\ lastSynced # NoBlock
  /\ main' = "loop" /\ consumer' = "off"
  /\ synced' = lastSynced
  /\ UNCHANGED <<mainRest, boundVars, db, pc, status, cmds, channel, highest, lastSynced>>

\* Mutant: Sync goes on with the block it had.
OrchestrationFailsKeeps ==
  /\ main = "wait"
  /\ consumer = "error" \/ (consumer = "done" /\ lastSynced = NoBlock)
  /\ main' = "loop" /\ consumer' = "off"
  /\ Reset(synced.num)
  /\ UNCHANGED <<mainRest, boundVars, db, pc, synced>>

\* It failed: Sync resets to the last block of the state.
OrchestrationFails ==
  /\ main = "wait"
  /\ consumer = "error" \/ (consumer = "done" /\ lastSynced = NoBlock)
  /\ main' = "loop" /\ consumer' = "off"
  /\ synced' = Last(db)
  /\ Reset(Last(db).num)
  /\ UNCHANGED <<mainRest, boundVars, db, pc>>

Main ==
  \/ ReorgDetected \/ ResetStateFails \/ StartOrchestration
  \/ OrchestrationDone \/ OrchestrationFails

-----------------------------------------------------------------------------

FirstBlock == [num |-> Genesis, fork |-> 0]

Init ==
  /\ deployment \in Deployments
  /\ \E e \in [Genesis + 1 .. deployment.start -> BOOLEAN] :
       chain = [n \in 1 .. deployment.start |->
                  [fork |-> 0, event |-> IF n > Genesis THEN e[n] ELSE n = Genesis]]
  /\ reorgs = 0
  /\ db = <<FirstBlock>>
  /\ main = "loop" /\ synced = FirstBlock
  /\ pc = "off" /\ status = "norunning" /\ cmds = <<>> /\ outbox = <<>>
  /\ lastStored = 0 /\ highestRequested = 0 /\ lastBlockOnL1 = 0
  /\ processing = {} /\ errors = <<>>
  /\ filterLast = 0 /\ pending = <<>>
  /\ worker = [w \in Workers |-> IdleWorker] /\ responses = <<>>
  /\ channel = <<>>
  /\ consumer = "off" /\ highest = 0 /\ received = NoBlock /\ lastSynced = NoBlock
  /\ failures = 0 /\ storeErrors = 0

Next ==
  /\ \/ Mine \/ Reorg
     \/ \E w \in Workers : Work(w)
     \/ Producer \/ ConsumerSkips \/ ConsumerProcesses \/ Main
  /\ UNCHANGED deployment

Spec == Init /\ [][Next]_vars

\* The goroutines run; select takes every case that is ready again and again, the
\* time to live of the last block runs out, and L1 answers.
Renews ==
  /\ StatusIdle \/ RenewAndCheck \/ StatusSynchronized
  /\ lastBlockOnL1' = Max({lastBlockOnL1, Len(chain)})

FairSpec ==
  /\ Spec
  /\ WF_syncVars(Producer) /\ WF_syncVars(Main \/ ConsumerSkips \/ ConsumerProcesses)
  /\ SF_syncVars(ExecuteCmd \/ OnResponseRollupInfo) /\ SF_syncVars(Renews)
  /\ WF_syncVars(\E w \in Workers : Work(w))

-----------------------------------------------------------------------------
(* Properties.                                                              *)

Ranges == [from : 0 .. MaxBlock + 1, to : 0 .. MaxBlock \cup {Latest}]
Results == [range : Ranges, blocks : SUBSET Blocks, last : Blocks, previous : Blocks]

\* The variables have their types, the channel to the consumer never holds more than
\* its capacity, and the results that wait in the filter are bounded by its back
\* pressure: new ranges are asked for only while results in filter and channel are
\* not more than the capacity.
TypeOK ==
  /\ chain \in Seq([fork : 0 .. reorgs, event : BOOLEAN]) /\ Len(chain) <= MaxBlock
  /\ db \in Seq(Blocks) /\ db # <<>>
  /\ main \in {"loop", "wait"} /\ synced \in Blocks
  /\ pc \in {"off", "select", "reset", "status", "setWorking", "renew", "send", "sendSynced",
             "fatal"}
  /\ status \in {"norunning", "idle", "working", "synchronized", "reseting"}
  /\ cmds \in Seq(Nat) /\ outbox \in Seq(Results)
  /\ {lastStored, highestRequested, lastBlockOnL1, filterLast, highest} \subseteq 0 .. MaxBlock
  /\ processing \subseteq Ranges /\ errors \in Seq(Ranges)
  /\ pending \in Seq(Results) /\ Len(pending) <= Capacity + NumWorkers
  /\ channel \in Seq(Results) /\ Len(channel) <= Capacity
  /\ \A w \in Workers : worker[w].at \in {"idle", "last", "rollup", "previous"}
  /\ consumer \in {"off", "run", "done", "error"}
  /\ {received, lastSynced} \subseteq Blocks

\* As long as L1 does not reorganize, the state has the blocks of L1 in their order
\* and, up to its last block, misses none with an event: whatever the order of the
\* workers' answers, the requests and stores that fail, and the answers of before a
\* reset that come after it (filter, the consumer's check of the range, resetUnsafe).
\* The block Sync compares with L1 is the last one of the state: checkReorg walks back
\* by its depth from the last block of the state, not from the one it was given.
NothingSkipped ==
  /\ TypeOK
  /\ main = "loop" => synced = Last(db)
  /\ reorgs = 0 =>
       /\ \A i \in DOMAIN db : OnChain(db[i])
       /\ \A i, j \in DOMAIN db : i < j => db[i].num < db[j].num
       /\ EventBlocks(Genesis, Last(db).num) \subseteq ToSet(db)

\* The process does not end with log.Fatal in syncStatus: no range that is handed to
\* a worker overlaps one that is being processed, and no failed range another one
\* (OnStartedNewWorker, OnFinishWorker).
NeverFatal == pc # "fatal"

\* When the last block of the state is on L1, all are: checkReorg, which compares only
\* the last block, has nothing to find.  It fails: the first block of a range can be
\* one more than lastBlockOnL1, the distance between them wraps around, and the range
\* counts as safe, so that the block before it is not asked for and a reorg since the
\* range before it goes unseen.
OneChain ==
  OnChain(Last(db)) => \A i \in DOMAIN db : OnChain(db[i])

Stored == EventBlocks(Genesis, Len(chain)) \subseteq ToSet(db)

\* Without reorgs and failures, all blocks with events get stored: no result stays in
\* the filter, the channel or a worker, and the producer never believes it is
\* synchronized while blocks are missing.
AllStored ==
  deployment.reorgs + deployment.failures + deployment.storeErrors = 0 => <>[]Stored
=============================================================================
