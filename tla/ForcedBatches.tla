---------------------------- MODULE ForcedBatches ----------------------------
(***************************************************************************)
(* Forced batches in the sequencer: the closing signals manager finds them *)
(* in the synchronized state, the finalizer's listener queues them and     *)
(* sets a deadline, and closing a batch processes the queue                *)
(* (sequencer/closingsignalsmanager.go, finalizer.go, forcedbatch.go and   *)
(* closeAndOpenNewWIPBatch of batch.go).                                   *)
(*                                                                         *)
(* Forced batch n is its number.  A batch of the state is kept by what     *)
(* matters here: the forced batch it holds, whether it is closed, the L1   *)
(* block it was executed with, and whether its L2 blocks are stored.       *)
(***************************************************************************)
EXTENDS Integers, Sequences, FiniteSets, Functions

CONSTANTS
  BlockNumber,   \* the L1 block of each forced batch 1 .. k, non-decreasing
  Finality,      \* ForcedBatchesFinalityNumberOfBlocks
  MaxL1Block,    \* bound: L1 blocks synchronized
  Deployments    \* what a sequencer may meet (see below)

Forced == DOMAIN BlockNumber

\* withTxs: the forced batches whose execution returns L2 blocks; execErrors: may
\* the executor fail on a forced batch; closes, crashes: bounds on the batches
\* closed for other reasons than a deadline and on the restarts.
ASSUME ConstantsAssumption ==
  /\ BlockNumber \in Seq(1 .. MaxL1Block)
  /\ \A i, j \in Forced : i < j => BlockNumber[i] <= BlockNumber[j]
  /\ Finality \in Nat /\ MaxL1Block \in Nat
  /\ \A d \in Deployments :
       /\ d.withTxs \subseteq Forced /\ d.execErrors \in BOOLEAN
       /\ {d.closes, d.crashes} \subseteq Nat

VARIABLES
  deployment,              \* the one of Deployments this sequencer is in
  l1Block,                 \* the last L1 block the synchronizer stored
  batches,                 \* state.batch, by batch number
  toSend, lastSent,        \* closingSignalsManager: its query, lastForcedBatchNumSent
  received,                \* listenForClosingSignals: a forced batch in hand, 0: none
  nextForcedBatches, deadline,
  pc, last, next, pos,     \* the finalizer's loop and the locals of processForcedBatches
  closes, crashes

managerVars == <<toSend, lastSent>>
listVars == <<nextForcedBatches, deadline>>
loopVars == <<pc, last, next, pos>>
sequencerVars == <<l1Block, batches, managerVars, received, listVars, loopVars,
                   closes, crashes>>
vars == <<deployment, sequencerVars>>

WithTxs == deployment.withTxs
ExecErrors == deployment.execErrors
MaxCloses == deployment.closes
MaxCrashes == deployment.crashes

Batch(n, l1, stored) == [forced |-> n, closed |-> n # 0, l1 |-> l1, stored |-> stored]
WIPBatch == Batch(0, 0, TRUE)
LastBatch == batches[Len(batches)]

\* GetLastTrustedForcedBatchNumber
LastForced(bs) == LET held == {bs[i].forced : i \in DOMAIN bs}
                  IN  CHOOSE n \in held : \A m \in held : m <= n
LastTrusted == LastForced(batches)

MaxBlockNumber == IF Finality <= l1Block THEN l1Block - Finality ELSE 0

\* GetForcedBatchesSince, in ascending order.
ForcedBatchesSince(n) ==
  LET found == {m \in Forced : m > n /\ BlockNumber[m] <= MaxBlockNumber}
  IN  CHOOSE s \in [1 .. Cardinality(found) -> found] :
        \A i, j \in DOMAIN s : i < j => s[i] < s[j]

-----------------------------------------------------------------------------
SyncL1Block ==
  /\ l1Block < MaxL1Block
  /\ l1Block' = l1Block + 1
  /\ UNCHANGED <<batches, managerVars, received, listVars, loopVars, closes, crashes>>

\* checkForcedBatches: one round of queries ...
CheckForcedBatches ==
  LET since == IF lastSent = 0 THEN LastTrusted ELSE lastSent IN
  /\ toSend = <<>> /\ pc # "down"
  /\ lastSent' = since
  /\ toSend' = ForcedBatchesSince(since)
  /\ UNCHANGED <<l1Block, batches, received, listVars, loopVars, closes, crashes>>

\* ... and a send on the unbuffered channel, which the listener receives.
SendForcedBatch ==
  /\ toSend # <<>> /\ received = 0 /\ pc # "down"
  /\ received' = Head(toSend)
  /\ lastSent' = Head(toSend)
  /\ toSend' = Tail(toSend)
  /\ UNCHANGED <<l1Block, batches, listVars, loopVars, closes, crashes>>

SortForcedBatches(s) ==
  LET p == CHOOSE p \in Bijection(DOMAIN s, DOMAIN s) :
             \A i, j \in DOMAIN s : i < j => s[p[i]] <= s[p[j]]
  IN  [i \in DOMAIN s |-> s[p[i]]]

\* nextForcedBatchesMux is held all through processForcedBatches.
Locked == pc = "forced"


ListenForClosingSignals ==
  /\ received # 0 /\ ~Locked /\ pc # "down"
  /\ nextForcedBatches' = SortForcedBatches(Append(nextForcedBatches, received))
  /\ deadline' = TRUE
  /\ received' = 0
  /\ UNCHANGED <<l1Block, batches, managerVars, loopVars, closes, crashes>>

\* Mutant: the next forced batch is taken to be the first of the list.
CloseBatchFromHead ==
  /\ batches' = [batches EXCEPT ![Len(batches)].closed = TRUE]
  /\ last' = Len(batches) /\ pos' = 1 /\ deadline' = FALSE
  /\ next' = IF nextForcedBatches # <<>> THEN Head(nextForcedBatches) ELSE 0
  /\ pc' = IF nextForcedBatches # <<>> THEN "forced" ELSE "open"
  /\ UNCHANGED <<l1Block, managerVars, received, nextForcedBatches, crashes>>

\* closeAndOpenNewWIPBatch up to and including the start of processForcedBatches.
CloseBatch ==
  /\ batches' = [batches EXCEPT ![Len(batches)].closed = TRUE]
  /\ last' = Len(batches)
  /\ next' = LastTrusted + 1
  /\ pos' = 1
  /\ IF nextForcedBatches # <<>>
       THEN pc' = "forced" /\ deadline' = FALSE
       ELSE pc' = "open" /\ UNCHANGED deadline
  /\ UNCHANGED <<l1Block, managerVars, received, nextForcedBatches, crashes>>

\* isDeadlineEncountered
ForcedBatchDeadline == pc = "run" /\ deadline /\ CloseBatch /\ UNCHANGED closes

OtherReasonToClose ==
  /\ pc = "run" /\ closes < MaxCloses
  /\ CloseBatch /\ closes' = closes + 1

Pending == pos <= Len(nextForcedBatches)

SkipProcessed ==
  /\ pc = "forced" /\ Pending /\ nextForcedBatches[pos] < next
  /\ pos' = pos + 1
  /\ UNCHANGED <<l1Block, batches, managerVars, received, listVars, pc, last, next,
                 closes, crashes>>

\* The forced batch to process: for a gap in the list, the missing one.
ToProcess == IF nextForcedBatches[pos] > next THEN next ELSE nextForcedBatches[pos]

\* GetBlockByNumber is called with the number of the forced batch.
L1BlockOf(n) == n

\* Mutant: the number of the new batch is not returned.
ProcessForcedBatchOldNumber ==
  LET n == ToProcess IN
  /\ pc = "forced" /\ Pending /\ nextForcedBatches[pos] >= next
  /\ batches' = Append(batches, Batch(n, L1BlockOf(n), TRUE))
  /\ next' = next + 1 /\ pos' = pos + 1
  /\ UNCHANGED <<l1Block, managerVars, received, listVars, pc, last, closes, crashes>>

\* processForcedBatch: open, execute, close and commit the batch.  When the
\* execution returned L2 blocks, the committed transaction is used to store
\* them, and the old batch number is returned with an error, whatever comes of it.
ProcessForcedBatch ==
  LET n == ToProcess IN
  /\ pc = "forced" /\ Pending /\ nextForcedBatches[pos] >= next
  /\ L1BlockOf(n) <= l1Block
  /\ batches' = Append(batches, Batch(n, L1BlockOf(n), n \notin WithTxs))
  /\ IF n \in WithTxs
       THEN pc' = "open" /\ UNCHANGED <<last, next, pos>>
       ELSE /\ last' = last + 1 /\ next' = next + 1 /\ pos' = pos + 1
            /\ UNCHANGED pc
  /\ UNCHANGED <<l1Block, managerVars, received, listVars, closes, crashes>>

\* Mutant: the list is cleared after an error too.
ProcessForcedBatchFailsClears ==
  /\ pc = "forced" /\ Pending /\ nextForcedBatches[pos] >= next
  /\ ExecErrors
  /\ pc' = "open" /\ nextForcedBatches' = <<>>
  /\ UNCHANGED <<l1Block, batches, managerVars, received, deadline, last, next, pos,
                 closes, crashes>>

\* The L1 block is not found or the executor fails: the rest of the list is kept.
ProcessForcedBatchFails ==
  /\ pc = "forced" /\ Pending /\ nextForcedBatches[pos] >= next
  /\ ExecErrors \/ L1BlockOf(ToProcess) > l1Block
  /\ pc' = "open"
  /\ UNCHANGED <<l1Block, batches, managerVars, received, listVars, last, next, pos,
                 closes, crashes>>

ForcedBatchesProcessed ==
  /\ pc = "forced" /\ ~Pending
  /\ nextForcedBatches' = <<>>
  /\ pc' = "open"
  /\ UNCHANGED <<l1Block, batches, managerVars, received, deadline, last, next, pos,
                 closes, crashes>>

\* openNewWIPBatch; a number that does not follow the last batch is an error,
\* after which finalizeBatch has no WIP batch and panics.
OpenNewWIPBatch ==
  /\ pc = "open"
  /\ IF last = Len(batches)
       THEN batches' = Append(batches, WIPBatch) /\ pc' = "run"
       ELSE UNCHANGED batches /\ pc' = "down"
  /\ UNCHANGED <<l1Block, managerVars, received, listVars, last, next, pos, closes,
                 crashes>>

Restart ==
  /\ pc = "down" \/ crashes < MaxCrashes
  /\ crashes' = IF pc = "down" THEN crashes ELSE crashes + 1
  /\ batches' = IF LastBatch.closed THEN Append(batches, WIPBatch) ELSE batches
  /\ toSend' = <<>> /\ lastSent' = 0 /\ received' = 0
  /\ nextForcedBatches' = <<>> /\ deadline' = FALSE
  /\ pc' = "run" /\ last' = 0 /\ next' = 0 /\ pos' = 1
  /\ UNCHANGED <<l1Block, closes>>

Init ==
  /\ deployment \in Deployments
  /\ l1Block = 0
  /\ batches = <<WIPBatch>>
  /\ toSend = <<>> /\ lastSent = 0 /\ received = 0
  /\ nextForcedBatches = <<>> /\ deadline = FALSE
  /\ pc = "run" /\ last = 0 /\ next = 0 /\ pos = 1
  /\ closes = 0 /\ crashes = 0

Manager == CheckForcedBatches \/ SendForcedBatch
Loop ==
  \/ SkipProcessed \/ ProcessForcedBatch \/ ProcessForcedBatchFails
  \/ ForcedBatchesProcessed \/ OpenNewWIPBatch

Next ==
  /\ \/ SyncL1Block \/ Manager \/ ListenForClosingSignals
     \/ ForcedBatchDeadline \/ OtherReasonToClose \/ Loop \/ Restart
  /\ UNCHANGED deployment

Spec == Init /\ [][Next]_vars

\* The goroutines run, and the finalizer's loop notices a deadline.
FairSpec ==
  /\ Spec
  /\ WF_sequencerVars(SyncL1Block)
  /\ WF_sequencerVars(CheckForcedBatches) /\ WF_sequencerVars(SendForcedBatch)
  /\ WF_sequencerVars(ListenForClosingSignals)
  /\ WF_sequencerVars(ForcedBatchDeadline) /\ WF_sequencerVars(Loop)

-----------------------------------------------------------------------------
(* Properties.                                                              *)

\* The state has its shape: all batches but the WIP batch are closed, and the
\* list the listener keeps sorted is sorted.
TypeOK ==
  /\ l1Block \in 0 .. MaxL1Block
  /\ \A i \in DOMAIN batches : batches[i].closed \/ i = Len(batches)
  /\ pc = "run" => ~LastBatch.closed
  /\ nextForcedBatches \in Seq(Forced)
  /\ \A i \in 1 .. Len(nextForcedBatches) - 1 :
       nextForcedBatches[i] <= nextForcedBatches[i + 1]
  /\ received \in Forced \cup {0} /\ lastSent \in Forced \cup {0}

\* Forced batches enter the trusted state once each and in their L1 order, in
\* spite of restarts, of lists that are kept after an error and of batches that
\* are sent again.
ForcedInOrder ==
  /\ TypeOK
  /\ \A j \in DOMAIN batches : batches[j].forced # 0 =>
       /\ \A i \in 1 .. j - 1 : batches[i].forced < batches[j].forced
       /\ \A n \in 1 .. batches[j].forced - 1 : \E i \in 1 .. j - 1 : batches[i].forced = n

\* A forced batch the manager will not send again is in the state, in the list
\* or in the listener's hand; and the finalizer goes on, unless a forced batch with txs
\* was processed last: its number is not returned and no WIP batch can be opened.
NoneLost ==
  /\ pc # "down" =>
       \A n \in 1 .. lastSent :
         n <= LastTrusted \/ n \in Range(nextForcedBatches) \/ n = received
  /\ pc = "down" => LastBatch.forced \in WithTxs


=============================================================================
