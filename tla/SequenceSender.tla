--------------------------- MODULE SequenceSender ---------------------------
(***************************************************************************)
(* The sequence sender (sequencesender/) composed with the transaction     *)
(* manager, of which it uses only the promise MonitoredTxs, with the       *)
(* sequencer that closes batches, with the rollup contract and with the    *)
(* synchronizer that stores what the contract sequenced.                   *)
(*                                                                         *)
(* A sequence is the pair of its first and last batch numbers, which is    *)
(* the identifier of its monitored transaction.  The contract is not told  *)
(* these numbers: it numbers the batches of a transaction after the last   *)
(* one it has.  Batch 1 is the initial batch, sequenced with the rollup.   *)
(***************************************************************************)
EXTENDS Naturals, Sequences, FiniteSets, FiniteSetsExt

CONSTANTS
  MaxBatch,      \* bound on the batches the sequencer opens
  Size,          \* Size[b]: the size of the data of batch b
  MaxTxSizeForL1,
  Unestimable,   \* batches for which the contract refuses the estimate
  Upgrades,      \* the values of ForkUpgradeBatchNumber (0: no upgrade)
  MaxEmpty,      \* bound on the L1 blocks without a sequence
  MaxFaults      \* bound on restarts and failed calls

Batches == 1 .. MaxBatch
SeqIds == {id \in Batches \X Batches : id[1] <= id[2]}

ASSUME ConstantsAssumption ==
  /\ MaxBatch \in Nat \ {0} /\ Size \in [Batches -> Nat] /\ MaxTxSizeForL1 \in Nat
  /\ Unestimable \subseteq Batches /\ Upgrades \subseteq Nat
  /\ MaxEmpty \in Nat /\ MaxFaults \in Nat

VARIABLES
  row, effects, l1, known,  \* the manager, the L1 and the state: see MonitoredTxs
  lastSeq,  \* lastSeq[b]: lastBatchSequenced of the contract at L1 block b
  closed,   \* number of closed batches
  wip,      \* is batch closed + 1 open?
  elapsed,  \* LastBatchVirtualizationTimeMaxWaitPeriod has passed
  upgrade,  \* ForkUpgradeBatchNumber
  pc,       \* where tryToSendSequence is
  first,    \* the first batch of the sequence being built
  cur,      \* currentBatchNumToSequence: the batches first .. cur - 1 are in
  faults    \* number of restarts and failed calls so far

Manager == INSTANCE MonitoredTxs WITH Ids <- SeqIds

managerVars == <<row, effects, l1, known>>
sequencerVars == <<closed, wip>>
senderVars == <<pc, first, cur>>
vars == <<managerVars, lastSeq, sequencerVars, elapsed, upgrade, senderVars, faults>>

-----------------------------------------------------------------------------
(* The rollup contract, the state and the sequencer.                       *)

Sequenced(block) == IF block = 0 THEN 1 ELSE lastSeq[block]
GetLatestBatchNumber == Sequenced(l1)         \* on the L1
GetLastVirtualBatchNum == Sequenced(known)    \* in the state
GetLastBatchNumber == IF wip THEN closed + 1 ELSE closed

\* sequenceBatches: the batches get the numbers after the last one.
TakeEffect(id) ==
  /\ Manager!TakeEffect(id)
  /\ lastSeq' = Append(lastSeq, GetLatestBatchNumber + (id[2] - id[1]) + 1)
  /\ UNCHANGED <<sequencerVars, elapsed, upgrade, senderVars, faults>>

OtherBlock ==
  /\ l1 - Cardinality(effects) < MaxEmpty
  /\ Manager!OtherBlock
  /\ lastSeq' = Append(lastSeq, GetLatestBatchNumber)
  /\ UNCHANGED <<sequencerVars, elapsed, upgrade, senderVars, faults>>

\* The synchronizer stores a block and its virtual batches in one transaction.
SyncBlock ==
  /\ Manager!Learn
  /\ elapsed' = (elapsed /\ Sequenced(known + 1) = Sequenced(known))
  /\ UNCHANGED <<lastSeq, sequencerVars, upgrade, senderVars, faults>>

Confirm(id) ==
  /\ Manager!Confirm(id)
  /\ UNCHANGED <<lastSeq, sequencerVars, elapsed, upgrade, senderVars, faults>>

\* The sequencer opens the next batch some time after it closed the last one.
OpenBatch ==
  /\ ~wip /\ closed < MaxBatch
  /\ wip' = TRUE
  /\ UNCHANGED <<managerVars, lastSeq, closed, elapsed, upgrade, senderVars, faults>>

CloseBatch ==
  /\ wip /\ closed + 1 < MaxBatch
  /\ wip' = FALSE /\ closed' = closed + 1
  /\ UNCHANGED <<managerVars, lastSeq, elapsed, upgrade, senderVars, faults>>

TimePasses ==
  /\ ~elapsed
  /\ elapsed' = TRUE
  /\ UNCHANGED <<managerVars, lastSeq, sequencerVars, upgrade, senderVars, faults>>

-----------------------------------------------------------------------------
(* tryToSendSequence.                                                      *)

Goto(label) == pc' = label /\ UNCHANGED <<first, cur>>

\* A call fails.
Fault == faults < MaxFaults /\ faults' = faults + 1
NoFault == UNCHANGED faults

\* The rows of the owner that are not done.
PendingRows == {id \in SeqIds : row[id] \in {"pending", "confirmed"}}

\* ProcessPendingMonitoredTxs sets a confirmed row to done ...
SetStatusDone(id) ==
  /\ pc = "pending"
  /\ Manager!Finish(id)
  /\ UNCHANGED <<lastSeq, sequencerVars, elapsed, upgrade, senderVars, faults>>

\* Mutant: a mined transaction is not waited for any longer.
ProcessPendingUntilMined ==
  /\ pc = "pending" /\ \A id \in PendingRows : Manager!Effective(id)
  /\ Goto("synced")
  /\ NoFault
  /\ UNCHANGED <<managerVars, lastSeq, sequencerVars, elapsed, upgrade>>

\* ... and returns when nothing of the owner is pending.
ProcessPendingMonitoredTxs ==
  /\ pc = "pending" /\ PendingRows = {}
  /\ Goto("synced")
  /\ NoFault
  /\ UNCHANGED <<managerVars, lastSeq, sequencerVars, elapsed, upgrade>>

\* isSynced: with batches left to sequence the L1 is not asked.
IsSynced ==
  /\ pc = "synced"
  /\ \/ GetLastBatchNumber > GetLastVirtualBatchNum /\ Goto("start") /\ NoFault
     \/ GetLastVirtualBatchNum >= GetLatestBatchNumber /\ Goto("start") /\ NoFault
     \/ /\ GetLastBatchNumber <= GetLastVirtualBatchNum
        /\ GetLastVirtualBatchNum < GetLatestBatchNumber
        /\ Goto("pending") /\ NoFault
     \/ Goto("pending") /\ Fault
  /\ UNCHANGED <<managerVars, lastSeq, sequencerVars, elapsed, upgrade>>

\* getSequencesToSend starts after the last virtual batch of the state.
Start ==
  /\ pc = "start"
  /\ \/ /\ pc' = "collect"
        /\ first' = GetLastVirtualBatchNum + 1
        /\ cur' = first'
        /\ NoFault
     \/ Goto("pending") /\ Fault
  /\ UNCHANGED <<managerVars, lastSeq, sequencerVars, elapsed, upgrade>>

\* EstimateGasSequenceBatches and the size check of its transaction: the
\* contract refuses an empty sequence.
TotalSize(from, to) == MapThenSumSet(LAMBDA b : Size[b], from .. to)
Estimates(from, to) ==
  from <= to /\ TotalSize(from, to) <= MaxTxSizeForL1 /\ (from .. to) \cap Unestimable = {}

\* Mutant: a sequence that became too big is given up.
WithoutLastGivesUp(from, to) == "pending"

\* handleEstimateGasSendSequenceErr and the second estimate: without batch cur
\* the sequence can be sent, unless nothing is left of it.
WithoutLast(from, to) == IF Estimates(from, to - 1) THEN "add" ELSE "pending"

\* Mutant: the batch after the upgrade is not looked at.
AtUpgradeNever(b) == FALSE

AtUpgrade(b) == upgrade # 0 /\ b = upgrade

\* One turn of the loop of getSequencesToSend, on batch cur.
Collect ==
  /\ pc = "collect"
  /\ IF AtUpgrade(cur - 1) \/ cur > GetLastBatchNumber
     THEN Goto("pending") /\ NoFault                  \* an error
     ELSE IF cur > closed
     THEN Goto("decide") /\ NoFault                   \* the batch in progress
     ELSE \/ /\ Estimates(first, cur) /\ NoFault
             /\ cur' = cur + 1
             /\ pc' = IF AtUpgrade(cur) THEN "add" ELSE "collect"
             /\ UNCHANGED first
          \/ /\ ~Estimates(first, cur) /\ NoFault
             /\ Goto(WithoutLast(first, cur))
          \/ Fault /\ (Goto(WithoutLast(first, cur)) \/ Goto("pending"))
  /\ UNCHANGED <<managerVars, lastSeq, sequencerVars, elapsed, upgrade>>

\* The loop reached the batch in progress. If the time of the last virtual
\* batch cannot be read the sequence is sent.
Decide ==
  /\ pc = "decide"
  /\ \/ cur = first /\ Goto("pending") /\ NoFault
     \/ cur # first /\ elapsed /\ Goto("add") /\ NoFault
     \/ cur # first /\ ~elapsed /\ Goto("pending") /\ NoFault
     \/ cur # first /\ Goto("add") /\ Fault
  /\ UNCHANGED <<managerVars, lastSeq, sequencerVars, elapsed, upgrade>>

\* ethTxManager.Add of the sequence; a row of that name makes it fail.
SendId == <<first, cur - 1>>

AddSequence ==
  /\ pc = "add"
  /\ \/ Manager!Add(SendId) /\ NoFault
     \/ row[SendId] # "none" /\ UNCHANGED managerVars /\ NoFault
     \/ UNCHANGED managerVars /\ Fault
  /\ Goto("pending")
  /\ UNCHANGED <<lastSeq, sequencerVars, elapsed, upgrade>>

\* Only the rows survive a restart of the sender.
Restart ==
  /\ pc # "pending"
  /\ Goto("pending") /\ Fault
  /\ UNCHANGED <<managerVars, lastSeq, sequencerVars, elapsed, upgrade>>

-----------------------------------------------------------------------------
Init ==
  /\ Manager!Init
  /\ lastSeq = <<>> /\ closed = 1 /\ wip = FALSE /\ elapsed = FALSE
  /\ upgrade \in Upgrades
  /\ pc = "pending" /\ first = 1 /\ cur = 1 /\ faults = 0

Sender ==
  \/ ProcessPendingMonitoredTxs \/ IsSynced \/ Start \/ Collect \/ Decide \/ AddSequence
  \/ \E id \in SeqIds : SetStatusDone(id)

Next ==
  \/ OtherBlock \/ SyncBlock \/ OpenBatch \/ CloseBatch \/ TimePasses \/ Sender \/ Restart
  \/ \E id \in SeqIds : TakeEffect(id) \/ Confirm(id)

Spec == Init /\ [][Next]_vars

-----------------------------------------------------------------------------
(* Properties.                                                             *)

SenderPc == {"pending", "synced", "start", "collect", "decide", "add"}

\* Type correctness.
TypeOK ==
  /\ row \in [SeqIds -> Manager!Stages] /\ effects \subseteq Manager!Effect
  /\ l1 \in Nat /\ known \in 0 .. l1
  /\ lastSeq \in Seq(Nat) /\ Len(lastSeq) = l1
  /\ closed \in Batches /\ wip \in BOOLEAN /\ (wip => closed < MaxBatch)
  /\ elapsed \in BOOLEAN /\ upgrade \in Upgrades
  /\ pc \in SenderPc /\ first \in Nat /\ cur \in Nat /\ first <= cur /\ faults \in Nat

\* The contract gives every batch the number it has in the trusted state, so
\* the virtual state is a prefix of the trusted one: no batch is sequenced
\* twice, skipped or out of order, whatever restarts, failed calls and late
\* synchronization do between two transactions (the contract is never told
\* the numbers, and isSynced does not compare the state with the L1).
VirtualIsTrusted ==
  /\ \A e \in effects : lastSeq[e.block] = e.id[2]
  /\ GetLatestBatchNumber <= closed

\* What VirtualIsTrusted rests on: one transaction at a time, and what is being
\* sent or built starts where the contract ends (its inductive strengthening).
Continues ==
  /\ \A b1, b2 \in 0 .. l1 : b1 <= b2 => Sequenced(b1) <= Sequenced(b2)
  /\ \A e \in effects : e.block \in 1 .. l1
  /\ \A id \in SeqIds : row[id] \in {"confirmed", "done"} => Manager!EffectKnown(id)
  /\ \A id1, id2 \in PendingRows : id1 = id2
  /\ \A id \in PendingRows :
       /\ pc = "pending" /\ id[2] <= closed
       /\ \/ ~Manager!Effective(id) /\ id[1] = GetLatestBatchNumber + 1
          \/ Manager!Effective(id) /\ id[2] = GetLatestBatchNumber
  /\ PendingRows = {} => GetLastVirtualBatchNum = GetLatestBatchNumber
  /\ pc \in {"collect", "decide", "add"} =>
       first = GetLatestBatchNumber + 1 /\ cur <= closed + 1
  /\ pc = "add" => first < cur

\* A transaction never holds batches of two forks, and while the upgrade is
\* configured nothing after it is sent, even when the limit is reached by
\* dropping a batch or after a restart.
UpgradeIsBoundary == upgrade # 0 => \A id \in SeqIds : row[id] # "none" => id[2] <= upgrade

\* The identifier of a sequence is always new, so Add does not fail on it.
AddIsNew == pc = "add" => SendId \in SeqIds /\ row[SendId] = "none"

-----------------------------------------------------------------------------
(* Liveness: the loop of the sender, the synchronizer, the manager (which  *)
(* confirms what it is given) and the clock go on; the sequencer opens a   *)
(* batch after closing one.                                                *)

FairSpec ==
  /\ Spec
  /\ WF_vars(Sender) /\ WF_vars(SyncBlock) /\ WF_vars(TimePasses) /\ WF_vars(OpenBatch)
  /\ WF_vars(\E id \in SeqIds : TakeEffect(id)) /\ WF_vars(\E id \in SeqIds : Confirm(id))

\* Batch b can be sent: neither the upgrade nor a batch that cannot be sent
\* even alone is in its way.
Sendable(b) == (upgrade = 0 \/ b <= upgrade) /\ \A c \in 2 .. b : Estimates(c, c)

\* Every closed batch becomes virtual, or something stands in its way for good.
ClosedGetsVirtual ==
  \A b \in Batches : closed >= b /\ Sendable(b) ~> GetLastVirtualBatchNum >= b
=============================================================================
