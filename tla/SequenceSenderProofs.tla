------------------------ MODULE SequenceSenderProofs ------------------------
(***************************************************************************)
(* The virtual state is a prefix of the trusted one, for any number and    *)
(* size of batches, restarts and failed calls.                             *)
(***************************************************************************)
EXTENDS SequenceSender, TLAPS

USE DEF Manager!Effective, Manager!EffectKnown

\* The last batch the contract has sequenced in an L1 block is a number.
LEMMA SequencedType == ASSUME TypeOK, NEW b \in 0 .. l1 PROVE Sequenced(b) \in Nat
BY DEF TypeOK, Sequenced

\* An appended L1 block leaves the older ones alone.
LEMMA AppendBlock ==
  ASSUME TypeOK, NEW n \in Nat, lastSeq' = Append(lastSeq, n), l1' = l1 + 1
  PROVE  /\ lastSeq' \in Seq(Nat) /\ Len(lastSeq') = l1'
         /\ \A b \in 0 .. l1 : Sequenced(b)' = Sequenced(b)
         /\ GetLatestBatchNumber' = n
         /\ \A b \in 1 .. l1 : lastSeq'[b] = lastSeq[b]
         /\ lastSeq'[l1 + 1] = n
<1>1. /\ l1 \in Nat /\ Len(lastSeq) = l1 /\ lastSeq' \in Seq(Nat) /\ Len(lastSeq') = l1 + 1
      /\ lastSeq'[l1 + 1] = n /\ \A b \in 1 .. l1 : lastSeq'[b] = lastSeq[b]
  BY DEF TypeOK
<1>2. \A b \in 0 .. l1 : Sequenced(b)' = Sequenced(b)
  BY <1>1 DEF Sequenced
<1>3. GetLatestBatchNumber' = n
  BY <1>1 DEF GetLatestBatchNumber, Sequenced
<1> QED BY <1>1, <1>2, <1>3, Zenon

\* TypeOK is preserved by every step, given what the sender is about to add.
LEMMA TypeStep ==
  ASSUME TypeOK, [Next]_vars
  PROVE  TypeOK'
<1> USE ConstantsAssumption
<1>1. ASSUME NEW id \in SeqIds, TakeEffect(id) PROVE TypeOK'
  <2>1. /\ l1' = l1 + 1 /\ effects' = effects \cup {[block |-> l1 + 1, id |-> id]}
        /\ UNCHANGED <<row, known>>
        /\ lastSeq' = Append(lastSeq, GetLatestBatchNumber + (id[2] - id[1]) + 1)
        /\ UNCHANGED <<closed, wip, elapsed, upgrade, pc, first, cur, faults>>
    BY <1>1, Zenon DEF TakeEffect, Manager!TakeEffect, sequencerVars, senderVars
  <2>2. GetLatestBatchNumber + (id[2] - id[1]) + 1 \in Nat
    <3>1. GetLatestBatchNumber \in Nat
      BY SequencedType DEF TypeOK, GetLatestBatchNumber
    <3>2. id[1] \in Nat /\ id[2] \in Nat /\ id[1] <= id[2]
      BY DEF SeqIds, Batches
    <3> QED BY <3>1, <3>2
  <2>3. lastSeq' \in Seq(Nat) /\ Len(lastSeq') = l1'
    BY <2>1, <2>2, AppendBlock, Zenon
  <2>4. effects' \subseteq Manager!Effect
    BY <2>1 DEF TypeOK, Manager!Effect
  <2>5. l1' \in Nat /\ known' \in 0 .. l1'
    BY <2>1 DEF TypeOK
  <2> QED BY <2>1, <2>3, <2>4, <2>5, Zenon DEF TypeOK
<1>2. CASE OtherBlock
  <2>1. /\ l1' = l1 + 1 /\ UNCHANGED <<row, effects, known>>
        /\ lastSeq' = Append(lastSeq, GetLatestBatchNumber)
        /\ UNCHANGED <<closed, wip, elapsed, upgrade, pc, first, cur, faults>>
    BY <1>2, Zenon DEF OtherBlock, Manager!OtherBlock, sequencerVars, senderVars
  <2>2. GetLatestBatchNumber \in Nat
    BY SequencedType DEF TypeOK, GetLatestBatchNumber
  <2>3. lastSeq' \in Seq(Nat) /\ Len(lastSeq') = l1'
    BY <2>1, <2>2, AppendBlock, Zenon
  <2>4. l1' \in Nat /\ known' \in 0 .. l1'
    BY <2>1 DEF TypeOK
  <2> QED BY <2>1, <2>3, <2>4, Zenon DEF TypeOK
<1>3. CASE SyncBlock
  BY <1>3 DEF SyncBlock, Manager!Learn, TypeOK, sequencerVars, senderVars
<1>4. ASSUME NEW id \in SeqIds, Confirm(id) PROVE TypeOK'
  BY <1>4, Zenon DEF Confirm, Manager!Confirm, TypeOK, sequencerVars, senderVars,
     Manager!Stages
<1>5. CASE OpenBatch \/ CloseBatch \/ TimePasses
  <2>1. /\ UNCHANGED <<row, effects, l1, known, lastSeq, upgrade, pc, first, cur, faults>>
        /\ wip' \in BOOLEAN /\ elapsed' \in BOOLEAN
    BY <1>5, Zenon DEF OpenBatch, CloseBatch, TimePasses, TypeOK, managerVars,
       senderVars, sequencerVars
  <2>2. closed' \in Batches /\ (wip' => closed' < MaxBatch)
    <3>1. CASE OpenBatch
      BY <3>1, Zenon DEF OpenBatch, TypeOK
    <3>2. CASE CloseBatch
      BY <3>2 DEF CloseBatch, TypeOK, Batches
    <3>3. CASE TimePasses
      BY <3>3, Zenon DEF TimePasses, TypeOK, sequencerVars
    <3> QED BY <1>5, <3>1, <3>2, <3>3, Zenon
  <2> QED BY <2>1, <2>2, Zenon DEF TypeOK
<1>6. ASSUME NEW id \in SeqIds, SetStatusDone(id) PROVE TypeOK'
  BY <1>6, Zenon DEF SetStatusDone, Manager!Finish, TypeOK, sequencerVars, senderVars,
     Manager!Stages
<1>7. CASE ProcessPendingMonitoredTxs \/ IsSynced \/ Decide \/ Restart
  BY <1>7 DEF ProcessPendingMonitoredTxs, IsSynced, Decide, Restart, Goto, Fault, NoFault, TypeOK,
       managerVars, sequencerVars, SenderPc
<1>8. CASE Start
  <2>1. GetLastVirtualBatchNum \in Nat
    BY SequencedType, Zenon DEF TypeOK, GetLastVirtualBatchNum
  <2> QED BY <1>8, <2>1 DEF Start, Goto, Fault, NoFault, TypeOK, managerVars, sequencerVars, SenderPc
<1>9. CASE Collect
  <2>1. \A a, b : WithoutLast(a, b) \in {"add", "pending"}
    BY Zenon DEF WithoutLast
  <2>2. first' = first /\ cur' \in {cur, cur + 1} /\ pc' \in SenderPc /\ faults' \in Nat
    BY <1>9, <2>1 DEF Collect, Goto, Fault, NoFault, TypeOK, SenderPc
  <2>3. UNCHANGED <<row, effects, l1, known, lastSeq, closed, wip, elapsed, upgrade>>
    BY <1>9, Zenon DEF Collect, managerVars, sequencerVars
  <2>4. cur' \in Nat /\ first' <= cur' /\ first' \in Nat
    BY <2>2 DEF TypeOK
  <2> QED BY <2>2, <2>3, <2>4, Zenon DEF TypeOK
<1>10. CASE AddSequence
  <2>1. /\ UNCHANGED <<effects, l1, known, lastSeq, closed, wip, elapsed, upgrade, first, cur>>
        /\ pc' = "pending" /\ faults' \in Nat
    BY <1>10 DEF AddSequence, Manager!Add, managerVars, Goto, Fault, NoFault, sequencerVars, TypeOK
  <2>2. row' \in [SeqIds -> Manager!Stages]
    BY <1>10, Zenon DEF AddSequence, Manager!Add, managerVars, TypeOK, Manager!Stages
  <2> QED BY <2>1, <2>2, Zenon DEF TypeOK, SenderPc
<1>11. CASE UNCHANGED vars
  BY <1>11, Zenon DEF vars, TypeOK, managerVars, sequencerVars, senderVars
<1> QED BY <1>1, <1>2, <1>3, <1>4, <1>5, <1>6, <1>7, <1>8, <1>9, <1>10, <1>11, Zenon
           DEF Next, Sender

\* Type correctness.
THEOREM SenderTypes == Spec => []TypeOK
<1>1. Init => TypeOK
  <2> SUFFICES ASSUME Init PROVE TypeOK OBVIOUS
  <2>1. row \in [SeqIds -> Manager!Stages] /\ effects = {} /\ l1 = 0 /\ known = 0
    BY Zenon DEF Init, Manager!Init, Manager!Stages
  <2>2. lastSeq \in Seq(Nat) /\ Len(lastSeq) = l1
    BY <2>1 DEF Init
  <2>3. closed \in Batches
    BY ConstantsAssumption DEF Init, Batches
  <2>4. wip = FALSE /\ elapsed = FALSE /\ upgrade \in Upgrades
    BY Zenon DEF Init
  <2>5. pc \in SenderPc /\ first = 1 /\ cur = 1 /\ faults = 0
    BY Zenon DEF Init, SenderPc
  <2>6. effects \subseteq Manager!Effect /\ l1 \in Nat /\ known \in 0 .. l1
    BY <2>1
  <2>7. first \in Nat /\ cur \in Nat /\ first <= cur /\ faults \in Nat
    BY <2>5
  <2> QED BY <2>1, <2>2, <2>3, <2>4, <2>5, <2>6, <2>7, Zenon DEF TypeOK
<1> QED BY <1>1, TypeStep, PTL DEF Spec

-----------------------------------------------------------------------------
\* The inductive invariant.
Inv == TypeOK /\ VirtualIsTrusted /\ Continues

\* A row that took effect does not end after the last batch of the contract.
LEMMA EffectiveIsBehind ==
  ASSUME Inv, NEW id, Manager!Effective(id)
  PROVE  id[2] <= GetLatestBatchNumber
<1>1. PICK e \in effects : e.id = id
  OBVIOUS
<1>2. lastSeq[e.block] = id[2] /\ e.block \in 1 .. l1 /\ l1 \in Nat
  BY <1>1, Zenon DEF Inv, VirtualIsTrusted, Continues, TypeOK
<1>3. Sequenced(e.block) = id[2]
  BY <1>2 DEF Sequenced
<1>4. e.block \in 0 .. l1 /\ l1 \in 0 .. l1 /\ e.block <= l1
  BY <1>2
<1>5. Sequenced(e.block) <= Sequenced(l1)
  BY <1>4, Zenon DEF Inv, Continues
<1> QED BY <1>3, <1>5, Zenon DEF GetLatestBatchNumber

\* When the state has the block of the last sequence, it has every virtual batch.
LEMMA KnownIsLatest ==
  ASSUME Inv, NEW id, Manager!EffectKnown(id), id[2] = GetLatestBatchNumber
  PROVE  GetLastVirtualBatchNum = GetLatestBatchNumber
<1>1. PICK e \in effects : e.id = id /\ e.block <= known
  OBVIOUS
<1>2. lastSeq[e.block] = id[2] /\ e.block \in 1 .. l1 /\ l1 \in Nat /\ known \in 0 .. l1
  BY <1>1, Zenon DEF Inv, VirtualIsTrusted, Continues, TypeOK
<1>3. Sequenced(e.block) = id[2]
  BY <1>2 DEF Sequenced
<1>4. e.block \in 0 .. l1 /\ l1 \in 0 .. l1 /\ known <= l1
  BY <1>2
<1>5. Sequenced(e.block) <= Sequenced(known) /\ Sequenced(known) <= Sequenced(l1)
  BY <1>1, <1>2, <1>4, Zenon DEF Inv, Continues
<1>6. Sequenced(known) \in Nat /\ Sequenced(l1) \in Nat
  BY <1>2, <1>4, SequencedType, Zenon DEF Inv
<1> QED BY <1>3, <1>5, <1>6 DEF GetLatestBatchNumber, GetLastVirtualBatchNum

\* A new L1 block whose last batch is not older than the contract's keeps the
\* part of the invariant that is about the contract.
LEMMA BlockKeepsOrder ==
  ASSUME Inv, NEW n \in Nat, lastSeq' = Append(lastSeq, n), l1' = l1 + 1, GetLatestBatchNumber <= n
  PROVE  \A b1, b2 \in 0 .. l1' : b1 <= b2 => Sequenced(b1)' <= Sequenced(b2)'
<1>1. TypeOK /\ l1 \in Nat
  BY Zenon DEF Inv, TypeOK
<1>2. (\A b \in 0 .. l1 : Sequenced(b)' = Sequenced(b)) /\ GetLatestBatchNumber' = n
  BY <1>1, AppendBlock, Zenon
<1>3. \A b \in 0 .. l1 : Sequenced(b) \in Nat /\ Sequenced(b) <= GetLatestBatchNumber
  <2>1. \A b \in 0 .. l1 : Sequenced(b) \in Nat
    BY <1>1, SequencedType, Zenon
  <2>2. l1 \in 0 .. l1 /\ \A b \in 0 .. l1 : b <= l1
    BY <1>1
  <2> QED BY <2>1, <2>2, Zenon DEF Inv, Continues, GetLatestBatchNumber
<1>4. GetLatestBatchNumber \in Nat
  BY <1>1, SequencedType DEF GetLatestBatchNumber
<1> SUFFICES ASSUME NEW b1 \in 0 .. l1', NEW b2 \in 0 .. l1', b1 <= b2
             PROVE  Sequenced(b1)' <= Sequenced(b2)'
  OBVIOUS
<1>5. CASE b2 \in 0 .. l1
  <2>1. b1 \in 0 .. l1
    BY <1>1, <1>5
  <2> QED BY <1>2, <1>5, <2>1, Zenon DEF Inv, Continues
<1>6. CASE b2 = l1 + 1 /\ b1 \in 0 .. l1
  <2>1. Sequenced(b2)' = n
    BY <1>2, <1>6, Zenon DEF GetLatestBatchNumber
  <2> QED BY <1>2, <1>3, <1>4, <1>6, <2>1
<1>7. CASE b1 = l1 + 1 /\ b2 = l1 + 1
  <2>1. Sequenced(b2)' = n
    BY <1>2, <1>7, Zenon DEF GetLatestBatchNumber
  <2> QED BY <1>7, <2>1
<1> QED BY <1>1, <1>5, <1>6, <1>7

\* The contract sequences a pending row.
LEMMA EffectStep ==
  ASSUME Inv, NEW id \in SeqIds, TakeEffect(id)
  PROVE  VirtualIsTrusted' /\ Continues'
<1>1. /\ row[id] = "pending" /\ ~Manager!Effective(id)
      /\ l1' = l1 + 1 /\ effects' = effects \cup {[block |-> l1 + 1, id |-> id]}
      /\ UNCHANGED <<row, known, closed, wip, upgrade, pc, first, cur>>
      /\ lastSeq' = Append(lastSeq, GetLatestBatchNumber + (id[2] - id[1]) + 1)
  BY Zenon DEF TakeEffect, Manager!TakeEffect, sequencerVars, senderVars
<1>2. id \in PendingRows /\ PendingRows' = PendingRows
  BY <1>1, Zenon DEF PendingRows
<1>3. /\ id[1] = GetLatestBatchNumber + 1 /\ id[2] <= closed /\ pc = "pending"
      /\ \A other \in PendingRows : other = id
  BY <1>1, <1>2, Zenon DEF Inv, Continues
<1>4. TypeOK /\ l1 \in Nat /\ known \in 0 .. l1 /\ GetLatestBatchNumber \in Nat
  BY SequencedType DEF Inv, TypeOK, GetLatestBatchNumber
<1>5. id[1] \in Nat /\ id[2] \in Nat /\ id[1] <= id[2]
  BY DEF SeqIds, Batches
<1>6. lastSeq' = Append(lastSeq, id[2]) /\ GetLatestBatchNumber <= id[2]
  <2>1. GetLatestBatchNumber + (id[2] - id[1]) + 1 = id[2]
    BY <1>3, <1>4, <1>5
  <2>2. lastSeq' = Append(lastSeq, id[2])
    BY <1>1, <2>1, Zenon
  <2> QED BY <1>3, <1>4, <1>5, <2>2
<1>7. /\ \A b \in 0 .. l1 : Sequenced(b)' = Sequenced(b)
      /\ \A b \in 1 .. l1 : lastSeq'[b] = lastSeq[b]
      /\ GetLatestBatchNumber' = id[2] /\ lastSeq'[l1 + 1] = id[2]
  BY <1>1, <1>4, <1>5, <1>6, AppendBlock, Zenon
<1>8. \A e \in effects : e.block \in 1 .. l1 /\ lastSeq[e.block] = e.id[2]
  BY Zenon DEF Inv, Continues, VirtualIsTrusted
<1> DEFINE new == [block |-> l1 + 1, id |-> id]
<1>N. new.block = l1 + 1 /\ new.id = id /\ effects' = effects \cup {new}
  BY <1>1, Zenon
<1> HIDE DEF new
<1>9. VirtualIsTrusted'
  <2>1. \A e \in effects' : lastSeq'[e.block] = e.id[2]
    BY <1>N, <1>7, <1>8, Zenon
  <2> QED BY <1>1, <1>3, <1>7, <2>1, Zenon DEF VirtualIsTrusted
<1>10. \A b1, b2 \in 0 .. l1' : b1 <= b2 => Sequenced(b1)' <= Sequenced(b2)'
  BY <1>1, <1>5, <1>6, BlockKeepsOrder, Zenon
<1>11. \A e \in effects' : e.block \in 1 .. l1'
  BY <1>N, <1>1, <1>4, <1>8
<1>12. \A i \in SeqIds : row'[i] \in {"confirmed", "done"} => Manager!EffectKnown(i)'
  BY <1>1, Zenon DEF Inv, Continues
<1>13. Manager!Effective(id)'
  BY <1>N, Zenon
<1> QED BY <1>1, <1>2, <1>3, <1>7, <1>9, <1>10, <1>11, <1>12, <1>13 DEF Continues

\* An L1 block without a sequence.
LEMMA OtherBlockStep ==
  ASSUME Inv, OtherBlock
  PROVE  VirtualIsTrusted' /\ Continues'
<1>1. /\ l1' = l1 + 1 /\ lastSeq' = Append(lastSeq, GetLatestBatchNumber)
      /\ UNCHANGED <<row, effects, known, closed, wip, upgrade, pc, first, cur>>
  BY Zenon DEF OtherBlock, Manager!OtherBlock, sequencerVars, senderVars
<1>2. TypeOK /\ l1 \in Nat /\ known \in 0 .. l1 /\ GetLatestBatchNumber \in Nat
  BY SequencedType DEF Inv, TypeOK, GetLatestBatchNumber
<1>3. /\ \A b \in 0 .. l1 : Sequenced(b)' = Sequenced(b)
      /\ \A b \in 1 .. l1 : lastSeq'[b] = lastSeq[b]
      /\ GetLatestBatchNumber' = GetLatestBatchNumber
  BY <1>1, <1>2, AppendBlock, Zenon
<1>4. \A e \in effects : e.block \in 1 .. l1 /\ lastSeq[e.block] = e.id[2]
  BY Zenon DEF Inv, Continues, VirtualIsTrusted
<1>5. VirtualIsTrusted'
  <2>1. \A e \in effects' : lastSeq'[e.block] = e.id[2]
    BY <1>1, <1>3, <1>4, Zenon
  <2> QED BY <1>1, <1>3, <2>1, Zenon DEF Inv, VirtualIsTrusted
<1>6. \A b1, b2 \in 0 .. l1' : b1 <= b2 => Sequenced(b1)' <= Sequenced(b2)'
  BY <1>1, <1>2, BlockKeepsOrder
<1>7. \A e \in effects' : e.block \in 1 .. l1'
  BY <1>1, <1>2, <1>4
<1>8. GetLastVirtualBatchNum' = GetLastVirtualBatchNum /\ PendingRows' = PendingRows
  BY <1>1, <1>2, <1>3, Zenon DEF GetLastVirtualBatchNum, PendingRows
<1> QED BY <1>1, <1>3, <1>5, <1>6, <1>7, <1>8, Zenon DEF Inv, Continues

\* The state stores the next block.
LEMMA SyncStep ==
  ASSUME Inv, SyncBlock
  PROVE  VirtualIsTrusted' /\ Continues'
<1>1. /\ known < l1 /\ known' = known + 1
      /\ UNCHANGED <<row, effects, l1, lastSeq, closed, wip, upgrade, pc, first, cur>>
  BY Zenon DEF SyncBlock, Manager!Learn, sequencerVars, senderVars
<1>2. TypeOK /\ l1 \in Nat /\ known \in 0 .. l1 /\ known + 1 \in 0 .. l1 /\ l1 \in 0 .. l1
  BY <1>1 DEF Inv, TypeOK
<1>3. /\ GetLatestBatchNumber' = GetLatestBatchNumber /\ PendingRows' = PendingRows
      /\ \A b : Sequenced(b)' = Sequenced(b)
  BY <1>1, Zenon DEF GetLatestBatchNumber, PendingRows, Sequenced
<1>4. VirtualIsTrusted'
  BY <1>1, <1>3, Zenon DEF Inv, VirtualIsTrusted
<1>5. \A i \in SeqIds : row'[i] \in {"confirmed", "done"} => Manager!EffectKnown(i)'
  <2>1. \A e \in effects : e.block <= known => e.block <= known + 1
    BY <1>2 DEF Inv, Continues
  <2> QED BY <1>1, <2>1, Zenon DEF Inv, Continues
<1>6. PendingRows = {} => GetLastVirtualBatchNum' = GetLatestBatchNumber
  <2>1. Sequenced(known) <= Sequenced(known + 1) /\ Sequenced(known + 1) <= Sequenced(l1)
    BY <1>1, <1>2 DEF Inv, Continues
  <2>2. Sequenced(known) \in Nat /\ Sequenced(known + 1) \in Nat /\ Sequenced(l1) \in Nat
    BY <1>2, SequencedType, Zenon
  <2>3. GetLastVirtualBatchNum' = Sequenced(known + 1)
    BY <1>1, Zenon DEF GetLastVirtualBatchNum, Sequenced
  <2> QED BY <2>1, <2>2, <2>3 DEF Inv, Continues, GetLastVirtualBatchNum, GetLatestBatchNumber
<1> QED BY <1>1, <1>3, <1>4, <1>5, <1>6, Zenon DEF Inv, Continues

\* The manager confirms a row.
LEMMA ConfirmStep ==
  ASSUME Inv, NEW id \in SeqIds, Confirm(id)
  PROVE  VirtualIsTrusted' /\ Continues'
<1>1. /\ row[id] = "pending" /\ Manager!EffectKnown(id) /\ row' = [row EXCEPT ![id] = "confirmed"]
      /\ UNCHANGED <<effects, l1, known, lastSeq, closed, wip, upgrade, pc, first, cur>>
  BY Zenon DEF Confirm, Manager!Confirm, sequencerVars, senderVars
<1>2. row \in [SeqIds -> Manager!Stages]
  BY Zenon DEF Inv, TypeOK
<1>3. PendingRows' = PendingRows
  BY <1>1, <1>2, Zenon DEF PendingRows
<1>4. /\ GetLatestBatchNumber' = GetLatestBatchNumber
      /\ GetLastVirtualBatchNum' = GetLastVirtualBatchNum /\ \A b : Sequenced(b)' = Sequenced(b)
  BY <1>1, Zenon DEF GetLatestBatchNumber, GetLastVirtualBatchNum, Sequenced
<1>5. \A i \in SeqIds : row'[i] \in {"confirmed", "done"} => Manager!EffectKnown(i)'
  BY <1>1, <1>2, Zenon DEF Inv, Continues
<1> QED BY <1>1, <1>3, <1>4, <1>5, Zenon DEF Inv, VirtualIsTrusted, Continues

\* The sender sets a confirmed row to done.
LEMMA DoneStep ==
  ASSUME Inv, NEW id \in SeqIds, SetStatusDone(id)
  PROVE  VirtualIsTrusted' /\ Continues'
<1>1. /\ row[id] = "confirmed" /\ row' = [row EXCEPT ![id] = "done"] /\ pc = "pending"
      /\ UNCHANGED <<effects, l1, known, lastSeq, closed, wip, upgrade, pc, first, cur>>
  BY Zenon DEF SetStatusDone, Manager!Finish, sequencerVars, senderVars
<1>2. row \in [SeqIds -> Manager!Stages]
  BY Zenon DEF Inv, TypeOK
<1>3. id \in PendingRows /\ PendingRows' = PendingRows \ {id}
  BY <1>1, <1>2, Zenon DEF PendingRows
<1>4. /\ GetLatestBatchNumber' = GetLatestBatchNumber
      /\ GetLastVirtualBatchNum' = GetLastVirtualBatchNum /\ \A b : Sequenced(b)' = Sequenced(b)
  BY <1>1, Zenon DEF GetLatestBatchNumber, GetLastVirtualBatchNum, Sequenced
<1>5. Manager!EffectKnown(id) /\ id[2] = GetLatestBatchNumber
  <2>1. Manager!EffectKnown(id)
    BY <1>1, Zenon DEF Inv, Continues
  <2> QED BY <1>3, <2>1, Zenon DEF Inv, Continues
<1>6. GetLastVirtualBatchNum = GetLatestBatchNumber
  BY <1>5, KnownIsLatest, Zenon
<1>7. \A i \in SeqIds : row'[i] \in {"confirmed", "done"} => Manager!EffectKnown(i)'
  BY <1>1, <1>2, <1>5, Zenon DEF Inv, Continues
<1> QED BY <1>1, <1>3, <1>4, <1>6, <1>7, Zenon DEF Inv, VirtualIsTrusted, Continues

\* Steps of the sender and the sequencer that change no row and no block.
LEMMA QuietStep ==
  ASSUME Inv, UNCHANGED <<row, effects, l1, known, lastSeq>>, closed' \in Nat, closed <= closed',
         PendingRows # {} => pc' = "pending",
         pc' \in {"collect", "decide", "add"} =>
           first' = GetLatestBatchNumber + 1 /\ cur' <= closed' + 1,
         pc' = "add" => first' < cur'
  PROVE  VirtualIsTrusted' /\ Continues'
<1>1. /\ GetLatestBatchNumber' = GetLatestBatchNumber /\ PendingRows' = PendingRows
      /\ GetLastVirtualBatchNum' = GetLastVirtualBatchNum /\ \A b : Sequenced(b)' = Sequenced(b)
  BY Zenon DEF GetLatestBatchNumber, GetLastVirtualBatchNum, Sequenced, PendingRows
<1>2. GetLatestBatchNumber \in Nat /\ closed \in Nat
  BY SequencedType DEF Inv, TypeOK, GetLatestBatchNumber, Batches
<1>3. VirtualIsTrusted'
  BY <1>1, <1>2 DEF Inv, VirtualIsTrusted
<1>4. \A id \in PendingRows : id[2] <= closed'
  <2>1. \A id \in PendingRows : id[2] <= closed /\ id[2] \in Nat
    BY DEF Inv, Continues, PendingRows, SeqIds, Batches
  <2> QED BY <1>2, <2>1
<1> QED BY <1>1, <1>3, <1>4, Zenon DEF Inv, Continues

\* Adding the sequence that was built: its batches are new to the contract.
LEMMA AddStep ==
  ASSUME Inv, AddSequence
  PROVE  VirtualIsTrusted' /\ Continues'
<1>1. /\ pc = "add" /\ pc' = "pending"
      /\ UNCHANGED <<effects, l1, known, lastSeq, closed, wip, upgrade, first, cur>>
      /\ \/ row' = row
         \/ row[SendId] = "none" /\ row' = [row EXCEPT ![SendId] = "pending"]
  BY Zenon DEF AddSequence, Manager!Add, managerVars, Goto, sequencerVars
<1>2. /\ row \in [SeqIds -> Manager!Stages] /\ GetLatestBatchNumber \in Nat /\ closed \in Nat
      /\ closed <= MaxBatch /\ cur \in Nat /\ first \in Nat /\ MaxBatch \in Nat
  BY SequencedType, ConstantsAssumption DEF Inv, TypeOK, GetLatestBatchNumber, Batches
<1>3. first = GetLatestBatchNumber + 1 /\ cur <= closed + 1 /\ first < cur /\ PendingRows = {}
  BY <1>1, Zenon DEF Inv, Continues
<1>4. SendId \in SeqIds /\ SendId[1] = first /\ SendId[2] = cur - 1
  BY <1>2, <1>3 DEF SendId, SeqIds, Batches
<1>5. ~Manager!Effective(SendId)
  <2>1. ~(SendId[2] <= GetLatestBatchNumber)
    BY <1>2, <1>3, <1>4
  <2> QED BY <2>1, EffectiveIsBehind, Zenon
<1>6. CASE row' = row
  BY <1>1, <1>2, <1>6, QuietStep
<1>7. CASE row' = [row EXCEPT ![SendId] = "pending"]
  <2>1. PendingRows' = {SendId}
    BY <1>2, <1>3, <1>4, <1>7, Zenon DEF PendingRows
  <2>2. /\ GetLatestBatchNumber' = GetLatestBatchNumber /\ \A b : Sequenced(b)' = Sequenced(b)
    BY <1>1, Zenon DEF GetLatestBatchNumber, Sequenced
  <2>3. \A i \in SeqIds : row'[i] \in {"confirmed", "done"} => Manager!EffectKnown(i)'
    BY <1>1, <1>2, <1>7, Zenon DEF Inv, Continues
  <2>4. VirtualIsTrusted'
    BY <1>1, <2>2, Zenon DEF Inv, VirtualIsTrusted
  <2>5. SendId[2] <= closed' /\ SendId[1] = GetLatestBatchNumber' + 1 /\ ~Manager!Effective(SendId)'
    <3>1. SendId[2] <= closed' /\ SendId[1] = GetLatestBatchNumber' + 1
      BY <1>1, <1>2, <1>3, <1>4, <2>2
    <3>2. SendId' = SendId
      BY <1>1, Zenon DEF SendId
    <3> QED BY <1>1, <1>5, <3>1, <3>2, Zenon
  <2>6. SendId' = SendId
    BY <1>1, Zenon DEF SendId
  <2> HIDE DEF SendId
  <2> QED BY <1>1, <2>1, <2>2, <2>3, <2>4, <2>5, <2>6, Zenon DEF Inv, Continues
<1> QED BY <1>1, <1>6, <1>7, Zenon

\* One turn of the loop of getSequencesToSend.
LEMMA CollectStep ==
  ASSUME Inv, Collect
  PROVE  VirtualIsTrusted' /\ Continues'
<1>1. /\ pc = "collect" /\ first' = first /\ UNCHANGED <<row, effects, l1, known, lastSeq, closed>>
  BY Zenon DEF Collect, Goto, managerVars, sequencerVars
<1>2. cur \in Nat /\ first \in Nat /\ first <= cur /\ closed \in Nat
  BY DEF Inv, TypeOK, Batches
<1>3. first = GetLatestBatchNumber + 1 /\ cur <= closed + 1 /\ PendingRows = {}
  BY <1>1, Zenon DEF Inv, Continues
<1>4. WithoutLast(first, cur) = "add" => first < cur
  BY <1>2 DEF WithoutLast, Estimates
<1>5. CASE cur' = cur + 1 /\ cur <= closed
  BY <1>1, <1>2, <1>3, <1>5, QuietStep
<1>6. CASE cur' = cur /\ (pc' = "add" => first < cur)
  BY <1>1, <1>2, <1>3, <1>6, QuietStep
<1>7. cur' = cur + 1 => cur <= closed
  BY <1>2 DEF Collect, Goto
<1>8. cur' = cur => (pc' = "add" => first < cur)
  BY <1>2, <1>4 DEF Collect, Goto
<1> QED BY <1>2, <1>5, <1>6, <1>7, <1>8, Zenon DEF Collect, Goto

\* Every step keeps the virtual state a prefix of the trusted one.
LEMMA ContinuesStep ==
  ASSUME Inv, [Next]_vars
  PROVE  VirtualIsTrusted' /\ Continues'
<1>0. closed \in Nat
  BY DEF Inv, TypeOK, Batches
<1>1. CASE OpenBatch \/ CloseBatch \/ TimePasses
  <2>1. /\ UNCHANGED <<row, effects, l1, known, lastSeq, pc, first, cur>>
        /\ closed' \in Nat /\ closed <= closed' /\ closed' \in {closed, closed + 1}
    BY <1>0, <1>1 DEF OpenBatch, CloseBatch, TimePasses, managerVars, senderVars, sequencerVars
  <2>2. pc' \in {"collect", "decide", "add"} =>
          first' = GetLatestBatchNumber + 1 /\ cur' <= closed' + 1
    <3>1. cur \in Nat
      BY Zenon DEF Inv, TypeOK
    <3>2. pc \in {"collect", "decide", "add"} =>
            first = GetLatestBatchNumber + 1 /\ cur <= closed + 1
      BY Zenon DEF Inv, Continues
    <3>3. pc' = pc /\ first' = first /\ cur' = cur
      BY <2>1, Zenon
    <3>4. closed' \in {closed, closed + 1}
      BY <2>1, Zenon
    <3>5. ASSUME cur <= closed + 1 PROVE cur' <= closed' + 1
      <4>1. CASE closed' = closed
        BY <3>3, <3>5, <4>1, Zenon
      <4>2. CASE closed' = closed + 1
        BY <1>0, <3>1, <3>3, <3>5, <4>2
      <4> QED BY <3>4, <4>1, <4>2, Zenon
    <3> QED BY <3>2, <3>3, <3>5, Zenon
  <2> QED BY <2>1, <2>2, QuietStep, Zenon DEF Inv, Continues
<1>2. CASE ProcessPendingMonitoredTxs \/ IsSynced \/ Restart
  <2>1. /\ UNCHANGED <<row, effects, l1, known, lastSeq, closed>>
        /\ pc' \in {"synced", "pending", "start"} /\ (PendingRows # {} => pc' = "pending")
    BY <1>2, Zenon DEF ProcessPendingMonitoredTxs, IsSynced, Restart, Goto, managerVars,
       sequencerVars, Inv, Continues
  <2> QED BY <1>0, <2>1, QuietStep
<1>3. CASE Start
  <2>1. UNCHANGED <<row, effects, l1, known, lastSeq, closed>> /\ PendingRows = {}
    BY <1>3, Zenon DEF Start, managerVars, sequencerVars, Inv, Continues
  <2>2. CASE pc' = "pending"
    BY <1>0, <2>1, <2>2, QuietStep
  <2>3. CASE pc' = "collect" /\ first' = GetLastVirtualBatchNum + 1 /\ cur' = first'
    <3>1. first' = GetLatestBatchNumber + 1 /\ GetLatestBatchNumber <= closed
      BY <2>1, <2>3, Zenon DEF Inv, Continues, VirtualIsTrusted
    <3>2. GetLatestBatchNumber \in Nat
      BY SequencedType DEF Inv, TypeOK, GetLatestBatchNumber
    <3> QED BY <1>0, <2>1, <2>3, <3>1, <3>2, QuietStep
  <2> QED BY <1>3, <2>2, <2>3, Zenon DEF Start, Goto
<1>4. CASE Decide
  <2>1. /\ UNCHANGED <<row, effects, l1, known, lastSeq, closed, first, cur>> /\ PendingRows = {}
        /\ pc' = "pending" \/ (pc' = "add" /\ cur # first)
    BY <1>4, Zenon DEF Decide, Goto, managerVars, sequencerVars, Inv, Continues
  <2>2. first = GetLatestBatchNumber + 1 /\ cur <= closed + 1
    BY <1>4, Zenon DEF Decide, Inv, Continues
  <2>3. cur # first => first < cur
    BY DEF Inv, TypeOK
  <2> QED BY <1>0, <2>1, <2>2, <2>3, QuietStep
<1>5. CASE UNCHANGED vars
  <2>1. UNCHANGED <<row, effects, l1, known, lastSeq, pc, first, cur, closed>>
    BY <1>5, Zenon DEF vars, managerVars, senderVars, sequencerVars
  <2> QED BY <1>0, <2>1, QuietStep DEF Inv, Continues
<1> QED BY <1>1, <1>2, <1>3, <1>4, <1>5, EffectStep, OtherBlockStep, SyncStep,
           ConfirmStep, DoneStep, AddStep, CollectStep, Zenon DEF Next, Sender

\* Whatever the sender builds or has pending starts where the contract ends.
THEOREM SequencesContinue == Spec => []Continues
<1>1. Init => VirtualIsTrusted /\ Continues
  <2> SUFFICES ASSUME Init PROVE VirtualIsTrusted /\ Continues OBVIOUS
  <2>1. /\ row = [i \in SeqIds |-> "none"] /\ effects = {} /\ l1 = 0 /\ known = 0 /\ closed = 1
        /\ pc = "pending"
    BY Zenon DEF Init, Manager!Init
  <2>2. PendingRows = {} /\ GetLatestBatchNumber = 1 /\ GetLastVirtualBatchNum = 1
    BY <2>1, Zenon DEF PendingRows, GetLatestBatchNumber, GetLastVirtualBatchNum,
       Sequenced
  <2>3. \A b1, b2 \in 0 .. l1 : b1 <= b2 => Sequenced(b1) <= Sequenced(b2)
    BY <2>1 DEF Sequenced
  <2> QED BY <2>1, <2>2, <2>3 DEF VirtualIsTrusted, Continues
<1>2. Spec => []Inv
  BY <1>1, ContinuesStep, SenderTypes, PTL DEF Spec, Inv
<1> QED BY <1>2, PTL DEF Inv

\* The batches on the L1 are a prefix of the trusted ones, each of them once.
THEOREM VirtualIsPrefix == Spec => []VirtualIsTrusted
<1>1. Init => VirtualIsTrusted
  BY DEF Init, Manager!Init, VirtualIsTrusted, GetLatestBatchNumber, Sequenced
<1>2. TypeOK /\ Continues /\ VirtualIsTrusted /\ [Next]_vars => VirtualIsTrusted'
  BY ContinuesStep, Zenon DEF Inv
<1> QED BY <1>1, <1>2, SenderTypes, SequencesContinue, PTL DEF Spec

\* A sequence is given to the manager under an identifier that is new.
THEOREM AddsAreNew == Spec => []AddIsNew
<1>1. Inv => AddIsNew
  <2> SUFFICES ASSUME Inv, pc = "add" PROVE SendId \in SeqIds /\ row[SendId] = "none"
    BY Zenon DEF AddIsNew
  <2>1. /\ row \in [SeqIds -> Manager!Stages] /\ GetLatestBatchNumber \in Nat /\ closed \in Nat
        /\ closed <= MaxBatch /\ cur \in Nat /\ first \in Nat /\ MaxBatch \in Nat
    BY SequencedType, ConstantsAssumption DEF Inv, TypeOK, GetLatestBatchNumber, Batches
  <2>2. first = GetLatestBatchNumber + 1 /\ cur <= closed + 1 /\ first < cur /\ PendingRows = {}
    BY Zenon DEF Inv, Continues
  <2>3. SendId \in SeqIds /\ ~(SendId[2] <= GetLatestBatchNumber)
    BY <2>1, <2>2 DEF SendId, SeqIds, Batches
  <2>4. ~Manager!EffectKnown(SendId)
    BY <2>3, EffectiveIsBehind, Zenon
  <2>5. row[SendId] \notin {"pending", "confirmed", "done"}
    BY <2>2, <2>3, <2>4, Zenon DEF PendingRows, Inv, Continues
  <2> QED BY <2>1, <2>3, <2>5, Zenon DEF Manager!Stages
<1> QED BY <1>1, SenderTypes, SequencesContinue, VirtualIsPrefix, PTL DEF Inv

-----------------------------------------------------------------------------
\* What keeps a sequence on one side of the upgrade.
BeforeUpgrade ==
  upgrade # 0 =>
    /\ GetLatestBatchNumber <= upgrade
    /\ pc \in {"collect", "decide", "add"} => cur <= upgrade + 1

\* No sequence holds a batch after the configured upgrade.
THEOREM UpgradeHolds == Spec => []UpgradeIsBoundary
<1>1. Init => UpgradeIsBoundary /\ BeforeUpgrade
  <2> SUFFICES ASSUME Init PROVE UpgradeIsBoundary /\ BeforeUpgrade OBVIOUS
  <2>1. row = [i \in SeqIds |-> "none"] /\ l1 = 0 /\ pc = "pending" /\ upgrade \in Nat
    BY ConstantsAssumption, Zenon DEF Init, Manager!Init
  <2> QED BY <2>1 DEF UpgradeIsBoundary, BeforeUpgrade, GetLatestBatchNumber, Sequenced
<1>2. ASSUME Inv, UpgradeIsBoundary, BeforeUpgrade, [Next]_vars
      PROVE  UpgradeIsBoundary' /\ BeforeUpgrade'
  <2>0. /\ upgrade \in Nat /\ row \in [SeqIds -> Manager!Stages] /\ cur \in Nat /\ first \in Nat
        /\ GetLatestBatchNumber \in Nat
    BY <1>2, SequencedType, ConstantsAssumption DEF Inv, TypeOK, GetLatestBatchNumber
  <2>1. ASSUME NEW id \in SeqIds, TakeEffect(id) PROVE UpgradeIsBoundary' /\ BeforeUpgrade'
    <3>1. /\ row[id] = "pending" /\ ~Manager!Effective(id) /\ l1' = l1 + 1
          /\ UNCHANGED <<row, upgrade, pc, cur>>
          /\ lastSeq' = Append(lastSeq, GetLatestBatchNumber + (id[2] - id[1]) + 1)
      BY <2>1, Zenon DEF TakeEffect, Manager!TakeEffect, senderVars
    <3>2. id \in PendingRows
      BY <3>1, Zenon DEF PendingRows
    <3>3. id[1] = GetLatestBatchNumber + 1 /\ id[1] \in Nat /\ id[2] \in Nat
      BY <1>2, <3>1, <3>2 DEF Inv, Continues, SeqIds, Batches
    <3>4. lastSeq' = Append(lastSeq, id[2])
      BY <2>0, <3>1, <3>3
    <3>5. GetLatestBatchNumber' = id[2]
      BY <1>2, <3>1, <3>3, <3>4, AppendBlock, Zenon DEF Inv
    <3> QED BY <1>2, <3>1, <3>5, Zenon DEF UpgradeIsBoundary, BeforeUpgrade
  <2>2. CASE OtherBlock
    <3>1. /\ l1' = l1 + 1 /\ UNCHANGED <<row, upgrade, pc, cur>>
          /\ lastSeq' = Append(lastSeq, GetLatestBatchNumber)
      BY <2>2, Zenon DEF OtherBlock, Manager!OtherBlock, senderVars
    <3>2. GetLatestBatchNumber' = GetLatestBatchNumber
      BY <1>2, <2>0, <3>1, AppendBlock, Zenon DEF Inv
    <3> QED BY <1>2, <3>1, <3>2, Zenon DEF UpgradeIsBoundary, BeforeUpgrade
  <2>3. ASSUME UNCHANGED <<l1, lastSeq, upgrade>>,
               \A id \in SeqIds : row'[id] # "none" => row[id] # "none",
               pc' \in {"collect", "decide", "add"} /\ upgrade # 0 => cur' <= upgrade + 1
        PROVE  UpgradeIsBoundary' /\ BeforeUpgrade'
    <3>1. GetLatestBatchNumber' = GetLatestBatchNumber
      BY <2>3, Zenon DEF GetLatestBatchNumber, Sequenced
    <3> QED BY <1>2, <2>3, <3>1, Zenon DEF UpgradeIsBoundary, BeforeUpgrade
  <2>4. ASSUME NEW id \in SeqIds, Confirm(id) \/ SetStatusDone(id)
        PROVE  UpgradeIsBoundary' /\ BeforeUpgrade'
    <3>1. UNCHANGED <<l1, lastSeq, upgrade, pc, cur>>
      BY <2>4, Zenon DEF Confirm, SetStatusDone, Manager!Confirm, Manager!Finish,
         senderVars
    <3>2. \A i \in SeqIds : row'[i] # "none" => row[i] # "none"
      BY <2>0, <2>4, Zenon DEF Confirm, SetStatusDone, Manager!Confirm, Manager!Finish
    <3> QED BY <1>2, <2>3, <3>1, <3>2, Zenon DEF BeforeUpgrade
  <2>5. CASE SyncBlock \/ OpenBatch \/ CloseBatch \/ TimePasses \/ UNCHANGED vars
    <3>1. UNCHANGED <<l1, lastSeq, upgrade, row, pc, cur>>
      BY <2>5, Zenon DEF SyncBlock, OpenBatch, CloseBatch, TimePasses, vars,
         Manager!Learn, managerVars, senderVars
    <3> QED BY <1>2, <2>3, <3>1, Zenon DEF BeforeUpgrade
  <2>6. CASE ProcessPendingMonitoredTxs \/ IsSynced \/ Restart
    <3>1. UNCHANGED <<l1, lastSeq, upgrade, row>> /\ pc' \in {"synced", "pending", "start"}
      BY <2>6, Zenon DEF ProcessPendingMonitoredTxs, IsSynced, Restart, Goto, managerVars
    <3> QED BY <2>3, <3>1, Zenon
  <2>7. CASE Decide
    <3>1. UNCHANGED <<l1, lastSeq, upgrade, row, cur>> /\ pc = "decide"
      BY <2>7, Zenon DEF Decide, Goto, managerVars
    <3> QED BY <1>2, <2>3, <3>1, Zenon DEF BeforeUpgrade
  <2>8. CASE Start
    <3>1. UNCHANGED <<l1, lastSeq, upgrade, row>> /\ pc = "start"
      BY <2>8, Zenon DEF Start, managerVars
    <3>2. CASE pc' = "pending"
      BY <2>3, <3>1, <3>2, Zenon
    <3>3. CASE cur' = GetLastVirtualBatchNum + 1
      <4>1. cur' = GetLatestBatchNumber + 1
        BY <1>2, <3>1, <3>3, Zenon DEF Inv, Continues
      <4>2. upgrade # 0 => cur' <= upgrade + 1
        BY <1>2, <2>0, <4>1 DEF BeforeUpgrade
      <4> QED BY <2>3, <3>1, <4>2, Zenon
    <3> QED BY <2>8, <3>2, <3>3, Zenon DEF Start, Goto
  <2>9. CASE Collect
    <3>1. UNCHANGED <<l1, lastSeq, upgrade, row>> /\ pc = "collect"
      BY <2>9, Zenon DEF Collect, managerVars
    <3>2. upgrade # 0 => cur <= upgrade + 1
      BY <1>2, <3>1, Zenon DEF BeforeUpgrade
    <3>3. cur' = cur \/ (cur' = cur + 1 /\ ~AtUpgrade(cur - 1))
      BY <2>9, Zenon DEF Collect, Goto
    <3>4. upgrade # 0 => cur' <= upgrade + 1
      BY <2>0, <3>2, <3>3 DEF AtUpgrade
    <3> QED BY <2>3, <3>1, <3>4, Zenon
  <2>10. CASE AddSequence
    <3>1. /\ pc = "add" /\ pc' = "pending" /\ UNCHANGED <<l1, lastSeq, upgrade>>
          /\ row' = row \/ row' = [row EXCEPT ![SendId] = "pending"]
      BY <2>10, Zenon DEF AddSequence, Manager!Add, managerVars, Goto
    <3>2. upgrade # 0 => SendId[2] <= upgrade
      BY <1>2, <2>0, <3>1 DEF BeforeUpgrade, SendId
    <3>3. GetLatestBatchNumber' = GetLatestBatchNumber
      BY <3>1, Zenon DEF GetLatestBatchNumber, Sequenced
    <3>4. \A id \in SeqIds : row'[id] # "none" => row[id] # "none" \/ id = SendId
      BY <2>0, <3>1, Zenon
    <3> HIDE DEF SendId
    <3> QED BY <1>2, <3>1, <3>2, <3>3, <3>4, Zenon DEF UpgradeIsBoundary, BeforeUpgrade
  <2> QED BY <1>2, <2>1, <2>2, <2>4, <2>5, <2>6, <2>7, <2>8, <2>9, <2>10, Zenon DEF Next,
             Sender
<1> QED BY <1>1, <1>2, SenderTypes, SequencesContinue, VirtualIsPrefix, PTL DEF Spec, Inv
=============================================================================
