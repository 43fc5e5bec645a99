--------------------------- MODULE FinalizerProofs ---------------------------
(***************************************************************************)
(* Proofs about module Finalizer: the stored chain is consistent and in    *)
(* the right batches, what is stored is durable, and a closed batch never  *)
(* changes, for every set of deployments, txs and resources.               *)
(***************************************************************************)
EXTENDS Finalizer, SequenceTheorems, TLAPS

-----------------------------------------------------------------------------
(* The inductive invariant.                                                 *)

Pcs == {"top", "pick", "check", "closeBlock", "openBlock", "newBlock", "closeBatch",
        "waitProcess", "waitStore", "openBatch", "down"}
Iteration == {"top", "pick", "check"}
Finalizing == {"closeBatch", "waitProcess", "waitStore", "openBatch"}

Batch == [root : Seq(Nat), blocks : Seq(Nat), closed : BOOLEAN, res : Nat]

\* The sequence s holds the first n L2 blocks only.
Ids(s, n) == s \in Seq(Nat) /\ \A i \in 1 .. Len(s) : s[i] \in 1 .. n

IsWIPBatch(w) ==
  /\ w = [num |-> w.num, initial |-> w.initial, final |-> w.final, im |-> w.im,
          count |-> w.count, remaining |-> w.remaining]
  /\ w.num \in Nat /\ w.final \in Seq(Nat) /\ w.remaining \in 0 .. MaxRes

\* The shape of the state; TypeOK follows from it and CountInv.
RowInv == batches \in Seq(Batch) /\ Len(batches) >= 2
BlockInv == blocks \in Seq(L2Block) /\ Len(blocks) >= 1
PointerInv ==
  /\ wipL2Block \in BlockIds /\ procBlock \in BlockIds /\ storeBlock \in BlockIds
  /\ Ids(toProcess, Len(blocks)) /\ Ids(toStore, Len(blocks)) /\ Ids(closings, Len(blocks))
FlushIdInv ==
  /\ flush \in Nat /\ flushed \in Nat /\ storedFlushID \in Nat
  /\ storedFlushID <= flushed /\ flushed <= flush
OpenInv ==
  /\ pc # "down" => wipBatch.num = Len(batches)
  /\ pc \notin {"openBatch", "down"} => ~batches[Len(batches)].closed

DataInv ==
  /\ deployment \in Deployments
  /\ RowInv /\ BlockInv /\ IsWIPBatch(wipBatch) /\ PointerInv /\ FlushIdInv /\ OpenInv

\* The calls the loop is in: the last one returns into an iteration, the others into
\* openNewWIPL2Block or closeAndOpenNewWIPBatch.
IsStack(s) ==
  /\ s \in Seq({"top", "pick", "check", "newBlock", "waitProcess"})
  /\ \A i \in 1 .. Len(s) : s[i] \in Iteration <=> i = Len(s)

StackInv ==
  /\ pc \in Pcs
  /\ IsStack(stack)
  /\ pc \in Iteration => stack = <<>>
  /\ pc \notin Iteration \cup {"down"} => stack # <<>>

\* The wait groups, and what the loop knows after waiting for them.
CountInv ==
  /\ procPc \in {"idle", "send", "done"} /\ storePc \in {"idle", "flush", "done"}
  /\ processWG = Len(toProcess) + (IF procPc = "idle" THEN 0 ELSE 1)
  /\ storeWG = Len(toStore) + (IF storePc = "idle" THEN 0 ELSE 1)
  /\ pc \in {"waitStore", "openBatch"} => processWG = 0
  /\ pc = "openBatch" => storeWG = 0

\* The L2 blocks that were executed and are not stored yet.
Pending ==
  (IF storePc = "flush" THEN <<storeBlock>> ELSE <<>>) \o toStore
     \o (IF procPc = "send" THEN <<procBlock>> ELSE <<>>)

InPending(x) ==
  \/ storePc = "flush" /\ x = storeBlock
  \/ \E i \in 1 .. Len(toStore) : toStore[i] = x
  \/ procPc = "send" /\ x = procBlock

\* The closings that reached processPendingL2Blocks, or were lost with a restart.
Taken(x) == \E j \in 1 .. Len(closings) - Len(toProcess) : closings[j] = x

\* Pointers: what waits for the executor are the last closings, in their order; what
\* was executed was taken before.
QueueInv ==
  /\ Len(toProcess) <= Len(closings)
  /\ \A i \in 1 .. Len(toProcess) : toProcess[i] = closings[Len(closings) - Len(toProcess) + i]

OrderInv ==
  /\ QueueInv
  /\ \A n \in 1 .. Len(batches) : \A i \in 1 .. Len(batches[n].blocks) :
       Taken(batches[n].blocks[i])
  /\ \A x \in BlockIds : InPending(x) => Taken(x)

\* The open L2 block may have been closed before: the loop is on its way to a new one.
Stale ==
  \/ pc \in {"openBlock", "newBlock", "closeBlock", "down"}
  \/ pc \in Finalizing /\ Head(stack) = "newBlock"

WIPInv ==
  /\ ~Stale => \A j \in 1 .. Len(closings) : closings[j] # wipL2Block
  /\ wipL2Block = 1 => Stale /\ pc # "closeBlock"
  /\ blocks[1].txs = <<>> /\ \A j \in 1 .. Len(closings) : closings[j] # 1

StoredOnlyIn(x, n) ==
  \A m \in 1 .. Len(batches) : \A i \in 1 .. Len(batches[m].blocks) :
    batches[m].blocks[i] = x => m = n

\* A block that may be executed again is stored in no batch but the current one.
PlaceInv ==
  /\ \A n \in 1 .. Len(batches) : \A i \in 1 .. Len(batches[n].blocks) :
       blocks[batches[n].blocks[i]].batch = n
  /\ pc # "down" =>
       /\ \A x \in BlockIds : InPending(x) => blocks[x].batch = wipBatch.num
       /\ \A i \in 1 .. Len(toProcess) : StoredOnlyIn(toProcess[i], wipBatch.num)
  /\ pc \in {"closeBlock", "openBlock", "closeBatch"} => StoredOnlyIn(wipL2Block, wipBatch.num)

FlushInv ==
  ClosedOnce =>
    \A n \in 1 .. Len(batches) : \A i \in 1 .. Len(batches[n].blocks) :
      blocks[batches[n].blocks[i]].flush <= flushed

\* The batch n of bs, with blocks of bl, continues the one before it.
Chained(bl, bs, n) ==
  /\ bs[n].root = bs[n - 1].root \o bs[n].blocks
  /\ \A i \in 1 .. Len(bs[n].blocks) :
       bl[bs[n].blocks[i]].initial = bs[n - 1].root \o SubSeq(bs[n].blocks, 1, i - 1)

\* The blocks p of bl were executed one after the other, on top of root.
Executed(bl, root, p) ==
  \A i \in 1 .. Len(p) :
    /\ bl[p[i]].initial = root \o SubSeq(p, 1, i - 1)
    /\ bl[p[i]].root = root \o SubSeq(p, 1, i)

\* What finalStateRoot is ahead of the database by is Pending.
ChainInv ==
  unstored = {} /\ ClosedOnce =>
    /\ \A n \in 2 .. Len(batches) : Chained(blocks, batches, n)
    /\ pc # "down" =>
         /\ wipBatch.final = batches[wipBatch.num].root \o Pending
         /\ Executed(blocks, batches[wipBatch.num].root, Pending)

-----------------------------------------------------------------------------
(* The shape of the state.                                                  *)

LEMMA Constants ==
  ASSUME deployment \in Deployments
  PROVE  /\ BlockRes \in Nat /\ MaxRes \in Nat \ {0} /\ Threshold \in Int
         /\ Txs \subseteq DOMAIN Size /\ \A t \in Txs : Size[t] \in 1 .. MaxRes
BY ConstantsAssumption DEF Txs, MaxRes, Threshold

LEMMA Push ==
  ASSUME NEW s, IsStack(s), NEW r,
         \/ s = <<>> /\ r \in Iteration
         \/ s # <<>> /\ r \in {"newBlock", "waitProcess"}
  PROVE  IsStack(<<r>> \o s) /\ <<r>> \o s # <<>> /\ Head(<<r>> \o s) = r
<1> DEFINE R == {"top", "pick", "check", "newBlock", "waitProcess"}
<1>1. s \in Seq(R) /\ r \in R /\ <<r>> \in Seq(R) /\ Len(<<r>>) = 1 /\ <<r>>[1] = r
  BY DEF IsStack, Iteration
<1>2. s = <<>> <=> Len(s) = 0
  BY <1>1, EmptySeq
<1>3. /\ <<r>> \o s \in Seq(R) /\ Len(<<r>> \o s) = 1 + Len(s) /\ Len(s) \in Nat
      /\ \A i \in 1 .. 1 + Len(s) : (<<r>> \o s)[i] = IF i <= 1 THEN r ELSE s[i - 1]
  BY <1>1, ConcatProperties, LenProperties
<1>4. \A i \in 1 .. 1 + Len(s) : (<<r>> \o s)[i] \in Iteration <=> i = 1 + Len(s)
  <2> TAKE i \in 1 .. 1 + Len(s)
  <2>1. CASE i = 1
    <3>1. {"newBlock", "waitProcess"} \cap Iteration = {}
      BY DEF Iteration
    <3> QED BY <1>2, <1>3, <2>1, <3>1
  <2>2. CASE i # 1
    <3>1. i - 1 \in 1 .. Len(s) /\ (<<r>> \o s)[i] = s[i - 1]
      BY <1>3, <2>2
    <3> QED BY <1>3, <3>1 DEF IsStack
  <2> QED BY <2>1, <2>2
<1>5. <<r>> \o s # <<>>
  BY <1>3
<1>6. Head(<<r>> \o s) = r
  BY <1>3, <1>5
<1> QED BY <1>3, <1>4, <1>5, <1>6 DEF IsStack

LEMMA Pop ==
  ASSUME NEW s, IsStack(s), s # <<>>
  PROVE  /\ IsStack(Tail(s))
         /\ Head(s) \in {"top", "pick", "check", "newBlock", "waitProcess"}
         /\ Head(s) \in Iteration <=> Tail(s) = <<>>
<1> DEFINE R == {"top", "pick", "check", "newBlock", "waitProcess"}
<1>1. s \in Seq(R)
  BY DEF IsStack
<1>2. /\ Head(s) \in R /\ Tail(s) \in Seq(R) /\ Len(Tail(s)) = Len(s) - 1 /\ Len(s) \in Nat \ {0}
      /\ \A i \in 1 .. Len(Tail(s)) : Tail(s)[i] = s[i + 1]
  BY <1>1, HeadTailProperties, EmptySeq
<1>3. Head(s) = s[1]
  BY <1>1, <1>2
<1>4. \A i \in 1 .. Len(Tail(s)) : Tail(s)[i] \in Iteration <=> i = Len(Tail(s))
  <2> TAKE i \in 1 .. Len(Tail(s))
  <2>1. i + 1 \in 1 .. Len(s) /\ (i + 1 = Len(s) <=> i = Len(Tail(s))) /\ Tail(s)[i] = s[i + 1]
    BY <1>2
  <2> QED BY <2>1 DEF IsStack
<1>5. Tail(s) = <<>> <=> Len(s) = 1
  BY <1>2, EmptySeq
<1>6. 1 \in 1 .. Len(s)
  BY <1>2
<1>7. Head(s) \in Iteration <=> Len(s) = 1
  BY <1>3, <1>6, Zenon DEF IsStack
<1> QED BY <1>2, <1>4, <1>5, <1>7, Zenon DEF IsStack

LEMMA StackPreserved == StackInv /\ [Next]_vars => StackInv'
<1> SUFFICES ASSUME StackInv, [Next]_vars
             PROVE  StackInv'
  OBVIOUS
<1> USE DEF Pcs, Iteration
<1>1. ASSUME NEW p \in Pcs \ Iteration, NEW r, Call(p, r),
             \/ pc \in Iteration /\ r \in Iteration
             \/ pc \notin Iteration \cup {"down"} /\ r \in {"newBlock", "waitProcess"}
      PROVE  StackInv'
  <2>1. \/ stack = <<>> /\ r \in Iteration
        \/ stack # <<>> /\ r \in {"newBlock", "waitProcess"}
    BY <1>1, Zenon DEF StackInv
  <2>2. IsStack(stack') /\ stack' # <<>>
    BY <1>1, <2>1, Push, Zenon DEF StackInv, Call
  <2> QED BY <1>1, <2>2, Zenon DEF StackInv, Call
<1>2. ASSUME Return, pc \notin Iteration \cup {"down"}
      PROVE  StackInv'
  <2>1. IsStack(stack) /\ stack # <<>>
    BY <1>2, Zenon DEF StackInv
  <2>2. /\ IsStack(stack') /\ pc' \in {"top", "pick", "check", "newBlock", "waitProcess"}
        /\ pc' \in Iteration <=> stack' = <<>>
    BY <1>2, <2>1, Pop, Zenon DEF Return
  <2> QED BY <2>2 DEF StackInv
<1>3. ASSUME UNCHANGED stack, pc \in Iteration /\ pc' \in Iteration
      PROVE  StackInv'
  BY <1>3 DEF StackInv
<1>4. ASSUME UNCHANGED stack, pc \notin Iteration \cup {"down"}, pc' \in Pcs \ Iteration
      PROVE  StackInv'
  BY <1>4 DEF StackInv
<1>5. ASSUME UNCHANGED <<pc, stack>>
      PROVE  StackInv'
  BY <1>5, Zenon DEF StackInv
<1>6. CASE L2BlockTime
  BY <1>1, <1>6 DEF L2BlockTime
<1>7. CASE NoFittingTransaction
  BY <1>1, <1>7 DEF NoFittingTransaction
<1>8. CASE NoTransaction
  BY <1>3, <1>8 DEF NoTransaction
<1>9. CASE \E t \in Txs : ProcessTransaction(t)
  BY <1>3, <1>9 DEF ProcessTransaction
<1>10. CASE FullBatch \/ Deadline
  BY <1>1, <1>10 DEF FullBatch, Deadline
<1>11. CASE NextIteration
  BY <1>3, <1>11 DEF NextIteration
<1>12. CASE CloseWIPL2Block
  BY <1>4, <1>12 DEF CloseWIPL2Block
<1>13. CASE OpenNewWIPL2Block
  <2>1. pc = "openBlock" /\ (Call("closeBatch", "newBlock") \/ Return)
    BY <1>13, Zenon DEF OpenNewWIPL2Block
  <2> QED BY <1>1, <1>2, <2>1
<1>14. CASE OpenAfterBatch
  BY <1>2, <1>14 DEF OpenAfterBatch
<1>15. CASE FinalizeBatch
  <2>1. pc = "closeBatch" /\ (Call("closeBlock", "waitProcess") \/ (pc' = "waitProcess" /\ UNCHANGED stack))
    BY <1>15, Zenon DEF FinalizeBatch
  <2> QED BY <1>1, <1>4, <2>1
<1>16. CASE WaitProcessed
  BY <1>4, <1>16 DEF WaitProcessed
<1>17. CASE CloseWIPBatch
  <2>1. pc = "waitStore" /\ pc' \in {"down", "openBatch"} /\ UNCHANGED stack
    BY <1>17 DEF CloseWIPBatch
  <2> QED BY <1>4, <2>1
<1>18. CASE OpenNewWIPBatch
  <2>1. pc = "openBatch" /\ (Return \/ (pc' = "down" /\ UNCHANGED stack))
    BY <1>18, Zenon DEF OpenNewWIPBatch
  <2> QED BY <1>2, <1>4, <2>1
<1>19. CASE \/ ProcessPendingL2Blocks \/ StorePendingL2Blocks \/ UpdateProverIdAndFlushId
            \/ ParallelCheck \/ ExecutorStores
  BY <1>5, <1>19, Zenon DEF ProcessPendingL2Blocks, StorePendingL2Blocks, UpdateProverIdAndFlushId,
     ParallelCheck, ExecutorStores, ProcessL2Block, AddPendingL2BlockToStore, ProcessDone,
     TakeL2BlockToStore, StoreL2Block, StoreFails, StoreDone, FlushIDCheck, FlushIDWait, FlushIDPoll, loopVars
<1>20. CASE Restart
  <2>1. \/ pc' = "openBlock" /\ stack' = <<"top">>
        \/ pc' = "down" /\ UNCHANGED stack
    BY <1>20, Zenon DEF Restart, Start
  <2>2. IsStack(<<"top">>) /\ <<"top">> # <<>>
    BY DEF IsStack
  <2>3. CASE pc' = "openBlock" /\ stack' = <<"top">>
    BY <2>2, <2>3 DEF StackInv
  <2>4. CASE pc' = "down" /\ UNCHANGED stack
    BY <2>4 DEF StackInv
  <2> QED BY <2>1, <2>3, <2>4
<1>21. CASE UNCHANGED vars
  BY <1>5, <1>21, Zenon DEF vars, nodeVars, loopVars
<1> QED BY <1>6, <1>7, <1>8, <1>9, <1>10, <1>11, <1>12, <1>13, <1>14, <1>15, <1>16, <1>17, <1>18, <1>19, <1>20, <1>21, Zenon DEF Next, FinalizeBatches

LEMMA IdsFacts ==
  ASSUME NEW s, NEW n \in Nat, Ids(s, n)
  PROVE  /\ s \in Seq(Nat) /\ Len(s) \in Nat
         /\ \A m \in Nat : n <= m => Ids(s, m)
         /\ \A x \in 1 .. n : Ids(Append(s, x), n)
         /\ s # <<>> => Head(s) \in 1 .. n /\ Ids(Tail(s), n)
<1>1. s \in Seq(Nat) /\ Len(s) \in Nat
  BY LenProperties DEF Ids
<1>2. ASSUME NEW m \in Nat, n <= m PROVE Ids(s, m)
  BY <1>2 DEF Ids
<1>3. ASSUME NEW x \in 1 .. n PROVE Ids(Append(s, x), n)
  BY <1>1, AppendProperties DEF Ids
<1>4. ASSUME s # <<>> PROVE Head(s) \in 1 .. n /\ Ids(Tail(s), n)
  <2>1. /\ Tail(s) \in Seq(Nat) /\ Len(Tail(s)) = Len(s) - 1 /\ Len(s) \in Nat \ {0}
        /\ \A i \in 1 .. Len(Tail(s)) : Tail(s)[i] = s[i + 1]
    BY <1>1, <1>4, HeadTailProperties, EmptySeq
  <2>2. Head(s) = s[1]
    BY <1>1, <2>1
  <2> QED BY <2>1, <2>2 DEF Ids
<1> QED BY <1>1, <1>2, <1>3, <1>4

\* Several fields of a record replaced at once.
LEMMA BlockFields ==
  ASSUME NEW o \in L2Block, NEW x, NEW y
  PROVE  [o EXCEPT !.txs = x, !.used = y] =
           [txs |-> x, used |-> y, initial |-> o.initial, root |-> o.root,
            flush |-> o.flush, batch |-> o.batch]
<1>1. DOMAIN o = {"txs", "used", "initial", "root", "flush", "batch"}
  BY DEF L2Block
<1> DEFINE l == [o EXCEPT !.txs = x, !.used = y]
<1> DEFINE r == [txs |-> x, used |-> y, initial |-> o.initial, root |-> o.root,
                 flush |-> o.flush, batch |-> o.batch]
<1>2. l = [f \in DOMAIN o |-> IF f = "used" THEN y ELSE IF f = "txs" THEN x ELSE o[f]]
  BY Zenon
<1>3. r = [f \in {"txs", "used", "initial", "root", "flush", "batch"} |->
             IF f = "used" THEN y ELSE IF f = "txs" THEN x ELSE o[f]]
  OBVIOUS
<1> QED BY <1>1, <1>2, <1>3, Zenon

LEMMA ExecutedFields ==
  ASSUME NEW o \in L2Block, NEW i, NEW r, NEW f, NEW b
  PROVE  [o EXCEPT !.initial = i, !.root = r, !.flush = f, !.batch = b] =
           [txs |-> o.txs, used |-> o.used, initial |-> i, root |-> r, flush |-> f, batch |-> b]
<1> DEFINE D == {"txs", "used", "initial", "root", "flush", "batch"}
<1> DEFINE v(x) == IF x = "batch" THEN b ELSE IF x = "flush" THEN f
                   ELSE IF x = "root" THEN r ELSE IF x = "initial" THEN i ELSE o[x]
<1>1. DOMAIN o = D
  BY DEF L2Block
<1>2. [o EXCEPT !.initial = i, !.root = r, !.flush = f, !.batch = b] = [x \in DOMAIN o |-> v(x)]
  BY Zenon
<1>3. [txs |-> o.txs, used |-> o.used, initial |-> i, root |-> r, flush |-> f, batch |-> b]
        = [x \in D |-> v(x)]
  OBVIOUS
<1> QED BY <1>1, <1>2, <1>3, Zenon

LEMMA ClosedFields ==
  ASSUME NEW o \in Batch, NEW c, NEW n
  PROVE  [o EXCEPT !.closed = c, !.res = n] =
           [root |-> o.root, blocks |-> o.blocks, closed |-> c, res |-> n]
<1> DEFINE D == {"root", "blocks", "closed", "res"}
<1> DEFINE v(x) == IF x = "res" THEN n ELSE IF x = "closed" THEN c ELSE o[x]
<1>1. DOMAIN o = D
  BY DEF Batch
<1>2. [o EXCEPT !.closed = c, !.res = n] = [x \in DOMAIN o |-> v(x)]
  BY Zenon
<1>3. [root |-> o.root, blocks |-> o.blocks, closed |-> c, res |-> n] = [x \in D |-> v(x)]
  OBVIOUS
<1> QED BY <1>1, <1>2, <1>3, Zenon

LEMMA StoredFields ==
  ASSUME NEW o \in Batch, NEW b, NEW r, NEW n
  PROVE  [o EXCEPT !.blocks = b, !.root = r, !.res = n] =
           [root |-> r, blocks |-> b, closed |-> o.closed, res |-> n]
<1> DEFINE D == {"root", "blocks", "closed", "res"}
<1> DEFINE v(x) == IF x = "res" THEN n ELSE IF x = "root" THEN r ELSE IF x = "blocks" THEN b ELSE o[x]
<1>1. DOMAIN o = D
  BY DEF Batch
<1>2. [o EXCEPT !.blocks = b, !.root = r, !.res = n] = [x \in DOMAIN o |-> v(x)]
  BY Zenon
<1>3. [root |-> r, blocks |-> b, closed |-> o.closed, res |-> n] = [x \in D |-> v(x)]
  OBVIOUS
<1> QED BY <1>1, <1>2, <1>3, Zenon

LEMMA NoIds == \A n : Ids(<<>>, n)
BY DEF Ids

\* A record of a WIP batch, field by field.
LEMMA WIPFields ==
  ASSUME NEW w, IsWIPBatch(w)
  PROVE  /\ \A r \in 0 .. MaxRes :
              /\ IsWIPBatch([w EXCEPT !.remaining = r])
              /\ [w EXCEPT !.remaining = r].num = w.num
              /\ [w EXCEPT !.remaining = r].final = w.final
         /\ \A s \in Seq(Nat) :
              /\ IsWIPBatch([w EXCEPT !.final = s])
              /\ [w EXCEPT !.final = s].num = w.num
              /\ [w EXCEPT !.final = s].final = s
<1>1. ASSUME NEW r \in 0 .. MaxRes
      PROVE  [w EXCEPT !.remaining = r] =
               [num |-> w.num, initial |-> w.initial, final |-> w.final, im |-> w.im,
                count |-> w.count, remaining |-> r]
  BY DEF IsWIPBatch
<1>2. ASSUME NEW s
      PROVE  [w EXCEPT !.final = s] =
               [num |-> w.num, initial |-> w.initial, final |-> s, im |-> w.im,
                count |-> w.count, remaining |-> w.remaining]
  <2>1. w = [num |-> w.num, initial |-> w.initial, final |-> w.final, im |-> w.im,
             count |-> w.count, remaining |-> w.remaining]
    BY DEF IsWIPBatch
  <2> QED BY <2>1
<1>3. w.num \in Nat /\ w.final \in Seq(Nat) /\ w.remaining \in 0 .. MaxRes
  BY DEF IsWIPBatch
<1>4. ASSUME NEW r \in 0 .. MaxRes
      PROVE  /\ IsWIPBatch([w EXCEPT !.remaining = r])
             /\ [w EXCEPT !.remaining = r].num = w.num
             /\ [w EXCEPT !.remaining = r].final = w.final
  <2> DEFINE v == [num |-> w.num, initial |-> w.initial, final |-> w.final, im |-> w.im,
                   count |-> w.count, remaining |-> r]
  <2>1. [w EXCEPT !.remaining = r] = v
    BY <1>1
  <2>2. IsWIPBatch(v) /\ v.num = w.num /\ v.final = w.final
    BY <1>3 DEF IsWIPBatch
  <2> QED BY <2>1, <2>2, Zenon
<1>5. ASSUME NEW s \in Seq(Nat)
      PROVE  /\ IsWIPBatch([w EXCEPT !.final = s])
             /\ [w EXCEPT !.final = s].num = w.num
             /\ [w EXCEPT !.final = s].final = s
  <2> DEFINE v == [num |-> w.num, initial |-> w.initial, final |-> s, im |-> w.im,
                   count |-> w.count, remaining |-> w.remaining]
  <2>1. [w EXCEPT !.final = s] = v
    BY <1>2
  <2>2. IsWIPBatch(v) /\ v.num = w.num /\ v.final = s
    BY <1>3 DEF IsWIPBatch
  <2> QED BY <2>1, <2>2, Zenon
<1> QED BY <1>4, <1>5

\* The steps that leave the data alone, but for the flush ids given.
LEMMA QuietData ==
  ASSUME DataInv, UNCHANGED <<deployment, batches, blocks, wipBatch, wipL2Block>>,
         PointerInv', FlushIdInv',
         pc = "down" => pc' = "down",
         pc = "openBatch" => pc' \in {"openBatch", "down"}
  PROVE  DataInv'
<1>1. RowInv' /\ BlockInv' /\ IsWIPBatch(wipBatch)'
  BY Zenon DEF DataInv, RowInv, BlockInv, IsWIPBatch, MaxRes
<1>2. OpenInv'
  BY Zenon DEF DataInv, OpenInv
<1> QED BY <1>1, <1>2, Zenon DEF DataInv

LEMMA SamePointers ==
  ASSUME PointerInv, UNCHANGED <<wipL2Block, procBlock, storeBlock, toProcess, toStore, closings>>,
         Len(blocks') = Len(blocks)
  PROVE  PointerInv'
BY Zenon DEF PointerInv, BlockIds

LEMMA SameFlushIds ==
  ASSUME FlushIdInv, UNCHANGED <<flushed, storedFlushID>>, flush' = flush \/ flush' = flush + 1
  PROVE  FlushIdInv'
BY DEF FlushIdInv

LEMMA ProcessTransactionData ==
  ASSUME DataInv, deployment' = deployment, NEW t \in Txs, ProcessTransaction(t)
  PROVE  /\ DataInv' /\ Len(blocks') = Len(blocks)
         /\ wipBatch'.num = wipBatch.num /\ wipBatch'.final = wipBatch.final
         /\ \A b \in BlockIds : /\ blocks'[b].batch = blocks[b].batch
                                /\ blocks'[b].flush = blocks[b].flush
                                /\ blocks'[b].initial = blocks[b].initial
                                /\ blocks'[b].root = blocks[b].root
                                /\ b # wipL2Block => blocks'[b] = blocks[b]
<1> USE DEF DataInv
<1>1. /\ BlockRes \in Nat /\ MaxRes \in Nat /\ t \in DOMAIN Size /\ Size[t] \in 1 .. MaxRes
  BY Constants
<1>2. /\ IsWIPBatch(wipBatch') /\ wipBatch'.num = wipBatch.num /\ wipBatch'.final = wipBatch.final
  <2> DEFINE r == wipBatch.remaining - Size[t]
  <2> DEFINE v == [num |-> wipBatch.num, initial |-> wipBatch.initial, final |-> wipBatch.final,
                   im |-> Append(wipBatch.im, t), count |-> wipBatch.count + 1, remaining |-> r]
  <2>1. wipBatch' = v
    BY Zenon DEF ProcessTransaction, IsWIPBatch
  <2>2. r \in 0 .. MaxRes /\ wipBatch.num \in Nat /\ wipBatch.final \in Seq(Nat)
    BY <1>1 DEF ProcessTransaction, Fitting, IsWIPBatch
  <2> HIDE DEF r
  <2>3. IsWIPBatch(v) /\ v.num = wipBatch.num /\ v.final = wipBatch.final
    BY <2>2 DEF IsWIPBatch
  <2> QED BY <2>1, <2>3, Zenon
<1>3. PICK e \in L2Block :
        /\ blocks' = [blocks EXCEPT ![wipL2Block] = e]
        /\ e.batch = blocks[wipL2Block].batch /\ e.flush = blocks[wipL2Block].flush
        /\ e.initial = blocks[wipL2Block].initial /\ e.root = blocks[wipL2Block].root
  <2> DEFINE o == blocks[wipL2Block]
  <2> DEFINE txs == Append(o.txs, t)
  <2> DEFINE used == o.used + Size[t]
  <2> DEFINE e == [txs |-> txs, used |-> used, initial |-> o.initial, root |-> o.root,
                   flush |-> o.flush, batch |-> o.batch]
  <2>1. o \in L2Block
    BY ElementOfSeq DEF BlockInv, PointerInv, BlockIds
  <2>2. txs \in Seq(DOMAIN Size) /\ used \in Nat
    BY <1>1, <2>1, AppendProperties DEF L2Block
  <2>3. blocks' = [blocks EXCEPT ![wipL2Block] = [o EXCEPT !.txs = txs, !.used = used]]
    BY Zenon DEF ProcessTransaction
  <2> HIDE DEF o, txs, used
  <2>4. e \in L2Block /\ e.batch = o.batch /\ e.flush = o.flush /\ e.initial = o.initial /\ e.root = o.root
    BY <2>1, <2>2 DEF L2Block
  <2>5. [o EXCEPT !.txs = txs, !.used = used] = e
    BY <2>1, BlockFields, Zenon
  <2> HIDE DEF e
  <2>6. blocks' = [blocks EXCEPT ![wipL2Block] = e]
    BY <2>3, <2>5, Zenon
  <2> QED BY <2>4, <2>6, Zenon DEF o
<1>4. /\ BlockInv' /\ Len(blocks') = Len(blocks)
      /\ \A b \in BlockIds : blocks'[b] = IF b = wipL2Block THEN e ELSE blocks[b]
  BY <1>3, ExceptSeq DEF BlockInv, PointerInv, BlockIds
<1>5. PointerInv'
  BY <1>4, SamePointers, Zenon DEF ProcessTransaction, processVars, storeVars
<1>6. FlushIdInv'
  <2>1. storedFlushID' = storedFlushID
    BY Zenon DEF ProcessTransaction, UpdateLastPendingFlushID, flushVars
  <2> QED BY <2>1, SameFlushIds, Zenon DEF ProcessTransaction
<1>7. IsWIPBatch(wipBatch)'
  BY <1>2, Zenon DEF IsWIPBatch, MaxRes
<1>8. OpenInv'
  BY <1>2 DEF OpenInv, ProcessTransaction
<1>9. RowInv'
  BY Zenon DEF RowInv, ProcessTransaction
<1> QED BY <1>2, <1>3, <1>4, <1>5, <1>6, <1>7, <1>8, <1>9, Zenon

LEMMA NewL2BlockData ==
  ASSUME DataInv, NewL2Block, UNCHANGED <<procBlock, storeBlock, toProcess, toStore, closings>>
  PROVE  /\ BlockInv' /\ PointerInv' /\ Len(blocks') = Len(blocks) + 1
         /\ wipL2Block' = Len(blocks) + 1
         /\ \A b \in BlockIds : blocks'[b] = blocks[b]
<1> USE DEF DataInv
<1>1. EmptyL2Block \in L2Block
  BY ConstantsAssumption DEF EmptyL2Block, L2Block
<1>2. /\ BlockInv' /\ Len(blocks') = Len(blocks) + 1 /\ wipL2Block' = Len(blocks) + 1
      /\ \A b \in BlockIds : blocks'[b] = blocks[b]
  BY <1>1, AppendProperties DEF NewL2Block, BlockInv, BlockIds
<1>3. Len(blocks) \in Nat
  BY LenProperties DEF BlockInv
<1>4. Ids(toProcess, Len(blocks))' /\ Ids(toStore, Len(blocks))' /\ Ids(closings, Len(blocks))'
  <2>1. Len(blocks') \in Nat /\ Len(blocks) <= Len(blocks')
    BY <1>2, <1>3
  <2>2. \A s : Ids(s, Len(blocks)) => Ids(s, Len(blocks'))
    BY <1>3, <2>1, IdsFacts
  <2> QED BY <2>2, Zenon DEF PointerInv
<1>5. wipL2Block' \in BlockIds' /\ procBlock' \in BlockIds' /\ storeBlock' \in BlockIds'
  BY <1>2, <1>3 DEF PointerInv, BlockIds
<1> QED BY <1>2, <1>4, <1>5, Zenon DEF PointerInv

LEMMA CloseWIPL2BlockData ==
  ASSUME DataInv, deployment' = deployment, CloseWIPL2Block
  PROVE  DataInv'
<1> USE DEF DataInv
<1>1. Len(blocks) \in Nat
  BY LenProperties DEF BlockInv
<1>2. Ids(toProcess', Len(blocks)) /\ Ids(closings', Len(blocks))
  BY <1>1, IdsFacts, Zenon DEF PointerInv, CloseWIPL2Block, BlockIds
<1>3. PointerInv'
  BY <1>2, Zenon DEF PointerInv, BlockIds, CloseWIPL2Block, storeVars
<1>4. FlushIdInv'
  BY SameFlushIds, Zenon DEF CloseWIPL2Block, flushVars
<1>5. pc = "closeBlock"
  BY Zenon DEF CloseWIPL2Block
<1>6. pc # "down" /\ pc # "openBatch"
  BY <1>5
<1> QED BY <1>3, <1>4, <1>6, QuietData, Zenon DEF CloseWIPL2Block

LEMMA OpenNewWIPL2BlockData ==
  ASSUME DataInv, deployment' = deployment, OpenNewWIPL2Block
  PROVE  /\ DataInv' /\ wipBatch'.num = wipBatch.num /\ wipBatch'.final = wipBatch.final
         /\ Len(blocks') >= Len(blocks)
         /\ \A b \in BlockIds : blocks'[b] = blocks[b]
         /\ \/ Call("closeBatch", "newBlock") /\ wipL2Block' = wipL2Block
            \/ Return /\ wipL2Block' = Len(blocks) + 1
<1> USE DEF DataInv
<1> DEFINE fits == BlockRes <= wipBatch.remaining
<1> DEFINE rem == IF fits THEN wipBatch.remaining - BlockRes ELSE wipBatch.remaining
<1>1. rem \in 0 .. MaxRes
  BY Constants DEF IsWIPBatch
<1>2. wipBatch' = [wipBatch EXCEPT !.remaining = rem]
  BY DEF OpenNewWIPL2Block
<1> HIDE DEF rem
<1>3. IsWIPBatch(wipBatch') /\ wipBatch'.num = wipBatch.num /\ wipBatch'.final = wipBatch.final
  BY <1>1, <1>2, WIPFields, Zenon
<1>4. \/ Call("closeBatch", "newBlock") /\ UNCHANGED <<blocks, wipL2Block>>
      \/ Return /\ NewL2Block
  BY Zenon DEF OpenNewWIPL2Block
<1>5. Len(blocks) \in Nat
  BY LenProperties DEF BlockInv
<1>6. UNCHANGED <<batches, procBlock, storeBlock, toProcess, toStore, closings, flush, flushed, storedFlushID>>
  BY Zenon DEF OpenNewWIPL2Block, processVars, storeVars, executorVars, flushVars
<1>7. /\ BlockInv' /\ PointerInv' /\ Len(blocks') >= Len(blocks) /\ \A b \in BlockIds : blocks'[b] = blocks[b]
      /\ \/ Call("closeBatch", "newBlock") /\ wipL2Block' = wipL2Block
         \/ Return /\ wipL2Block' = Len(blocks) + 1
  <2>1. CASE Call("closeBatch", "newBlock") /\ UNCHANGED <<blocks, wipL2Block>>
    <3>1. BlockInv' /\ PointerInv'
      BY <1>6, <2>1, Zenon DEF BlockInv, PointerInv, BlockIds
    <3> QED BY <1>5, <2>1, <3>1
  <2>2. CASE Return /\ NewL2Block
    <3>1. BlockInv' /\ PointerInv' /\ Len(blocks') = Len(blocks) + 1
      BY <1>6, <2>2, NewL2BlockData, Zenon
    <3>2. Len(blocks') >= Len(blocks)
      BY <1>5, <3>1
    <3> QED BY <1>6, <2>2, <3>1, <3>2, NewL2BlockData, Zenon
  <2> QED BY <1>4, <2>1, <2>2, Zenon
<1>8. OpenInv'
  <2>1. pc = "openBlock"
    BY Zenon DEF OpenNewWIPL2Block
  <2>2. wipBatch.num = Len(batches) /\ ~batches[Len(batches)].closed
    BY <2>1 DEF OpenInv
  <2> QED BY <1>3, <1>6, <2>2, Zenon DEF OpenInv
<1>9. FlushIdInv' /\ RowInv' /\ IsWIPBatch(wipBatch)'
  BY <1>3, <1>6, Zenon DEF FlushIdInv, RowInv, IsWIPBatch, MaxRes
<1> QED BY <1>3, <1>7, <1>8, <1>9, Zenon

LEMMA OpenAfterBatchData ==
  ASSUME DataInv, deployment' = deployment, OpenAfterBatch
  PROVE  DataInv'
<1> USE DEF DataInv
<1>1. /\ UNCHANGED <<batches, wipBatch, procBlock, storeBlock, toProcess, toStore, closings, flush, flushed, storedFlushID>>
      /\ NewL2Block /\ pc = "newBlock"
  BY Zenon DEF OpenAfterBatch, processVars, storeVars, executorVars, flushVars
<1>2. BlockInv' /\ PointerInv'
  BY <1>1, NewL2BlockData, Zenon
<1>3. OpenInv'
  <2>1. wipBatch.num = Len(batches) /\ ~batches[Len(batches)].closed
    BY <1>1 DEF OpenInv
  <2> QED BY <1>1, <2>1, Zenon DEF OpenInv
<1>4. FlushIdInv' /\ RowInv' /\ IsWIPBatch(wipBatch)'
  BY <1>1, Zenon DEF FlushIdInv, RowInv, IsWIPBatch, MaxRes
<1> QED BY <1>2, <1>3, <1>4, Zenon

\* A row of the database after an update, field by field.
LEMMA RowUpdate ==
  ASSUME RowInv, NEW n \in 1 .. Len(batches), NEW r \in Batch, batches' = [batches EXCEPT ![n] = r]
  PROVE  /\ RowInv' /\ Len(batches') = Len(batches) /\ batches'[n] = r
         /\ \A m \in 1 .. Len(batches) : m # n => batches'[m] = batches[m]
BY ExceptSeq DEF RowInv

LEMMA CloseWIPBatchData ==
  ASSUME DataInv, deployment' = deployment, CloseWIPBatch
  PROVE  /\ DataInv' /\ Len(batches') = Len(batches)
         /\ \A n \in 1 .. Len(batches) : /\ batches'[n].root = batches[n].root
                                         /\ batches'[n].blocks = batches[n].blocks
                                         /\ batches[n].closed => batches'[n].closed
<1> USE DEF DataInv
<1> DEFINE n == wipBatch.num
<1>0. pc = "waitStore" /\ pc' \in {"openBatch", "down"}
  BY DEF CloseWIPBatch
<1>1. /\ n = Len(batches) /\ n \in 1 .. Len(batches) /\ ~batches[Len(batches)].closed
      /\ Len(batches) \in Nat
  BY <1>0, LenProperties DEF OpenInv, RowInv
<1>2. /\ RowInv' /\ Len(batches') = Len(batches)
      /\ \A m \in 1 .. Len(batches) : /\ batches'[m].root = batches[m].root
                                      /\ batches'[m].blocks = batches[m].blocks
                                      /\ batches[m].closed => batches'[m].closed
  <2>1. CASE batches' = batches
    BY <2>1, Zenon DEF RowInv
  <2>2. CASE batches' = [batches EXCEPT ![n].closed = TRUE, ![n].res = MaxRes - wipBatch.remaining]
    <3> DEFINE o == batches[n]
    <3> DEFINE res == MaxRes - wipBatch.remaining
    <3> DEFINE r == [root |-> o.root, blocks |-> o.blocks, closed |-> TRUE, res |-> res]
    <3>1. o \in Batch
      BY <1>1, ElementOfSeq DEF RowInv
    <3>2. res \in Nat
      BY Constants DEF IsWIPBatch
    <3>3. batches' = [batches EXCEPT ![n] = [o EXCEPT !.closed = TRUE, !.res = res]]
      BY <2>2, Zenon
    <3> HIDE DEF o, res
    <3>4. r \in Batch /\ r.root = o.root /\ r.blocks = o.blocks /\ r.closed = TRUE
      BY <3>1, <3>2 DEF Batch
    <3>5. [o EXCEPT !.closed = TRUE, !.res = res] = r
      BY <3>1, ClosedFields, Zenon
    <3> HIDE DEF r
    <3>6. batches' = [batches EXCEPT ![n] = r]
      BY <3>3, <3>5, Zenon
    <3>7. /\ RowInv' /\ Len(batches') = Len(batches) /\ batches'[n] = r
          /\ \A m \in 1 .. Len(batches) : m # n => batches'[m] = batches[m]
      BY <1>1, <3>4, <3>6, RowUpdate, Zenon
    <3>8. batches'[n].closed
      BY <3>4, <3>7
    <3> QED BY <3>4, <3>7, <3>8, Zenon DEF o
  <2> QED BY <2>1, <2>2, Zenon DEF CloseWIPBatch
<1>3. PointerInv' /\ BlockInv' /\ IsWIPBatch(wipBatch)'
  BY Zenon DEF CloseWIPBatch, PointerInv, BlockIds, BlockInv, IsWIPBatch, MaxRes, processVars, storeVars
<1>4. FlushIdInv'
  BY SameFlushIds, Zenon DEF CloseWIPBatch, flushVars
<1>5. OpenInv'
  <2>1. wipBatch' = wipBatch
    BY Zenon DEF CloseWIPBatch
  <2> QED BY <1>0, <1>1, <1>2, <2>1 DEF OpenInv
<1> QED BY <1>2, <1>3, <1>4, <1>5, Zenon

LEMMA NewRow ==
  ASSUME RowInv, NEW root \in Seq(Nat), batches' = Append(batches, StateBatch(root))
  PROVE  /\ RowInv' /\ Len(batches') = Len(batches) + 1
         /\ batches'[Len(batches) + 1].root = root
         /\ batches'[Len(batches) + 1].blocks = <<>>
         /\ ~batches'[Len(batches) + 1].closed
         /\ \A n \in 1 .. Len(batches) : batches'[n] = batches[n]
<1>1. /\ StateBatch(root) \in Batch /\ StateBatch(root).root = root
      /\ StateBatch(root).blocks = <<>> /\ ~StateBatch(root).closed
  BY DEF StateBatch, Batch
<1> QED BY <1>1, AppendProperties DEF RowInv

LEMMA NewWIP ==
  ASSUME DataInv, NEW n \in Nat, NEW root \in Seq(Nat)
  PROVE  /\ IsWIPBatch(NewWIPBatch(n, root)) /\ NewWIPBatch(n, root).num = n
         /\ NewWIPBatch(n, root).final = root
<1>1. MaxRes \in 0 .. MaxRes
  BY Constants DEF DataInv
<1> HIDE DEF MaxRes
<1> DEFINE im == TxsOfBlocks(root)
<1>2. NewWIPBatch(n, root) = [num |-> n, initial |-> root, final |-> root, im |-> im,
                              count |-> 0, remaining |-> MaxRes]
  BY Zenon DEF NewWIPBatch
<1> HIDE DEF im
<1> QED BY <1>1, <1>2 DEF IsWIPBatch

LEMMA OldWIP ==
  ASSUME DataInv, batches[Len(batches)].res <= MaxRes
  PROVE  /\ IsWIPBatch(SetWIPBatch(Len(batches))) /\ SetWIPBatch(Len(batches)).num = Len(batches)
         /\ SetWIPBatch(Len(batches)).final = batches[Len(batches)].root
<1> DEFINE n == Len(batches)
<1> DEFINE im == TxsOfBlocks(batches[n].root)
<1> DEFINE count == Len(TxsOfBlocks(batches[n].blocks))
<1> DEFINE initial == batches[n - 1].root
<1> DEFINE rem == MaxRes - batches[n].res
<1> DEFINE final == batches[n].root
<1>1. n \in Nat /\ batches[n] \in Batch
  BY ElementOfSeq, LenProperties DEF DataInv, RowInv
<1>2. rem \in 0 .. MaxRes /\ final \in Seq(Nat)
  BY <1>1, Constants DEF DataInv, Batch
<1>3. SetWIPBatch(n) = [num |-> n, initial |-> initial, final |-> final, im |-> im,
                        count |-> count, remaining |-> rem]
  BY Zenon DEF SetWIPBatch
<1> HIDE DEF n, im, count, initial, rem, final
<1>4. /\ IsWIPBatch(SetWIPBatch(n)) /\ SetWIPBatch(n).num = n /\ SetWIPBatch(n).final = final
  BY <1>1, <1>2, <1>3 DEF IsWIPBatch
<1> QED BY <1>4 DEF n, final

LEMMA OpenNewWIPBatchData ==
  ASSUME DataInv, deployment' = deployment, OpenNewWIPBatch
  PROVE  /\ DataInv'
         /\ \/ /\ batches' = Append(batches, StateBatch(wipBatch.final))
               /\ wipBatch.num = Len(batches)
               /\ pc' = "down" \/ (Return /\ wipBatch'.num = Len(batches) + 1 /\ wipBatch'.final = wipBatch.final)
            \/ batches' = batches /\ pc' = "down"
<1> USE DEF DataInv
<1> DEFINE n == wipBatch.num + 1
<1>0. pc = "openBatch"
  BY Zenon DEF OpenNewWIPBatch
<1>1. wipBatch.num = Len(batches) /\ Len(batches) \in Nat /\ wipBatch.final \in Seq(Nat)
  BY <1>0, LenProperties DEF OpenInv, RowInv, IsWIPBatch
<1>2. PointerInv' /\ BlockInv' /\ FlushIdInv'
  BY Zenon DEF OpenNewWIPBatch, PointerInv, BlockIds, BlockInv, FlushIdInv, processVars, storeVars,
     executorVars, flushVars
<1>3. CASE ~Openable(n)
  <2>1. batches' = batches /\ wipBatch' = wipBatch /\ pc' = "down"
    BY <1>3, Zenon DEF OpenNewWIPBatch
  <2>2. RowInv' /\ IsWIPBatch(wipBatch)' /\ OpenInv'
    BY <2>1 DEF RowInv, IsWIPBatch, MaxRes, OpenInv
  <2> QED BY <1>2, <2>1, <2>2, Zenon
<1>4. CASE Openable(n) /\ BlockRes <= wipBatch.remaining
  <2>1. /\ batches' = Append(batches, StateBatch(wipBatch.final))
        /\ wipBatch' = NewWIPBatch(n, wipBatch.final) /\ Return
    BY <1>4, Zenon DEF OpenNewWIPBatch
  <2>2. n \in Nat /\ n = Len(batches) + 1
    BY <1>1
  <2>3. IsWIPBatch(wipBatch') /\ wipBatch'.num = n /\ wipBatch'.final = wipBatch.final
    BY <1>1, <2>1, <2>2, NewWIP, Zenon
  <2>4. RowInv' /\ Len(batches') = Len(batches) + 1 /\ ~batches'[Len(batches) + 1].closed
    BY <1>1, <2>1, NewRow, Zenon
  <2>5. OpenInv'
    BY <2>2, <2>3, <2>4, Zenon DEF OpenInv
  <2>6. IsWIPBatch(wipBatch)'
    BY <2>3, Zenon DEF IsWIPBatch, MaxRes
  <2> QED BY <1>1, <1>2, <2>1, <2>2, <2>3, <2>4, <2>5, <2>6, Zenon
<1>5. CASE Openable(n) /\ ~(BlockRes <= wipBatch.remaining)
  <2>1. batches' = Append(batches, StateBatch(wipBatch.final)) /\ wipBatch' = wipBatch /\ pc' = "down"
    BY <1>5, Zenon DEF OpenNewWIPBatch
  <2>2. RowInv'
    BY <1>1, <2>1, NewRow, Zenon
  <2>3. IsWIPBatch(wipBatch)' /\ OpenInv'
    BY <2>1 DEF IsWIPBatch, MaxRes, OpenInv
  <2> QED BY <1>1, <1>2, <2>1, <2>2, <2>3, Zenon
<1> QED BY <1>3, <1>4, <1>5, Zenon

LEMMA ProcessL2BlockData ==
  ASSUME DataInv, deployment' = deployment, ProcessL2Block
  PROVE  /\ DataInv' /\ Len(blocks') = Len(blocks)
         /\ Head(toProcess) \in BlockIds /\ wipBatch.num = Len(batches)
         /\ wipBatch'.num = wipBatch.num /\ wipBatch'.final = Append(wipBatch.final, Head(toProcess))
         /\ \A b \in BlockIds : b # Head(toProcess) => blocks'[b] = blocks[b]
         /\ LET e == blocks'[Head(toProcess)] IN
              /\ e.initial = wipBatch.final /\ e.root = Append(wipBatch.final, Head(toProcess))
              /\ e.batch = wipBatch.num /\ e.txs = blocks[Head(toProcess)].txs
<1> USE DEF DataInv
<1> DEFINE b == Head(toProcess)
<1> DEFINE root == Append(wipBatch.final, b)
<1>1. Len(blocks) \in Nat /\ flush \in Nat /\ wipBatch.num \in Nat /\ wipBatch.final \in Seq(Nat)
  BY LenProperties DEF BlockInv, FlushIdInv, IsWIPBatch
<1>2. b \in 1 .. Len(blocks) /\ Ids(toProcess', Len(blocks))
  BY <1>1, IdsFacts DEF PointerInv, ProcessL2Block
<1>3. root \in Seq(Nat)
  BY <1>1, <1>2, AppendProperties
<1>4. /\ wipBatch' = [wipBatch EXCEPT !.final = root] /\ procBlock' = b /\ flush' = flush + 1
      /\ UNCHANGED <<batches, wipL2Block, storeBlock, toStore, closings, flushed, storedFlushID, pc>>
      /\ pc # "down"
  BY Zenon DEF ProcessL2Block, loopVars, storeVars, flushVars
<1>5. PICK e \in L2Block :
        /\ blocks' = [blocks EXCEPT ![b] = e]
        /\ e.initial = wipBatch.final /\ e.root = root /\ e.batch = wipBatch.num /\ e.txs = blocks[b].txs
  <2> DEFINE o == blocks[b]
  <2> DEFINE f == flush + 1
  <2> DEFINE e == [txs |-> o.txs, used |-> o.used, initial |-> wipBatch.final, root |-> root,
                   flush |-> f, batch |-> wipBatch.num]
  <2>1. o \in L2Block /\ f \in Nat
    BY <1>1, <1>2, ElementOfSeq DEF BlockInv
  <2>2. blocks' = [blocks EXCEPT ![b] = [o EXCEPT !.initial = wipBatch.final, !.root = root,
                                                  !.flush = f, !.batch = wipBatch.num]]
    BY Zenon DEF ProcessL2Block
  <2> HIDE DEF o, f, root
  <2>3. e \in L2Block /\ e.initial = wipBatch.final /\ e.root = root /\ e.batch = wipBatch.num /\ e.txs = o.txs
    BY <1>1, <1>3, <2>1 DEF L2Block
  <2>4. [o EXCEPT !.initial = wipBatch.final, !.root = root, !.flush = f, !.batch = wipBatch.num] = e
    <3>1. \A i, r, g, m : [o EXCEPT !.initial = i, !.root = r, !.flush = g, !.batch = m] =
            [txs |-> o.txs, used |-> o.used, initial |-> i, root |-> r, flush |-> g, batch |-> m]
      BY <2>1, ExecutedFields, Zenon
    <3> QED BY <3>1, Zenon
  <2> HIDE DEF e
  <2>5. blocks' = [blocks EXCEPT ![b] = e]
    BY <2>2, <2>4, Zenon
  <2> QED BY <2>3, <2>5, Zenon DEF o
<1> HIDE DEF root
<1>6. /\ BlockInv' /\ Len(blocks') = Len(blocks) /\ blocks'[b] = e
      /\ \A x \in BlockIds : x # b => blocks'[x] = blocks[x]
  BY <1>2, <1>5, ExceptSeq DEF BlockInv, BlockIds
<1>7. /\ IsWIPBatch(wipBatch') /\ wipBatch'.num = wipBatch.num /\ wipBatch'.final = root
  BY <1>3, <1>4, WIPFields, Zenon
<1>8. PointerInv'
  BY <1>2, <1>4, <1>6, Zenon DEF PointerInv, BlockIds
<1>9. FlushIdInv'
  BY <1>4, SameFlushIds, Zenon
<1>10. OpenInv' /\ RowInv' /\ wipBatch.num = Len(batches)
  BY <1>4, <1>7, Zenon DEF OpenInv, RowInv
<1>11. IsWIPBatch(wipBatch)'
  BY <1>7, Zenon DEF IsWIPBatch, MaxRes
<1>12. b \in BlockIds
  BY <1>2 DEF BlockIds
<1> QED BY <1>5, <1>6, <1>7, <1>8, <1>9, <1>10, <1>11, <1>12, Zenon DEF root

LEMMA StoreL2BlockData ==
  ASSUME DataInv, deployment' = deployment, pc # "openBatch", StoreL2Block
  PROVE  /\ DataInv' /\ Len(batches') = Len(batches) /\ wipBatch.num \in 1 .. Len(batches)
         /\ ~batches[wipBatch.num].closed
         /\ \A n \in 1 .. Len(batches) : n # wipBatch.num => batches'[n] = batches[n]
         /\ batches'[wipBatch.num].blocks = Append(batches[wipBatch.num].blocks, storeBlock)
         /\ batches'[wipBatch.num].root = blocks[storeBlock].root
<1> USE DEF DataInv
<1> DEFINE n == wipBatch.num
<1>1. /\ UNCHANGED <<blocks, wipBatch, pc, wipL2Block, procBlock, storeBlock, toProcess, toStore, closings,
                     flush, flushed, storedFlushID>>
      /\ pc # "down"
  BY Zenon DEF StoreL2Block, loopVars, processVars, executorVars, flushVars
<1>2. Len(batches) \in Nat /\ n = Len(batches) /\ n \in 1 .. Len(batches) /\ ~batches[n].closed
  BY <1>1, LenProperties DEF OpenInv, RowInv
<1> DEFINE o == batches[n]
<1> DEFINE bs == Append(o.blocks, storeBlock)
<1> DEFINE root == blocks[storeBlock].root
<1> DEFINE res == o.res + blocks[storeBlock].used
<1> DEFINE r == [root |-> root, blocks |-> bs, closed |-> o.closed, res |-> res]
<1>3. o \in Batch /\ blocks[storeBlock] \in L2Block /\ storeBlock \in Nat
  BY <1>2, ElementOfSeq, LenProperties DEF RowInv, BlockInv, PointerInv, BlockIds
<1>4. bs \in Seq(Nat) /\ root \in Seq(Nat) /\ res \in Nat
  <2>1. o.blocks \in Seq(Nat) /\ root \in Seq(Nat) /\ o.res \in Nat /\ blocks[storeBlock].used \in Nat
    BY <1>3 DEF Batch, L2Block
  <2>2. bs \in Seq(Nat)
    BY <1>3, <2>1, AppendProperties
  <2> QED BY <2>1, <2>2
<1>5. batches' = [batches EXCEPT ![n] = [o EXCEPT !.blocks = bs, !.root = root, !.res = res]]
  BY Zenon DEF StoreL2Block
<1> HIDE DEF o, bs, root, res
<1>6. r \in Batch /\ r.root = root /\ r.blocks = bs /\ r.closed = o.closed
  BY <1>3, <1>4 DEF Batch
<1>7. [o EXCEPT !.blocks = bs, !.root = root, !.res = res] = r
  BY <1>3, StoredFields, Zenon
<1> HIDE DEF r
<1>8. batches' = [batches EXCEPT ![n] = r]
  BY <1>5, <1>7, Zenon
<1>9. /\ RowInv' /\ Len(batches') = Len(batches) /\ batches'[n] = r
      /\ \A m \in 1 .. Len(batches) : m # n => batches'[m] = batches[m]
  BY <1>2, <1>6, <1>8, RowUpdate, Zenon
<1>10. ~batches'[n].closed
  BY <1>2, <1>6, <1>9 DEF o
<1>11. BlockInv' /\ PointerInv' /\ FlushIdInv' /\ IsWIPBatch(wipBatch)'
  BY <1>1, Zenon DEF BlockInv, PointerInv, BlockIds, FlushIdInv, IsWIPBatch, MaxRes
<1>12. OpenInv'
  BY <1>1, <1>2, <1>9, <1>10, Zenon DEF OpenInv
<1> QED BY <1>2, <1>6, <1>9, <1>11, <1>12, Zenon DEF o, bs, root

LEMMA RestartData ==
  ASSUME DataInv, deployment' = deployment, Restart
  PROVE  DataInv'
<1> USE DEF DataInv
<1> DEFINE n == Len(batches)
<1>1. n \in Nat /\ batches[n] \in Batch /\ Len(blocks) \in Nat
  BY ElementOfSeq, LenProperties DEF RowInv, BlockInv
<1>2. batches[n].root \in Seq(Nat)
  BY <1>1 DEF Batch
<1>3. /\ UNCHANGED <<blocks, closings, flush, flushed>>
  BY Zenon DEF Restart, executorVars
<1>4. BlockInv'
  BY <1>3, Zenon DEF BlockInv
<1>5. ASSUME NEW bs, NEW w, Start(bs, w), IsWIPBatch(w), RowInv', w.num = Len(batches'),
             ~batches'[Len(batches')].closed
      PROVE  DataInv'
  <2>1. /\ wipBatch' = w /\ wipL2Block' = 1 /\ procBlock' = 1 /\ storeBlock' = 1
        /\ toProcess' = <<>> /\ toStore' = <<>> /\ storedFlushID' = 0
    BY <1>5, Zenon DEF Start
  <2>2. 1 \in BlockIds'
    BY <1>1, <1>3 DEF BlockInv, BlockIds
  <2>3. PointerInv'
    BY <1>3, <2>1, <2>2, NoIds, Zenon DEF PointerInv
  <2>4. FlushIdInv'
    BY <1>3, <2>1 DEF FlushIdInv
  <2>5. OpenInv' /\ IsWIPBatch(wipBatch)'
    BY <1>5, <2>1, Zenon DEF OpenInv, IsWIPBatch, MaxRes
  <2> QED BY <1>4, <1>5, <2>3, <2>4, <2>5, Zenon
<1>6. CASE Last(batches).closed
  <2>1. Start(Append(batches, StateBatch(batches[n].root)), NewWIPBatch(n + 1, batches[n].root))
    BY <1>6, Zenon DEF Restart, Last
  <2>2. batches' = Append(batches, StateBatch(batches[n].root))
    BY <2>1, Zenon DEF Start
  <2>3. RowInv' /\ Len(batches') = n + 1 /\ ~batches'[n + 1].closed
    BY <1>2, <2>2, NewRow, Zenon
  <2>4. n + 1 \in Nat
    BY <1>1
  <2>5. IsWIPBatch(NewWIPBatch(n + 1, batches[n].root)) /\ NewWIPBatch(n + 1, batches[n].root).num = n + 1
    BY <1>2, <2>4, NewWIP, Zenon
  <2> QED BY <1>5, <2>1, <2>3, <2>5, Zenon
<1>7. CASE ~Last(batches).closed /\ Last(batches).res <= MaxRes
  <2>1. Start(batches, SetWIPBatch(n))
    BY <1>1, <1>7, Constants DEF Restart, Last, Batch
  <2>2. batches' = batches /\ RowInv'
    BY <2>1, Zenon DEF Start, RowInv
  <2>3. IsWIPBatch(SetWIPBatch(n)) /\ SetWIPBatch(n).num = n
    BY <1>7, OldWIP, Zenon DEF Last
  <2>4. ~batches'[Len(batches')].closed
    BY <1>7, <2>2, Zenon DEF Last
  <2> QED BY <1>5, <2>1, <2>2, <2>3, <2>4, Zenon
<1>8. CASE ~Last(batches).closed /\ ~(Last(batches).res <= MaxRes)
  <2>1. /\ pc' = "down"
        /\ UNCHANGED <<batches, wipBatch, wipL2Block, procBlock, storeBlock, toProcess, toStore, storedFlushID>>
    BY <1>8, Zenon DEF Restart, flushVars
  <2>2. RowInv' /\ PointerInv' /\ FlushIdInv' /\ IsWIPBatch(wipBatch)'
    BY <1>3, <2>1, Zenon DEF RowInv, PointerInv, BlockIds, FlushIdInv, IsWIPBatch, MaxRes
  <2>3. OpenInv'
    BY <2>1 DEF OpenInv
  <2> QED BY <1>4, <2>2, <2>3, Zenon
<1> QED BY <1>6, <1>7, <1>8, Zenon

LEMMA SameCounts ==
  ASSUME CountInv, UNCHANGED <<toProcess, processWG, procPc, toStore, storeWG, storePc>>,
         pc' \notin {"waitStore", "openBatch"} \/ pc' = pc
  PROVE  CountInv'
BY Zenon DEF CountInv

LEMMA ReturnsTo ==
  ASSUME StackInv, pc \in {"openBlock", "newBlock", "openBatch"}, Return
  PROVE  pc' \in {"top", "pick", "check", "newBlock", "waitProcess"}
<1>1. stack # <<>> /\ IsStack(stack)
  BY DEF StackInv, Iteration
<1> QED BY <1>1, Pop, Zenon DEF Return

\* The steps of the loop that change nothing but its place.
LoopMove ==
  \/ L2BlockTime \/ NoFittingTransaction \/ NoTransaction
  \/ FullBatch \/ Deadline \/ NextIteration \/ FinalizeBatch \/ WaitProcessed

LEMMA LoopMoveIs ==
  ASSUME LoopMove
  PROVE  /\ UNCHANGED <<batches, blocks, wipBatch, wipL2Block, processVars, storeVars,
                        executorVars, flushVars, checkVars>>
         /\ pc \in {"top", "pick", "check", "closeBatch", "waitProcess"}
         /\ pc' \in {"top", "check", "closeBlock", "closeBatch", "waitProcess", "waitStore"}
<1>1. UNCHANGED <<batches, blocks, wipBatch, wipL2Block, processVars, storeVars,
                  executorVars, flushVars, checkVars>>
  BY Zenon DEF LoopMove, L2BlockTime, NoFittingTransaction, NoTransaction, FullBatch, Deadline,
     NextIteration, FinalizeBatch, WaitProcessed
<1>2. pc \in {"top", "pick", "check", "closeBatch", "waitProcess"}
  BY DEF LoopMove, L2BlockTime, NoFittingTransaction, NoTransaction, FullBatch, Deadline,
     NextIteration, FinalizeBatch, WaitProcessed
<1>3. pc' \in {"top", "check", "closeBlock", "closeBatch", "waitProcess", "waitStore"}
  BY Zenon DEF LoopMove, L2BlockTime, NoFittingTransaction, NoTransaction, FullBatch, Deadline,
     NextIteration, FinalizeBatch, WaitProcessed, Call
<1> QED BY <1>1, <1>2, <1>3, Zenon

LEMMA CountPreserved == DataInv /\ StackInv /\ CountInv /\ [Next]_vars => CountInv'
<1> SUFFICES ASSUME DataInv, StackInv, CountInv, [Next]_vars
             PROVE  CountInv'
  OBVIOUS
<1> DEFINE Same == UNCHANGED <<toProcess, processWG, procPc, toStore, storeWG, storePc>>
<1>1. Len(toProcess) \in Nat /\ Len(toStore) \in Nat /\ toProcess \in Seq(Nat) /\ toStore \in Seq(Nat)
  BY LenProperties DEF DataInv, PointerInv, Ids
<1>2. /\ wipL2Block \in Nat /\ procBlock \in Nat
  BY LenProperties DEF DataInv, PointerInv, BlockIds, BlockInv
<1>3. CASE LoopMove
  <2>1. Same
    BY <1>3, LoopMoveIs, Zenon DEF processVars, storeVars
  <2>2. CASE WaitProcessed
    <3>1. pc' = "waitStore" /\ processWG = 0
      BY <2>2, Zenon DEF WaitProcessed
    <3> QED BY <2>1, <3>1 DEF CountInv
  <2>3. CASE ~WaitProcessed
    <3>1. pc' \in {"top", "check", "closeBlock", "closeBatch", "waitProcess"}
      BY <1>3, <2>3, Zenon DEF LoopMove, L2BlockTime, NoFittingTransaction, NoTransaction, FullBatch,
         Deadline, NextIteration, FinalizeBatch, Call
    <3>2. pc' \notin {"waitStore", "openBatch"}
      BY <3>1
    <3> QED BY <2>1, <3>2, SameCounts, Zenon
  <2> QED BY <2>2, <2>3, Zenon
<1>4. CASE \E t \in Txs : ProcessTransaction(t)
  <2>1. Same /\ pc' = "check"
    BY <1>4, Zenon DEF ProcessTransaction, processVars, storeVars
  <2>2. pc' \notin {"waitStore", "openBatch"}
    BY <2>1
  <2> QED BY <2>1, <2>2, SameCounts, Zenon
<1>5. CASE CloseWIPL2Block
  <2>1. /\ processWG' = processWG + 1 /\ toProcess' = Append(toProcess, wipL2Block)
        /\ UNCHANGED <<procPc, toStore, storeWG, storePc>> /\ pc' = "openBlock"
    BY <1>5, Zenon DEF CloseWIPL2Block, storeVars
  <2>2. Len(toProcess') = Len(toProcess) + 1
    BY <1>1, <1>2, <2>1, AppendProperties
  <2> QED BY <1>1, <2>1, <2>2 DEF CountInv
<1>6. CASE OpenNewWIPL2Block \/ OpenAfterBatch \/ OpenNewWIPBatch
  <2>1. Same /\ pc \in {"openBlock", "newBlock", "openBatch"}
    BY <1>6, Zenon DEF OpenNewWIPL2Block, OpenAfterBatch, OpenNewWIPBatch, processVars, storeVars
  <2>2. Return \/ pc' = "closeBatch" \/ pc' = "down"
    BY <1>6, Zenon DEF OpenNewWIPL2Block, OpenAfterBatch, OpenNewWIPBatch, Call
  <2>3. pc' \in {"top", "pick", "check", "newBlock", "waitProcess", "closeBatch", "down"}
    BY <2>1, <2>2, ReturnsTo
  <2>4. pc' \notin {"waitStore", "openBatch"}
    BY <2>3
  <2> QED BY <2>1, <2>4, SameCounts, Zenon
<1>7. CASE CloseWIPBatch
  <2>1. Same /\ pc' \in {"openBatch", "down"} /\ storeWG = 0 /\ pc = "waitStore"
    BY <1>7 DEF CloseWIPBatch, processVars, storeVars
  <2> QED BY <2>1 DEF CountInv
<1>8. CASE ProcessL2Block
  <2>1. /\ procPc = "idle" /\ procPc' = "send" /\ toProcess # <<>> /\ toProcess' = Tail(toProcess)
        /\ UNCHANGED <<processWG, toStore, storeWG, storePc, pc>>
    BY <1>8, Zenon DEF ProcessL2Block, loopVars, storeVars
  <2>2. Len(toProcess') = Len(toProcess) - 1
    BY <1>1, <2>1, HeadTailProperties
  <2> QED BY <1>1, <2>1, <2>2 DEF CountInv
<1>9. CASE AddPendingL2BlockToStore
  <2>1. /\ procPc = "send" /\ procPc' = "done" /\ storeWG' = storeWG + 1
        /\ toStore' = Append(toStore, procBlock)
        /\ UNCHANGED <<processWG, toProcess, storePc, pc>>
    BY <1>9, Zenon DEF AddPendingL2BlockToStore, loopVars
  <2>2. Len(toStore') = Len(toStore) + 1
    BY <1>1, <1>2, <2>1, AppendProperties
  <2> QED BY <1>1, <2>1, <2>2 DEF CountInv
<1>10. CASE ProcessDone
  <2>1. /\ procPc = "done" /\ procPc' = "idle" /\ processWG' = processWG - 1
        /\ UNCHANGED <<toProcess, toStore, storeWG, storePc, pc>>
    BY <1>10, Zenon DEF ProcessDone, loopVars, storeVars
  <2> QED BY <1>1, <2>1 DEF CountInv
<1>11. CASE TakeL2BlockToStore
  <2>1. /\ storePc = "idle" /\ storePc' = "flush" /\ toStore # <<>> /\ toStore' = Tail(toStore)
        /\ UNCHANGED <<storeWG, toProcess, processWG, procPc, pc>>
    BY <1>11, Zenon DEF TakeL2BlockToStore, loopVars, processVars
  <2>2. Len(toStore') = Len(toStore) - 1
    BY <1>1, <2>1, HeadTailProperties
  <2> QED BY <1>1, <2>1, <2>2 DEF CountInv
<1>12. CASE StoreL2Block \/ StoreFails
  <2>1. /\ storePc = "flush" /\ storePc' = "done"
        /\ UNCHANGED <<storeWG, toStore, toProcess, processWG, procPc, pc>>
    BY <1>12, Zenon DEF StoreL2Block, StoreFails, loopVars, processVars
  <2> QED BY <1>1, <2>1 DEF CountInv
<1>13. CASE StoreDone
  <2>1. /\ storePc = "done" /\ storePc' = "idle" /\ storeWG' = storeWG - 1
        /\ UNCHANGED <<toStore, toProcess, processWG, procPc, pc>>
    BY <1>13, Zenon DEF StoreDone, loopVars, processVars
  <2> QED BY <1>1, <2>1 DEF CountInv
<1>14. CASE UpdateProverIdAndFlushId \/ ParallelCheck \/ ExecutorStores
  <2>1. Same /\ pc' = pc
    BY <1>14, Zenon DEF UpdateProverIdAndFlushId, FlushIDCheck, FlushIDWait, FlushIDPoll, ParallelCheck,
       ExecutorStores, loopVars, processVars, storeVars
  <2> QED BY <2>1, SameCounts, Zenon
<1>15. CASE Restart
  <2>1. \/ Same /\ pc' = "down"
        \/ /\ toProcess' = <<>> /\ processWG' = 0 /\ procPc' = "idle"
           /\ toStore' = <<>> /\ storeWG' = 0 /\ storePc' = "idle" /\ pc' = "openBlock"
    BY <1>15, Zenon DEF Restart, Start
  <2> QED BY <2>1 DEF CountInv
<1>16. CASE UNCHANGED vars
  BY <1>16, SameCounts, Zenon DEF vars, nodeVars, loopVars, processVars, storeVars
<1> QED BY <1>3, <1>4, <1>5, <1>6, <1>7, <1>8, <1>9, <1>10, <1>11, <1>12, <1>13, <1>14, <1>15, <1>16, Zenon
  DEF Next, FinalizeBatches, LoopMove, ProcessPendingL2Blocks, StorePendingL2Blocks

LEMMA DataPreserved == DataInv /\ StackInv /\ CountInv /\ [Next]_vars => DataInv'
<1> SUFFICES ASSUME DataInv, StackInv, CountInv, [Next]_vars
             PROVE  DataInv'
  OBVIOUS
<1>1. deployment' = deployment
  BY Zenon DEF Next, vars
<1>2. Len(blocks) \in Nat /\ Ids(toStore, Len(blocks)) /\ procBlock \in 1 .. Len(blocks)
  BY LenProperties DEF DataInv, BlockInv, PointerInv, BlockIds
<1>3. PointerInv /\ FlushIdInv /\ OpenInv
  BY Zenon DEF DataInv
<1>4. CASE LoopMove
  <2>1. pc # "down" /\ pc # "openBatch"
    BY <1>4, LoopMoveIs
  <2>2. PointerInv' /\ FlushIdInv'
    BY <1>3, <1>4, LoopMoveIs, Zenon DEF PointerInv, BlockIds, FlushIdInv, processVars, storeVars, executorVars, flushVars
  <2> QED BY <1>1, <1>4, <2>1, <2>2, LoopMoveIs, QuietData, Zenon
<1>5. CASE \E t \in Txs : ProcessTransaction(t)
  BY <1>1, <1>5, ProcessTransactionData, Zenon
<1>6. CASE CloseWIPL2Block \/ OpenNewWIPL2Block \/ OpenAfterBatch \/ CloseWIPBatch \/ OpenNewWIPBatch
  BY <1>1, <1>6, CloseWIPL2BlockData, OpenNewWIPL2BlockData, OpenAfterBatchData, CloseWIPBatchData,
     OpenNewWIPBatchData, Zenon
<1>7. CASE ProcessL2Block
  BY <1>1, <1>7, ProcessL2BlockData, Zenon
<1>8. CASE AddPendingL2BlockToStore
  <2>1. /\ toStore' = Append(toStore, procBlock)
        /\ UNCHANGED <<batches, blocks, wipBatch, wipL2Block, pc, toProcess, procBlock, storeBlock, closings,
                       flush, flushed, storedFlushID>>
    BY <1>8, Zenon DEF AddPendingL2BlockToStore, loopVars, executorVars, flushVars
  <2>2. Ids(toStore', Len(blocks))
    BY <1>2, <2>1, IdsFacts
  <2>3. PointerInv' /\ FlushIdInv'
    BY <1>3, <2>1, <2>2, Zenon DEF PointerInv, BlockIds, FlushIdInv
  <2> QED BY <1>1, <2>1, <2>3, QuietData
<1>9. CASE TakeL2BlockToStore
  <2>1. /\ toStore # <<>> /\ toStore' = Tail(toStore) /\ storeBlock' = Head(toStore)
        /\ UNCHANGED <<batches, blocks, wipBatch, wipL2Block, pc, toProcess, procBlock, closings,
                       flush, flushed, storedFlushID>>
    BY <1>9, Zenon DEF TakeL2BlockToStore, loopVars, processVars, executorVars, flushVars
  <2>2. Ids(toStore', Len(blocks)) /\ storeBlock' \in 1 .. Len(blocks)
    BY <1>2, <2>1, IdsFacts
  <2>3. PointerInv' /\ FlushIdInv'
    BY <1>3, <2>1, <2>2, Zenon DEF PointerInv, BlockIds, FlushIdInv
  <2> QED BY <1>1, <2>1, <2>3, QuietData
<1>10. CASE StoreL2Block
  <2>1. storePc = "flush"
    BY <1>10, Zenon DEF StoreL2Block
  <2>2. pc # "openBatch"
    <3>1. Len(toStore) \in Nat
      BY <1>2, IdsFacts
    <3> QED BY <2>1, <3>1 DEF CountInv
  <2> QED BY <1>1, <1>10, <2>2, StoreL2BlockData, Zenon
<1>11. CASE \/ ProcessDone \/ StoreFails \/ StoreDone \/ FlushIDCheck \/ FlushIDWait \/ ParallelCheck
            \/ UNCHANGED vars
  <2>1. UNCHANGED <<batches, blocks, wipBatch, wipL2Block, pc, toProcess, toStore, procBlock, storeBlock, closings,
                    flush, flushed, storedFlushID>>
    BY <1>11, Zenon DEF ProcessDone, StoreFails, StoreDone, FlushIDCheck, FlushIDWait, ParallelCheck, vars, nodeVars,
       loopVars, processVars, storeVars, executorVars, flushVars
  <2>2. PointerInv' /\ FlushIdInv'
    BY <1>3, <2>1, Zenon DEF PointerInv, BlockIds, FlushIdInv
  <2> QED BY <1>1, <2>1, <2>2, QuietData
<1>12. CASE FlushIDPoll \/ ExecutorStores
  <2>1. /\ UNCHANGED <<batches, blocks, wipBatch, wipL2Block, pc, toProcess, toStore, procBlock, storeBlock, closings, flush>>
        /\ \/ flushed' = flushed /\ storedFlushID' \in {storedFlushID, flushed}
           \/ storedFlushID' = storedFlushID /\ flushed' \in flushed + 1 .. flush
    BY <1>12 DEF FlushIDPoll, ExecutorStores, loopVars, processVars, storeVars, executorVars, flushVars
  <2>2. FlushIdInv'
    BY <1>3, <2>1 DEF FlushIdInv
  <2>3. PointerInv'
    BY <1>3, <2>1, Zenon DEF PointerInv, BlockIds
  <2> QED BY <1>1, <2>1, <2>2, <2>3, QuietData
<1>13. CASE Restart
  BY <1>1, <1>13, RestartData, Zenon
<1> QED BY <1>4, <1>5, <1>6, <1>7, <1>8, <1>9, <1>10, <1>11, <1>12, <1>13, Zenon
  DEF Next, FinalizeBatches, LoopMove, ProcessPendingL2Blocks, StorePendingL2Blocks, UpdateProverIdAndFlushId

ShapeInv == DataInv /\ StackInv /\ CountInv

LEMMA ShapeInitially == Init => ShapeInv
<1> SUFFICES ASSUME Init
             PROVE  ShapeInv
  OBVIOUS
<1> USE DEF Init
<1>0. deployment \in Deployments /\ BlockRes \in Nat /\ MaxRes \in Nat
  BY Constants
<1>1. RowInv
  <2>1. Genesis \in Batch /\ StateBatch(<<>>) \in Batch
    <3>1. StateBatch(<<>>) = [root |-> <<>>, blocks |-> <<>>, closed |-> FALSE, res |-> 0]
      BY Zenon DEF StateBatch
    <3>2. Genesis = [root |-> <<>>, blocks |-> <<>>, closed |-> TRUE, res |-> 0]
      BY Zenon DEF Genesis
    <3>3. <<>> \in Seq(Nat)
      OBVIOUS
    <3>4. [root |-> <<>>, blocks |-> <<>>, closed |-> TRUE, res |-> 0] \in Batch
      BY <3>3 DEF Batch
    <3>5. [root |-> <<>>, blocks |-> <<>>, closed |-> FALSE, res |-> 0] \in Batch
      BY <3>3 DEF Batch
    <3> QED BY <3>1, <3>2, <3>4, <3>5, Zenon
  <2>2. batches \in Seq(Batch) /\ Len(batches) = 2
    BY <2>1
  <2> QED BY <2>2 DEF RowInv
<1>2. BlockInv
  <2>1. EmptyL2Block \in L2Block
    BY <1>0 DEF EmptyL2Block, L2Block
  <2> QED BY <2>1 DEF BlockInv
<1>3. IsWIPBatch(wipBatch)
  BY <1>0 DEF IsWIPBatch
<1>4. PointerInv
  BY NoIds DEF PointerInv, BlockIds
<1>5. FlushIdInv
  BY DEF FlushIdInv
<1>6. OpenInv
  <2>1. Len(batches) = 2 /\ batches[2] = StateBatch(<<>>) /\ ~StateBatch(<<>>).closed /\ wipBatch.num = 2
    BY DEF StateBatch
  <2> QED BY <2>1 DEF OpenInv
<1>7. StackInv
  BY DEF StackInv, IsStack, Pcs, Iteration
<1>8. CountInv
  BY DEF CountInv
<1> QED BY <1>0, <1>1, <1>2, <1>3, <1>4, <1>5, <1>6, <1>7, <1>8, Zenon DEF ShapeInv, DataInv

LEMMA ShapeHolds == Spec => []ShapeInv
<1>1. ShapeInv /\ [Next]_vars => ShapeInv'
  BY StackPreserved, CountPreserved, DataPreserved, Zenon DEF ShapeInv
<1> QED BY <1>1, ShapeInitially, PTL DEF Spec

LEMMA ShapeIsType ==
  ASSUME ShapeInv
  PROVE  TypeOK
<1> USE DEF ShapeInv, DataInv
<1>1. ASSUME NEW s, Ids(s, Len(blocks))
      PROVE  s \in Seq(BlockIds)
  BY <1>1, LenProperties DEF Ids, BlockIds
<1>2. toProcess \in Seq(BlockIds) /\ toStore \in Seq(BlockIds)
  BY <1>1, Zenon DEF PointerInv
<1>3. wipL2Block \in BlockIds /\ procBlock \in BlockIds /\ storeBlock \in BlockIds
  BY Zenon DEF PointerInv
<1>4. /\ processWG = Len(toProcess) + (IF procPc = "idle" THEN 0 ELSE 1)
      /\ storeWG = Len(toStore) + (IF storePc = "idle" THEN 0 ELSE 1)
  BY Zenon DEF CountInv
<1>5. wipBatch.remaining \in 0 .. MaxRes /\ (pc # "down" => wipBatch.num = Len(batches))
  BY Zenon DEF IsWIPBatch, OpenInv
<1>6. storedFlushID <= flushed /\ flushed <= flush
  BY Zenon DEF FlushIdInv
<1> QED BY <1>2, <1>3, <1>4, <1>5, <1>6, Zenon DEF TypeOK

-----------------------------------------------------------------------------
(* A closed batch stays as it is.                                           *)

\* What the step does to a batch that is closed.
ClosedStay ==
  \A n \in DOMAIN batches : batches[n].closed =>
    /\ batches'[n].closed
    /\ batches'[n].blocks = batches[n].blocks
    /\ batches'[n].root = batches[n].root

\* The steps that change rows of batches.
LEMMA RowsChange ==
  ASSUME [Next]_vars
  PROVE  \/ UNCHANGED batches \/ CloseWIPBatch \/ OpenNewWIPBatch \/ StoreL2Block \/ Restart
<1> SUFFICES ASSUME Next PROVE \/ UNCHANGED batches \/ CloseWIPBatch \/ OpenNewWIPBatch \/ StoreL2Block \/ Restart
  BY Zenon DEF vars, nodeVars
<1>1. CASE LoopMove
  BY <1>1, LoopMoveIs, Zenon
<1>2. CASE FinalizeBatches /\ ~LoopMove
  BY <1>2, Zenon DEF FinalizeBatches, LoopMove, ProcessTransaction, CloseWIPL2Block, OpenNewWIPL2Block,
     OpenAfterBatch
<1>3. CASE \/ ProcessPendingL2Blocks \/ StorePendingL2Blocks \/ UpdateProverIdAndFlushId
           \/ ParallelCheck \/ ExecutorStores
  BY <1>3, Zenon DEF ProcessPendingL2Blocks, StorePendingL2Blocks, UpdateProverIdAndFlushId, ParallelCheck,
     ExecutorStores, ProcessL2Block, AddPendingL2BlockToStore, ProcessDone, TakeL2BlockToStore, StoreFails,
     StoreDone, FlushIDCheck, FlushIDWait, FlushIDPoll
<1> QED BY <1>1, <1>2, <1>3, Zenon DEF Next

LEMMA StoringIsOpen ==
  ASSUME ShapeInv, StoreL2Block
  PROVE  pc # "openBatch"
<1>1. Len(toStore) \in Nat
  BY LenProperties DEF ShapeInv, DataInv, PointerInv, Ids
<1>2. storePc = "flush"
  BY Zenon DEF StoreL2Block
<1> QED BY <1>1, <1>2 DEF ShapeInv, CountInv

LEMMA ClosedStep == ShapeInv /\ [Next]_vars => ClosedStay
<1> SUFFICES ASSUME ShapeInv, [Next]_vars
             PROVE  ClosedStay
  OBVIOUS
<1>1. DataInv /\ RowInv /\ deployment' = deployment
  BY Zenon DEF ShapeInv, DataInv, Next, vars
<1>2. DOMAIN batches = 1 .. Len(batches) /\ Len(batches) \in Nat
  BY <1>1, LenProperties DEF RowInv
<1>3. ASSUME NEW root \in Seq(Nat), batches' = Append(batches, StateBatch(root))
      PROVE  ClosedStay
  BY <1>1, <1>2, <1>3, NewRow, Zenon DEF ClosedStay
<1>4. CASE UNCHANGED batches
  BY <1>4, Zenon DEF ClosedStay
<1>5. CASE CloseWIPBatch
  BY <1>1, <1>2, <1>5, CloseWIPBatchData, Zenon DEF ClosedStay
<1>6. CASE OpenNewWIPBatch
  <2>1. wipBatch.final \in Seq(Nat)
    BY <1>1, Zenon DEF DataInv, IsWIPBatch
  <2>2. UNCHANGED batches \/ batches' = Append(batches, StateBatch(wipBatch.final))
    BY <1>1, <1>6, OpenNewWIPBatchData, Zenon
  <2> QED BY <1>3, <1>4, <2>1, <2>2, Zenon
<1>7. CASE StoreL2Block
  <2>1. pc # "openBatch"
    BY <1>7, StoringIsOpen, Zenon
  <2> QED BY <1>1, <1>2, <1>7, <2>1, StoreL2BlockData, Zenon DEF ClosedStay
<1>8. CASE Restart
  <2>1. batches[Len(batches)].root \in Seq(Nat)
    <3>1. Len(batches) \in 1 .. Len(batches) /\ batches \in Seq(Batch)
      BY <1>1, <1>2 DEF RowInv
    <3>2. batches[Len(batches)] \in Batch
      BY <3>1, ElementOfSeq, Zenon
    <3> QED BY <3>2 DEF Batch
  <2>2. UNCHANGED batches \/ batches' = Append(batches, StateBatch(batches[Len(batches)].root))
    BY <1>8, Zenon DEF Restart, Start, Last
  <2> QED BY <1>3, <1>4, <2>1, <2>2, Zenon
<1> QED BY <1>4, <1>5, <1>6, <1>7, <1>8, RowsChange, Zenon

\* A closed batch never changes, neither its blocks nor its root, whatever the
\* goroutines, failures to store and restarts: closeAndOpenNewWIPBatch closes it only
\* after both wait groups are empty, so no block is still to be stored in it.
THEOREM ClosedBatchesStay == Spec => ClosedIsFinal
<1>1. ShapeInv /\ [Next]_vars => [ClosedStay]_vars
  BY ClosedStep, Zenon
<1>2. []ShapeInv /\ [][Next]_vars => [][ClosedStay]_vars
  BY <1>1, PTL
<1>3. Spec => [][ClosedStay]_vars
  BY <1>2, ShapeHolds, PTL DEF Spec
<1> QED BY <1>3, Zenon DEF ClosedIsFinal, ClosedStay

-----------------------------------------------------------------------------
(* What a step does to the queue, the rows, the pending and all the blocks. *)

LEMMA Lengths ==
  ASSUME ShapeInv
  PROVE  /\ toProcess \in Seq(Nat) /\ toStore \in Seq(Nat) /\ closings \in Seq(Nat)
         /\ Len(toProcess) \in Nat /\ Len(toStore) \in Nat /\ Len(closings) \in Nat
         /\ Len(blocks) \in Nat /\ Len(batches) \in Nat
         /\ \A j \in 1 .. Len(closings) : closings[j] \in BlockIds
         /\ \A j \in 1 .. Len(toStore) : toStore[j] \in BlockIds
         /\ \A n \in 1 .. Len(batches) : batches[n] \in Batch
         /\ \A b \in BlockIds : blocks[b] \in L2Block
         /\ BlockIds \subseteq Nat /\ {wipL2Block, procBlock, storeBlock} \subseteq BlockIds
         /\ wipBatch.num \in Nat /\ wipBatch.final \in Seq(Nat)
<1> USE DEF ShapeInv, DataInv
<1>1. /\ toProcess \in Seq(Nat) /\ toStore \in Seq(Nat) /\ closings \in Seq(Nat)
      /\ Len(toProcess) \in Nat /\ Len(toStore) \in Nat /\ Len(closings) \in Nat
      /\ \A j \in 1 .. Len(closings) : closings[j] \in BlockIds
      /\ \A j \in 1 .. Len(toStore) : toStore[j] \in BlockIds
  BY LenProperties DEF PointerInv, Ids, BlockIds
<1>2. /\ Len(blocks) \in Nat /\ \A b \in BlockIds : blocks[b] \in L2Block
  BY LenProperties, ElementOfSeq DEF BlockInv, BlockIds
<1>3. /\ Len(batches) \in Nat /\ \A n \in 1 .. Len(batches) : batches[n] \in Batch
  BY LenProperties, ElementOfSeq DEF RowInv
<1>4. BlockIds \subseteq Nat /\ {wipL2Block, procBlock, storeBlock} \subseteq BlockIds
  BY <1>2 DEF PointerInv, BlockIds
<1>5. wipBatch.num \in Nat /\ wipBatch.final \in Seq(Nat)
  BY Zenon DEF IsWIPBatch
<1> QED BY <1>1, <1>2, <1>3, <1>4, <1>5, Zenon

LEMMA QueueChange ==
  ASSUME [Next]_vars
  PROVE  \/ UNCHANGED <<toProcess, closings>> \/ CloseWIPL2Block \/ ProcessL2Block
         \/ toProcess' = <<>> /\ closings' = closings /\ Restart
<1>1. CASE UNCHANGED vars
  BY <1>1, Zenon DEF vars, nodeVars, processVars
<1>2. CASE LoopMove
  BY <1>2, LoopMoveIs, Zenon DEF processVars
<1>3. CASE FinalizeBatches /\ ~LoopMove
  BY <1>3, Zenon DEF FinalizeBatches, LoopMove, ProcessTransaction, OpenNewWIPL2Block, OpenAfterBatch,
     CloseWIPBatch, OpenNewWIPBatch, processVars
<1>4. CASE \/ ProcessPendingL2Blocks \/ StorePendingL2Blocks \/ UpdateProverIdAndFlushId
           \/ ParallelCheck \/ ExecutorStores
  BY <1>4, Zenon DEF ProcessPendingL2Blocks, StorePendingL2Blocks, UpdateProverIdAndFlushId, ParallelCheck,
     ExecutorStores, AddPendingL2BlockToStore, ProcessDone, TakeL2BlockToStore, StoreL2Block, StoreFails,
     StoreDone, FlushIDCheck, FlushIDWait, FlushIDPoll, processVars
<1>5. CASE Restart
  BY <1>5, Zenon DEF Restart, Start
<1> QED BY <1>1, <1>2, <1>3, <1>4, <1>5, Zenon DEF Next

LEMMA QueueStep ==
  ASSUME ShapeInv, QueueInv, [Next]_vars
  PROVE  /\ QueueInv'
         /\ \A x : Taken(x) => Taken(x)'
         /\ \A x : ProcessL2Block /\ x = Head(toProcess) => Taken(x)'
         /\ ClosedOnce' => ClosedOnce
<1> USE DEF QueueInv
<1>1. /\ toProcess \in Seq(Nat) /\ closings \in Seq(Nat) /\ Len(toProcess) \in Nat /\ Len(closings) \in Nat
      /\ wipL2Block \in Nat
  BY Lengths
<1>2. DOMAIN closings = 1 .. Len(closings)
  BY <1>1
<1>3. CASE UNCHANGED <<toProcess, closings>>
  <2>1. ~ProcessL2Block
    <3>1. SUFFICES ASSUME ProcessL2Block PROVE FALSE
      OBVIOUS
    <3>2. toProcess # <<>> /\ toProcess' = Tail(toProcess)
      BY <3>1, Zenon DEF ProcessL2Block
    <3>3. Len(toProcess') = Len(toProcess) - 1
      BY <1>1, <3>2, HeadTailProperties
    <3> QED BY <1>1, <1>3, <3>3
  <2> QED BY <1>3, <2>1, Zenon DEF Taken, ClosedOnce
<1>4. CASE CloseWIPL2Block
  <2>1. toProcess' = Append(toProcess, wipL2Block) /\ closings' = Append(closings, wipL2Block)
    BY <1>4, Zenon DEF CloseWIPL2Block
  <2>2. /\ Len(toProcess') = Len(toProcess) + 1 /\ Len(closings') = Len(closings) + 1
        /\ \A i \in 1 .. Len(toProcess) : toProcess'[i] = toProcess[i]
        /\ \A i \in 1 .. Len(closings) : closings'[i] = closings[i]
        /\ toProcess'[Len(toProcess) + 1] = wipL2Block /\ closings'[Len(closings) + 1] = wipL2Block
        /\ DOMAIN closings' = 1 .. Len(closings')
    BY <1>1, <2>1, AppendProperties, LenProperties
  <2>3. QueueInv'
    <3>1. Len(toProcess') <= Len(closings')
      BY <1>1, <2>2
    <3>2. ASSUME NEW i \in 1 .. Len(toProcess')
          PROVE  toProcess'[i] = closings'[Len(closings') - Len(toProcess') + i]
      <4>1. CASE i = Len(toProcess) + 1
        BY <1>1, <2>2, <4>1
      <4>2. CASE i \in 1 .. Len(toProcess)
        <5>1. /\ Len(closings') - Len(toProcess') + i = Len(closings) - Len(toProcess) + i
              /\ Len(closings) - Len(toProcess) + i \in 1 .. Len(closings)
          BY <1>1, <2>2, <4>2
        <5> QED BY <2>2, <4>2, <5>1
      <4> QED BY <1>1, <2>2, <4>1, <4>2
    <3> QED BY <3>1, <3>2, Zenon
  <2>4. ASSUME NEW x, Taken(x) PROVE Taken(x)'
    <3>1. PICK j \in 1 .. Len(closings) - Len(toProcess) : closings[j] = x
      BY <2>4, Zenon DEF Taken
    <3>2. j \in 1 .. Len(closings) /\ j \in 1 .. Len(closings') - Len(toProcess')
      BY <1>1, <2>2
    <3> QED BY <2>2, <3>1, <3>2, Zenon DEF Taken
  <2>5. ~ProcessL2Block
    <3>1. SUFFICES ASSUME ProcessL2Block PROVE FALSE
      OBVIOUS
    <3>2. closings' = closings
      BY <3>1, Zenon DEF ProcessL2Block
    <3> QED BY <1>1, <2>2, <3>2
  <2>6. ClosedOnce' => ClosedOnce
    <3>1. SUFFICES ASSUME ClosedOnce', NEW a \in 1 .. Len(closings), NEW b \in 1 .. Len(closings), closings[a] = closings[b]
                   PROVE  a = b
      BY <1>2, Zenon DEF ClosedOnce, IsInjective
    <3>2. a \in DOMAIN closings' /\ b \in DOMAIN closings' /\ closings'[a] = closings'[b]
      BY <1>1, <2>2, <3>1
    <3> QED BY <3>1, <3>2, Zenon DEF ClosedOnce, IsInjective
  <2> QED BY <2>3, <2>4, <2>5, <2>6, Zenon
<1>5. CASE ProcessL2Block
  <2>1. toProcess # <<>> /\ toProcess' = Tail(toProcess) /\ closings' = closings
    BY <1>5, Zenon DEF ProcessL2Block
  <2>2. /\ Len(toProcess') = Len(toProcess) - 1 /\ Len(toProcess) >= 1 /\ Head(toProcess) = toProcess[1]
        /\ \A i \in 1 .. Len(toProcess') : toProcess'[i] = toProcess[i + 1]
    BY <1>1, <2>1, HeadTailProperties, EmptySeq
  <2>3. QueueInv'
    <3>1. Len(toProcess') <= Len(closings')
      BY <1>1, <2>1, <2>2
    <3>2. ASSUME NEW i \in 1 .. Len(toProcess')
          PROVE  toProcess'[i] = closings'[Len(closings') - Len(toProcess') + i]
      <4>1. /\ i + 1 \in 1 .. Len(toProcess)
            /\ Len(closings') - Len(toProcess') + i = Len(closings) - Len(toProcess) + (i + 1)
        BY <1>1, <2>1, <2>2
      <4> QED BY <2>1, <2>2, <4>1
    <3> QED BY <3>1, <3>2, Zenon
  <2>4. ASSUME NEW x, Taken(x) PROVE Taken(x)'
    <3>1. PICK j \in 1 .. Len(closings) - Len(toProcess) : closings[j] = x
      BY <2>4, Zenon DEF Taken
    <3>2. j \in 1 .. Len(closings') - Len(toProcess')
      BY <1>1, <2>1, <2>2
    <3> QED BY <2>1, <3>1, <3>2, Zenon DEF Taken
  <2>5. ASSUME NEW x, x = Head(toProcess) PROVE Taken(x)'
    <3>1. closings[Len(closings) - Len(toProcess) + 1] = Head(toProcess)
      BY <1>1, <2>2
    <3>2. Len(closings) - Len(toProcess) + 1 \in 1 .. Len(closings') - Len(toProcess')
      BY <1>1, <2>1, <2>2
    <3>3. \E j \in 1 .. Len(closings') - Len(toProcess') : closings'[j] = Head(toProcess)
      BY <2>1, <3>1, <3>2, Zenon
    <3> QED BY <2>5, <3>3, Zenon DEF Taken
  <2>6. ClosedOnce' => ClosedOnce
    BY <2>1, Zenon DEF ClosedOnce
  <2> QED BY <2>3, <2>4, <2>5, <2>6, Zenon
<1>6. CASE toProcess' = <<>> /\ closings' = closings /\ Restart
  <2>1. Len(toProcess') = 0
    BY <1>6
  <2>2. QueueInv' /\ ClosedOnce' = ClosedOnce
    BY <1>1, <1>6, <2>1 DEF ClosedOnce
  <2>3. ASSUME NEW x, Taken(x) PROVE Taken(x)'
    <3>1. PICK j \in 1 .. Len(closings) - Len(toProcess) : closings[j] = x
      BY <2>3, Zenon DEF Taken
    <3>2. j \in 1 .. Len(closings') - Len(toProcess')
      BY <1>1, <1>6, <2>1
    <3> QED BY <1>6, <3>1, <3>2, Zenon DEF Taken
  <2> QED BY <1>5, <2>2, <2>3, Zenon
<1> QED BY <1>3, <1>4, <1>5, <1>6, QueueChange, Zenon

\* A block of a row was there before the step, or was just stored in the WIP batch.
LEMMA RowsStep ==
  ASSUME ShapeInv, [Next]_vars
  PROVE  /\ Len(batches') >= Len(batches)
         /\ \A n \in 1 .. Len(batches') : \A i \in 1 .. Len(batches'[n].blocks) :
              \/ /\ n \in 1 .. Len(batches) /\ i \in 1 .. Len(batches[n].blocks)
                 /\ batches'[n].blocks[i] = batches[n].blocks[i]
              \/ StoreL2Block /\ n = wipBatch.num /\ batches'[n].blocks[i] = storeBlock
<1> DEFINE Same(n, i) == /\ n \in 1 .. Len(batches) /\ i \in 1 .. Len(batches[n].blocks)
                         /\ batches'[n].blocks[i] = batches[n].blocks[i]
           New(n, i) == StoreL2Block /\ n = wipBatch.num /\ batches'[n].blocks[i] = storeBlock
           Goal == /\ Len(batches') >= Len(batches)
                   /\ \A n \in 1 .. Len(batches') : \A i \in 1 .. Len(batches'[n].blocks) : Same(n, i) \/ New(n, i)
<1> SUFFICES Goal
  OBVIOUS
<1>1. DataInv /\ RowInv /\ deployment' = deployment
  BY Zenon DEF ShapeInv, DataInv, Next, vars
<1>2. Len(batches) \in Nat /\ \A n \in 1 .. Len(batches) : batches[n] \in Batch
  BY Lengths, Zenon
<1>3. ASSUME NEW root \in Seq(Nat), batches' = Append(batches, StateBatch(root))
      PROVE  Goal
  <2>1. /\ Len(batches') = Len(batches) + 1 /\ batches'[Len(batches) + 1].blocks = <<>>
        /\ \A n \in 1 .. Len(batches) : batches'[n] = batches[n]
    BY <1>1, <1>3, NewRow, Zenon
  <2>2. Len(batches') >= Len(batches)
    BY <1>2, <2>1
  <2>3. ASSUME NEW n \in 1 .. Len(batches'), NEW i \in 1 .. Len(batches'[n].blocks)
        PROVE  Same(n, i)
    <3>1. CASE n = Len(batches) + 1
      <4>1. Len(batches'[n].blocks) = 0
        BY <2>1, <3>1
      <4> QED BY <4>1
    <3>2. CASE n \in 1 .. Len(batches)
      BY <2>1, <3>2, Zenon
    <3> QED BY <1>2, <2>1, <3>1, <3>2
  <2> QED BY <2>2, <2>3, Zenon
<1>4. CASE UNCHANGED batches
  <2>1. Len(batches') >= Len(batches)
    BY <1>2, <1>4
  <2> QED BY <1>4, <2>1, Zenon
<1>5. CASE CloseWIPBatch
  <2>1. /\ Len(batches') = Len(batches)
        /\ \A n \in 1 .. Len(batches) : batches'[n].blocks = batches[n].blocks
    BY <1>1, <1>5, CloseWIPBatchData, Zenon
  <2>2. Len(batches') >= Len(batches)
    BY <1>2, <2>1
  <2> QED BY <2>1, <2>2, Zenon
<1>6. CASE OpenNewWIPBatch
  <2>1. wipBatch.final \in Seq(Nat)
    BY <1>1, Zenon DEF DataInv, IsWIPBatch
  <2>2. UNCHANGED batches \/ batches' = Append(batches, StateBatch(wipBatch.final))
    BY <1>1, <1>6, OpenNewWIPBatchData, Zenon
  <2> HIDE DEF Goal
  <2> QED BY <1>3, <1>4, <2>1, <2>2, Zenon
<1>7. CASE StoreL2Block
  <2>1. pc # "openBatch"
    BY <1>7, StoringIsOpen, Zenon
  <2>2. /\ Len(batches') = Len(batches) /\ wipBatch.num \in 1 .. Len(batches)
        /\ \A n \in 1 .. Len(batches) : n # wipBatch.num => batches'[n] = batches[n]
        /\ batches'[wipBatch.num].blocks = Append(batches[wipBatch.num].blocks, storeBlock)
    BY <1>1, <1>7, <2>1, StoreL2BlockData, Zenon
  <2>3. Len(batches') >= Len(batches)
    BY <1>2, <2>2
  <2>4. ASSUME NEW n \in 1 .. Len(batches'), NEW i \in 1 .. Len(batches'[n].blocks), n = wipBatch.num
        PROVE  Same(n, i) \/ New(n, i)
    <3>1. batches[n].blocks \in Seq(Nat) /\ storeBlock \in Nat
      <4>1. batches[n] \in Batch
        BY <1>2, <2>2, <2>4, Zenon
      <4>2. storeBlock \in Nat
        BY Lengths
      <4> QED BY <4>1, <4>2 DEF Batch
    <3>2. /\ Len(batches'[n].blocks) = Len(batches[n].blocks) + 1 /\ Len(batches[n].blocks) \in Nat
          /\ \A j \in 1 .. Len(batches[n].blocks) : batches'[n].blocks[j] = batches[n].blocks[j]
          /\ batches'[n].blocks[Len(batches[n].blocks) + 1] = storeBlock
      <4> DEFINE q == batches[n].blocks
                 r == batches'[n].blocks
      <4>1. r = Append(q, storeBlock) /\ q \in Seq(Nat)
        BY <2>2, <2>4, <3>1, Zenon
      <4> HIDE DEF q, r
      <4>2. /\ Len(r) = Len(q) + 1 /\ Len(q) \in Nat /\ r[Len(q) + 1] = storeBlock
            /\ \A j \in 1 .. Len(q) : r[j] = q[j]
        BY <3>1, <4>1, AppendProperties, LenProperties
      <4> QED BY <4>2, Zenon DEF q, r
    <3>3. CASE i = Len(batches[n].blocks) + 1
      BY <1>7, <2>4, <3>2, <3>3, Zenon
    <3>4. CASE i \in 1 .. Len(batches[n].blocks)
      BY <2>2, <3>2, <3>4, Zenon
    <3>5. i = Len(batches[n].blocks) + 1 \/ i \in 1 .. Len(batches[n].blocks)
      BY <3>2
    <3> QED BY <3>3, <3>4, <3>5, Zenon
  <2>5. ASSUME NEW n \in 1 .. Len(batches'), NEW i \in 1 .. Len(batches'[n].blocks), n # wipBatch.num
        PROVE  Same(n, i)
    BY <2>2, <2>5, Zenon
  <2> QED BY <2>3, <2>4, <2>5, Zenon
<1>8. CASE Restart
  <2>1. batches[Len(batches)].root \in Seq(Nat)
    <3>1. Len(batches) \in 1 .. Len(batches)
      BY <1>1, <1>2 DEF RowInv
    <3>2. batches[Len(batches)] \in Batch
      BY <1>2, <3>1, Zenon
    <3> QED BY <3>2 DEF Batch
  <2>2. UNCHANGED batches \/ batches' = Append(batches, StateBatch(batches[Len(batches)].root))
    BY <1>8, Zenon DEF Restart, Start, Last
  <2> HIDE DEF Goal
  <2> QED BY <1>3, <1>4, <2>1, <2>2, Zenon
<1> HIDE DEF Goal
<1> QED BY <1>4, <1>5, <1>6, <1>7, <1>8, RowsChange, Zenon

LEMMA PendingChange ==
  ASSUME [Next]_vars
  PROVE  \/ UNCHANGED <<storePc, storeBlock, toStore, procPc, procBlock>>
         \/ ProcessPendingL2Blocks \/ StorePendingL2Blocks
         \/ Restart /\ toStore' = <<>> /\ storePc' = "idle" /\ procPc' = "idle"
<1>1. CASE UNCHANGED vars
  BY <1>1, Zenon DEF vars, nodeVars, processVars, storeVars
<1>2. CASE LoopMove
  BY <1>2, LoopMoveIs, Zenon DEF processVars, storeVars
<1>3. CASE FinalizeBatches /\ ~LoopMove
  BY <1>3, Zenon DEF FinalizeBatches, LoopMove, ProcessTransaction, CloseWIPL2Block, OpenNewWIPL2Block,
     OpenAfterBatch, CloseWIPBatch, OpenNewWIPBatch, processVars, storeVars
<1>4. CASE UpdateProverIdAndFlushId \/ ParallelCheck \/ ExecutorStores
  BY <1>4, Zenon DEF UpdateProverIdAndFlushId, ParallelCheck, ExecutorStores, FlushIDCheck, FlushIDWait,
     FlushIDPoll, processVars, storeVars
<1>5. CASE Restart
  BY <1>5, Zenon DEF Restart, Start
<1> QED BY <1>1, <1>2, <1>3, <1>4, <1>5, Zenon DEF Next

LEMMA PendingIsBlock ==
  ASSUME ShapeInv, NEW x, InPending(x)
  PROVE  x \in BlockIds
BY Lengths, Zenon DEF InPending

LEMMA PendingStep ==
  ASSUME ShapeInv, [Next]_vars
  PROVE  \A x : InPending(x)' => InPending(x) \/ (ProcessL2Block /\ x = Head(toProcess))
<1> SUFFICES ASSUME NEW x, InPending(x)', ~InPending(x)
             PROVE  ProcessL2Block /\ x = Head(toProcess)
  BY Zenon
<1>1. toStore \in Seq(Nat) /\ Len(toStore) \in Nat /\ procBlock \in Nat
  BY Lengths
<1>2. CASE UNCHANGED <<storePc, storeBlock, toStore, procPc, procBlock>>
  BY <1>2, Zenon DEF InPending
<1>3. CASE ProcessL2Block
  <2>1. procBlock' = Head(toProcess) /\ UNCHANGED <<toStore, storePc, storeBlock>>
    BY <1>3, Zenon DEF ProcessL2Block, storeVars
  <2> QED BY <1>3, <2>1, Zenon DEF InPending
<1>4. CASE AddPendingL2BlockToStore
  <2>1. /\ procPc = "send" /\ procPc' = "done" /\ toStore' = Append(toStore, procBlock)
        /\ UNCHANGED <<storePc, storeBlock>>
    BY <1>4, Zenon DEF AddPendingL2BlockToStore
  <2>2. PICK i \in 1 .. Len(toStore') : toStore'[i] = x
    <3>1. procPc' # "send"
      BY <2>1
    <3> QED BY <2>1, <3>1, Zenon DEF InPending
  <2>3. CASE i = Len(toStore) + 1
    <3>1. x = procBlock
      BY <1>1, <2>1, <2>2, <2>3, AppendProperties
    <3> QED BY <2>1, <3>1, Zenon DEF InPending
  <2>4. CASE i \in 1 .. Len(toStore)
    <3>1. toStore[i] = x
      BY <1>1, <2>1, <2>2, <2>4, AppendProperties
    <3> QED BY <2>4, <3>1, Zenon DEF InPending
  <2>5. Len(toStore') = Len(toStore) + 1
    BY <1>1, <2>1, AppendProperties
  <2> QED BY <1>1, <2>3, <2>4, <2>5
<1>5. CASE ProcessDone
  <2>1. procPc' = "idle" /\ UNCHANGED <<storePc, storeBlock, toStore, procBlock>>
    BY <1>5, Zenon DEF ProcessDone, storeVars
  <2>2. procPc' # "send"
    BY <2>1
  <2> QED BY <2>1, <2>2, Zenon DEF InPending
<1>6. CASE TakeL2BlockToStore
  <2>1. /\ toStore # <<>> /\ storeBlock' = Head(toStore) /\ toStore' = Tail(toStore)
        /\ UNCHANGED <<procPc, procBlock>>
    BY <1>6, Zenon DEF TakeL2BlockToStore, processVars
  <2>2. /\ Len(toStore') = Len(toStore) - 1 /\ Len(toStore) >= 1 /\ Head(toStore) = toStore[1]
        /\ \A i \in 1 .. Len(toStore') : toStore'[i] = toStore[i + 1]
    BY <1>1, <2>1, HeadTailProperties, EmptySeq
  <2>3. ASSUME NEW i \in 1 .. Len(toStore'), toStore'[i] = x
        PROVE  \E j \in 1 .. Len(toStore) : toStore[j] = x
    <3>1. i + 1 \in 1 .. Len(toStore)
      BY <1>1, <2>2
    <3> QED BY <2>2, <2>3, <3>1, Zenon
  <2>4. 1 \in 1 .. Len(toStore)
    BY <1>1, <2>2
  <2> QED BY <2>1, <2>2, <2>3, <2>4, Zenon DEF InPending
<1>7. CASE StoreL2Block \/ StoreFails \/ StoreDone
  <2>1. storePc' \in {"done", "idle"} /\ UNCHANGED <<toStore, procPc, procBlock>>
    BY <1>7, Zenon DEF StoreL2Block, StoreFails, StoreDone, processVars
  <2>2. storePc' # "flush"
    BY <2>1
  <2> QED BY <2>1, <2>2, Zenon DEF InPending
<1>8. CASE Restart /\ toStore' = <<>> /\ storePc' = "idle" /\ procPc' = "idle"
  <2>1. Len(toStore') = 0 /\ storePc' # "flush" /\ procPc' # "send"
    BY <1>8
  <2>2. 1 .. 0 = {}
    OBVIOUS
  <2> QED BY <2>1, <2>2, Zenon DEF InPending
<1> QED BY <1>2, <1>3, <1>4, <1>5, <1>6, <1>7, <1>8, PendingChange, Zenon
  DEF ProcessPendingL2Blocks, StorePendingL2Blocks

LEMMA BlocksChange ==
  ASSUME [Next]_vars
  PROVE  \/ UNCHANGED <<blocks, wipL2Block>> \/ Restart \/ ProcessL2Block
         \/ OpenNewWIPL2Block \/ OpenAfterBatch \/ \E t \in Txs : ProcessTransaction(t)
<1>1. CASE UNCHANGED vars
  BY <1>1, Zenon DEF vars, nodeVars, loopVars
<1>2. CASE LoopMove
  BY <1>2, LoopMoveIs, Zenon
<1>3. CASE FinalizeBatches /\ ~LoopMove
  BY <1>3, Zenon DEF FinalizeBatches, LoopMove, CloseWIPL2Block, CloseWIPBatch, OpenNewWIPBatch
<1>4. CASE \/ ProcessPendingL2Blocks \/ StorePendingL2Blocks \/ UpdateProverIdAndFlushId
           \/ ParallelCheck \/ ExecutorStores
  BY <1>4, Zenon DEF ProcessPendingL2Blocks, StorePendingL2Blocks, UpdateProverIdAndFlushId, ParallelCheck,
     ExecutorStores, AddPendingL2BlockToStore, ProcessDone, TakeL2BlockToStore, StoreL2Block, StoreFails,
     StoreDone, FlushIDCheck, FlushIDWait, FlushIDPoll, loopVars
<1> QED BY <1>1, <1>2, <1>3, <1>4, Zenon DEF Next

\* The execution results of a block are written when it is executed, and only then.
LEMMA BlocksStep ==
  ASSUME ShapeInv, [Next]_vars
  PROVE  /\ Len(blocks') >= Len(blocks)
         /\ \A b \in BlockIds :
              \/ /\ blocks'[b].batch = blocks[b].batch /\ blocks'[b].flush = blocks[b].flush
                 /\ blocks'[b].initial = blocks[b].initial /\ blocks'[b].root = blocks[b].root
              \/ ProcessL2Block /\ b = Head(toProcess)
<1>1. DataInv /\ deployment' = deployment /\ Len(blocks) \in Nat
  BY Lengths, Zenon DEF ShapeInv, Next, vars
<1>2. CASE UNCHANGED blocks
  <2>1. Len(blocks') >= Len(blocks)
    BY <1>1, <1>2
  <2> QED BY <1>2, <2>1, Zenon
<1>3. CASE Restart
  BY <1>2, <1>3, Zenon DEF Restart
<1>4. CASE ProcessL2Block
  <2>1. Len(blocks') = Len(blocks) /\ \A b \in BlockIds : b # Head(toProcess) => blocks'[b] = blocks[b]
    BY <1>1, <1>4, ProcessL2BlockData, Zenon
  <2>2. Len(blocks') >= Len(blocks)
    BY <1>1, <2>1
  <2> QED BY <1>4, <2>1, <2>2, Zenon
<1>5. CASE OpenNewWIPL2Block
  BY <1>1, <1>5, OpenNewWIPL2BlockData, Zenon
<1>6. CASE OpenAfterBatch
  <2>1. Len(blocks') = Len(blocks) + 1 /\ \A b \in BlockIds : blocks'[b] = blocks[b]
    <3>1. NewL2Block /\ UNCHANGED <<procBlock, storeBlock, toProcess, toStore, closings>>
      BY <1>6, Zenon DEF OpenAfterBatch, processVars, storeVars
    <3> QED BY <1>1, <3>1, NewL2BlockData, Zenon
  <2>2. Len(blocks') >= Len(blocks)
    BY <1>1, <2>1
  <2> QED BY <2>1, <2>2, Zenon
<1>7. CASE \E t \in Txs : ProcessTransaction(t)
  <2>1. /\ Len(blocks') = Len(blocks)
        /\ \A b \in BlockIds : /\ blocks'[b].batch = blocks[b].batch
                               /\ blocks'[b].flush = blocks[b].flush
                               /\ blocks'[b].initial = blocks[b].initial
                               /\ blocks'[b].root = blocks[b].root
    BY <1>1, <1>7, ProcessTransactionData, Zenon
  <2>2. Len(blocks') >= Len(blocks)
    BY <1>1, <2>1
  <2> QED BY <2>1, <2>2, Zenon
<1> QED BY <1>2, <1>3, <1>4, <1>5, <1>6, <1>7, BlocksChange, Zenon

LEMMA OrderPreserved == ShapeInv /\ OrderInv /\ [Next]_vars => OrderInv'
<1> SUFFICES ASSUME ShapeInv, OrderInv, [Next]_vars
             PROVE  OrderInv'
  OBVIOUS
<1>1. /\ QueueInv'
      /\ \A x : Taken(x) => Taken(x)'
      /\ \A x : ProcessL2Block /\ x = Head(toProcess) => Taken(x)'
  BY QueueStep, Zenon DEF OrderInv
<1>2. ASSUME NEW x, InPending(x)
      PROVE  Taken(x)
  BY <1>2, PendingIsBlock, Zenon DEF OrderInv
<1>3. ASSUME NEW x, NEW n \in 1 .. Len(batches'), NEW i \in 1 .. Len(batches'[n].blocks), x = batches'[n].blocks[i]
      PROVE  Taken(x)'
  <2>1. CASE n \in 1 .. Len(batches) /\ i \in 1 .. Len(batches[n].blocks) /\ x = batches[n].blocks[i]
    <3>1. Taken(x)
      BY <2>1, Zenon DEF OrderInv
    <3> QED BY <1>1, <3>1, Zenon
  <2>2. CASE StoreL2Block /\ x = storeBlock
    <3>1. InPending(x)
      BY <2>2, Zenon DEF StoreL2Block, InPending
    <3> QED BY <1>1, <1>2, <3>1, Zenon
  <2> QED BY <1>3, <2>1, <2>2, RowsStep, Zenon
<1>4. ASSUME NEW x, InPending(x)'
      PROVE  Taken(x)'
  BY <1>1, <1>2, <1>4, PendingStep, Zenon
<1>5. \A n \in 1 .. Len(batches') : \A i \in 1 .. Len(batches'[n].blocks) :
        \E j \in 1 .. Len(closings') - Len(toProcess') : closings'[j] = batches'[n].blocks[i]
  BY <1>3, Zenon DEF Taken
<1> QED BY <1>1, <1>4, <1>5, Zenon DEF OrderInv, Taken

-----------------------------------------------------------------------------
(* The open L2 block.                                                       *)

LEMMA WIPKept ==
  ASSUME WIPInv, UNCHANGED <<wipL2Block, closings>>, blocks'[1].txs = blocks[1].txs,
         Stale => Stale',
         wipL2Block = 1 => pc' # "closeBlock"
  PROVE  WIPInv'
BY Zenon DEF WIPInv

LEMMA WIPStale ==
  ASSUME WIPInv, UNCHANGED closings, blocks'[1].txs = blocks[1].txs,
         Stale', wipL2Block' = 1 => pc' # "closeBlock"
  PROVE  WIPInv'
BY Zenon DEF WIPInv

\* After openNewWIPL2Block the open L2 block is a new one.
LEMMA WIPFresh ==
  ASSUME ShapeInv, WIPInv, UNCHANGED closings, wipL2Block' = Len(blocks) + 1, blocks'[1].txs = blocks[1].txs
  PROVE  WIPInv'
<1>1. Len(blocks) \in Nat /\ Len(blocks) >= 1 /\ \A j \in 1 .. Len(closings) : closings[j] \in 1 .. Len(blocks)
  BY Lengths DEF ShapeInv, DataInv, BlockInv, BlockIds
<1>2. wipL2Block' # 1
  BY <1>1
<1>3. \A j \in 1 .. Len(closings) : closings[j] # wipL2Block'
  BY <1>1
<1> QED BY <1>2, <1>3, Zenon DEF WIPInv

LEMMA IterationIsNotStale ==
  ASSUME pc \in Iteration, WIPInv
  PROVE  ~Stale /\ wipL2Block # 1 /\ \A j \in 1 .. Len(closings) : closings[j] # wipL2Block
<1>1. ~Stale
  BY DEF Iteration, Stale, Finalizing
<1> QED BY <1>1, Zenon DEF WIPInv

LEMMA WIPPreserved == ShapeInv /\ WIPInv /\ [Next]_vars => WIPInv'
<1> SUFFICES ASSUME ShapeInv, WIPInv, [Next]_vars
             PROVE  WIPInv'
  OBVIOUS
<1>1. DataInv /\ StackInv /\ deployment' = deployment
  BY Zenon DEF ShapeInv, Next, vars
<1>2. 1 \in BlockIds /\ Len(blocks) \in Nat /\ BlockIds = 1 .. Len(blocks)
  BY Lengths DEF ShapeInv, DataInv, BlockInv, BlockIds
<1>3. ASSUME UNCHANGED <<pc, stack, wipL2Block, closings>>, blocks'[1].txs = blocks[1].txs
      PROVE  WIPInv'
  <2>1. Stale' = Stale
    BY <1>3, Zenon DEF Stale
  <2> QED BY <1>3, <2>1, Zenon DEF WIPInv
<1>4. CASE LoopMove
  <2>1. UNCHANGED <<blocks, wipL2Block, closings>>
    BY <1>4, LoopMoveIs, Zenon DEF processVars
  <2>2. CASE pc \in Iteration
    <3>1. wipL2Block # 1 /\ ~Stale
      BY <2>2, IterationIsNotStale, Zenon
    <3> QED BY <2>1, <3>1, WIPKept, Zenon
  <2>3. CASE FinalizeBatch /\ blocks[wipL2Block].txs # <<>>
    <3>1. pc' = "closeBlock"
      BY <2>3, Zenon DEF FinalizeBatch, Call
    <3>2. Stale'
      BY <3>1 DEF Stale
    <3>3. wipL2Block # 1
      BY <2>3, Zenon DEF WIPInv
    <3> QED BY <2>1, <3>2, <3>3, WIPKept, Zenon
  <2>4. CASE WaitProcessed \/ (FinalizeBatch /\ blocks[wipL2Block].txs = <<>>)
    <3>1. pc \in Finalizing /\ pc' \in Finalizing /\ stack' = stack
      BY <2>4 DEF FinalizeBatch, WaitProcessed, Finalizing
    <3>2. pc' # "closeBlock" /\ pc \notin {"openBlock", "newBlock", "closeBlock", "down"}
      BY <3>1 DEF Finalizing
    <3>3. Stale => Stale'
      BY <3>1, <3>2, Zenon DEF Stale
    <3> QED BY <2>1, <3>2, <3>3, WIPKept, Zenon
  <2>5. LoopMove => pc \in Iteration \/ FinalizeBatch \/ WaitProcessed
    BY DEF LoopMove, L2BlockTime, NoFittingTransaction, NoTransaction, FullBatch, Deadline, NextIteration, Iteration
  <2> QED BY <1>4, <2>2, <2>3, <2>4, <2>5, Zenon
<1>5. CASE \E t \in Txs : ProcessTransaction(t)
  <2>1. PICK t \in Txs : ProcessTransaction(t)
    BY <1>5
  <2>2. pc \in Iteration /\ UNCHANGED <<wipL2Block, closings>>
    BY <2>1 DEF ProcessTransaction, Iteration, processVars
  <2>3. ~Stale /\ wipL2Block # 1
    BY <2>2, IterationIsNotStale, Zenon
  <2>4. blocks'[1] = blocks[1]
    BY <1>1, <1>2, <2>1, <2>3, ProcessTransactionData, Zenon
  <2> QED BY <2>2, <2>3, <2>4, WIPKept, Zenon
<1>6. CASE CloseWIPL2Block
  <2>1. pc = "closeBlock" /\ pc' = "openBlock" /\ UNCHANGED <<blocks, wipL2Block>> /\ closings' = Append(closings, wipL2Block)
    BY <1>6, Zenon DEF CloseWIPL2Block
  <2>2. Stale' /\ pc' # "closeBlock"
    BY <2>1 DEF Stale
  <2>3. wipL2Block # 1
    BY <2>1, Zenon DEF WIPInv
  <2>4. \A j \in 1 .. Len(closings') : closings'[j] # 1
    <3>1. closings \in Seq(Nat) /\ wipL2Block \in Nat /\ Len(closings) \in Nat
      BY Lengths
    <3>2. /\ Len(closings') = Len(closings) + 1 /\ closings'[Len(closings) + 1] = wipL2Block
          /\ \A i \in 1 .. Len(closings) : closings'[i] = closings[i]
      BY <2>1, <3>1, AppendProperties
    <3>3. \A i \in 1 .. Len(closings) : closings[i] # 1
      BY Zenon DEF WIPInv
    <3> QED BY <2>3, <3>1, <3>2, <3>3
  <2> QED BY <2>1, <2>2, <2>3, <2>4, Zenon DEF WIPInv
<1>7. CASE OpenNewWIPL2Block
  <2>1. closings' = closings /\ blocks'[1] = blocks[1]
    BY <1>1, <1>2, <1>7, OpenNewWIPL2BlockData, Zenon DEF OpenNewWIPL2Block, processVars
  <2>2. CASE Call("closeBatch", "newBlock") /\ wipL2Block' = wipL2Block
    <3>1. pc' = "closeBatch" /\ Head(stack') = "newBlock"
      <4>1. IsStack(stack) /\ pc \notin Iteration /\ pc # "down" /\ stack # <<>>
        BY <1>1, <1>7 DEF StackInv, OpenNewWIPL2Block, Iteration
      <4> QED BY <2>2, <4>1, Push, Zenon DEF Call
    <3>2. Stale' /\ pc' # "closeBlock"
      BY <3>1 DEF Stale, Finalizing
    <3> QED BY <2>1, <3>2, WIPStale, Zenon
  <2>3. CASE Return /\ wipL2Block' = Len(blocks) + 1
    BY <2>1, <2>3, WIPFresh, Zenon
  <2> QED BY <1>1, <1>7, <2>2, <2>3, OpenNewWIPL2BlockData, Zenon
<1>8. CASE OpenAfterBatch
  <2>1. NewL2Block /\ UNCHANGED <<procBlock, storeBlock, toProcess, toStore, closings>>
    BY <1>8, Zenon DEF OpenAfterBatch, processVars, storeVars
  <2>2. wipL2Block' = Len(blocks) + 1 /\ blocks'[1] = blocks[1]
    BY <1>1, <1>2, <2>1, NewL2BlockData, Zenon
  <2> QED BY <2>1, <2>2, WIPFresh, Zenon
<1>9. CASE CloseWIPBatch
  <2>1. pc = "waitStore" /\ pc' \in {"openBatch", "down"} /\ UNCHANGED <<blocks, wipL2Block, stack, closings>>
    BY <1>9 DEF CloseWIPBatch, processVars
  <2>2. Stale => Stale'
    BY <2>1 DEF Stale, Finalizing
  <2>3. pc' # "closeBlock"
    BY <2>1
  <2> QED BY <2>1, <2>2, <2>3, WIPKept, Zenon
<1>10. CASE OpenNewWIPBatch
  <2>1. pc = "openBatch" /\ UNCHANGED <<blocks, wipL2Block, closings>> /\ (Return \/ pc' = "down")
    BY <1>10, Zenon DEF OpenNewWIPBatch, processVars
  <2>2. CASE pc' = "down"
    <3>1. Stale' /\ pc' # "closeBlock"
      BY <2>2 DEF Stale
    <3> QED BY <2>1, <3>1, WIPKept, Zenon
  <2>3. CASE Return
    <3>1. pc' \in {"top", "pick", "check", "newBlock", "waitProcess"} /\ pc' = Head(stack)
      BY <1>1, <2>1, <2>3, ReturnsTo, Zenon DEF Return
    <3>2. Stale => Head(stack) = "newBlock"
      BY <2>1 DEF Stale
    <3>3. pc' = "newBlock" => Stale'
      BY DEF Stale
    <3>4. pc' # "closeBlock"
      BY <3>1
    <3> QED BY <2>1, <3>1, <3>2, <3>3, <3>4, WIPKept, Zenon
  <2> QED BY <2>1, <2>2, <2>3, Zenon
<1>11. CASE ProcessL2Block
  <2>1. UNCHANGED <<pc, stack, wipL2Block, closings>>
    BY <1>11, Zenon DEF ProcessL2Block, loopVars
  <2>2. blocks'[1].txs = blocks[1].txs
    BY <1>1, <1>2, <1>11, ProcessL2BlockData, Zenon
  <2> QED BY <1>3, <2>1, <2>2, Zenon
<1>12. CASE Restart
  <2>1. UNCHANGED <<blocks, closings>> /\ pc' \in {"openBlock", "down"}
    BY <1>12 DEF Restart, Start
  <2>2. Stale' /\ pc' # "closeBlock"
    BY <2>1 DEF Stale
  <2> QED BY <2>1, <2>2, WIPStale, Zenon
<1>13. CASE \/ AddPendingL2BlockToStore \/ ProcessDone \/ StorePendingL2Blocks \/ UpdateProverIdAndFlushId
            \/ ParallelCheck \/ ExecutorStores \/ UNCHANGED vars
  <2>1. UNCHANGED <<pc, stack, wipL2Block, closings, blocks>>
    BY <1>13, Zenon DEF StorePendingL2Blocks, UpdateProverIdAndFlushId, ParallelCheck,
     ExecutorStores, AddPendingL2BlockToStore, ProcessDone, TakeL2BlockToStore, StoreL2Block, StoreFails,
     StoreDone, FlushIDCheck, FlushIDWait, FlushIDPoll, loopVars, processVars, vars, nodeVars
  <2> QED BY <1>3, <2>1, Zenon
<1> QED BY <1>4, <1>5, <1>6, <1>7, <1>8, <1>9, <1>10, <1>11, <1>12, <1>13, Zenon
  DEF Next, FinalizeBatches, LoopMove, ProcessPendingL2Blocks

-----------------------------------------------------------------------------
(* The batch a block is executed for, and its flush id.                     *)

LEMMA QuietIsEmpty ==
  ASSUME ShapeInv, pc = "openBatch"
  PROVE  /\ toProcess = <<>> /\ toStore = <<>> /\ procPc = "idle" /\ storePc = "idle"
         /\ \A x : ~InPending(x)
<1>1. /\ toProcess \in Seq(Nat) /\ toStore \in Seq(Nat) /\ Len(toProcess) \in Nat /\ Len(toStore) \in Nat
  BY Lengths, Zenon
<1>2. /\ 0 = Len(toProcess) + (IF procPc = "idle" THEN 0 ELSE 1)
      /\ 0 = Len(toStore) + (IF storePc = "idle" THEN 0 ELSE 1)
  BY Zenon DEF ShapeInv, CountInv
<1>3. procPc = "idle" /\ storePc = "idle" /\ Len(toProcess) = 0 /\ Len(toStore) = 0
  BY <1>1, <1>2
<1>4. toProcess = <<>> /\ toStore = <<>>
  BY <1>1, <1>3, EmptySeq
<1>5. \A x : ~InPending(x)
  <2>1. 1 .. 0 = {} /\ procPc # "send" /\ storePc # "flush"
    BY <1>3
  <2> QED BY <1>3, <2>1, Zenon DEF InPending
<1> QED BY <1>3, <1>4, <1>5, Zenon

\* The WIP batch is replaced only when no block is on its way.
LEMMA NumStep ==
  ASSUME ShapeInv, [Next]_vars, pc' # "down"
  PROVE  \/ pc # "down" /\ wipBatch'.num = wipBatch.num
         \/ toProcess' = <<>> /\ \A x : ~InPending(x)'
<1>1. DataInv /\ deployment' = deployment
  BY Zenon DEF ShapeInv, Next, vars
<1>2. CASE LoopMove
  <2>1. wipBatch' = wipBatch /\ pc # "down"
    BY <1>2, LoopMoveIs
  <2> QED BY <2>1, Zenon
<1>3. CASE \E t \in Txs : ProcessTransaction(t)
  <2>1. PICK t \in Txs : ProcessTransaction(t)
    BY <1>3
  <2>2. pc # "down"
    BY <2>1 DEF ProcessTransaction
  <2> QED BY <1>1, <2>1, <2>2, ProcessTransactionData, Zenon
<1>4. CASE CloseWIPL2Block \/ OpenAfterBatch \/ CloseWIPBatch
  <2>1. wipBatch' = wipBatch /\ pc \in {"closeBlock", "newBlock", "waitStore"}
    BY <1>4 DEF CloseWIPL2Block, OpenAfterBatch, CloseWIPBatch
  <2>2. pc # "down"
    BY <2>1
  <2> QED BY <2>1, <2>2, Zenon
<1>5. CASE OpenNewWIPL2Block
  <2>1. pc # "down"
    BY <1>5 DEF OpenNewWIPL2Block
  <2> QED BY <1>1, <1>5, <2>1, OpenNewWIPL2BlockData, Zenon
<1>6. CASE OpenNewWIPBatch
  <2>1. /\ pc = "openBatch"
        /\ UNCHANGED <<toProcess, procPc, procBlock, toStore, storePc, storeBlock>>
    BY <1>6, Zenon DEF OpenNewWIPBatch, processVars, storeVars
  <2>2. toProcess = <<>> /\ \A x : ~InPending(x)
    BY <2>1, QuietIsEmpty, Zenon
  <2> QED BY <2>1, <2>2, Zenon DEF InPending
<1>7. CASE ProcessL2Block
  <2>1. pc # "down"
    BY <1>7, Zenon DEF ProcessL2Block
  <2> QED BY <1>1, <1>7, <2>1, ProcessL2BlockData, Zenon
<1>8. CASE Restart
  <2>1. toProcess' = <<>> /\ toStore' = <<>> /\ procPc' = "idle" /\ storePc' = "idle"
    BY <1>8, Zenon DEF Restart, Start
  <2>2. Len(toStore') = 0 /\ 1 .. 0 = {} /\ procPc' # "send" /\ storePc' # "flush"
    BY <2>1
  <2> QED BY <2>1, <2>2, Zenon DEF InPending
<1>9. CASE \/ AddPendingL2BlockToStore \/ ProcessDone \/ StorePendingL2Blocks \/ UpdateProverIdAndFlushId
           \/ ParallelCheck \/ ExecutorStores \/ UNCHANGED vars
  <2>1. UNCHANGED <<pc, wipBatch>>
    BY <1>9, Zenon DEF StorePendingL2Blocks, UpdateProverIdAndFlushId, ParallelCheck,
     ExecutorStores, AddPendingL2BlockToStore, ProcessDone, TakeL2BlockToStore, StoreL2Block, StoreFails,
     StoreDone, FlushIDCheck, FlushIDWait, FlushIDPoll, loopVars, vars, nodeVars
  <2> QED BY <2>1, Zenon
<1> QED BY <1>2, <1>3, <1>4, <1>5, <1>6, <1>7, <1>8, <1>9, Zenon
  DEF Next, FinalizeBatches, LoopMove, ProcessPendingL2Blocks

\* How the loop comes to close the open L2 block or a batch.
LEMMA ClosingStep ==
  ASSUME ShapeInv, [Next]_vars, pc' \in {"closeBlock", "openBlock", "closeBatch"}
  PROVE  \/ /\ pc \in {"closeBlock", "openBlock", "closeBatch"}
            /\ wipL2Block' = wipL2Block /\ wipBatch'.num = wipBatch.num
         \/ pc \in Iteration /\ UNCHANGED <<wipL2Block, closings>>
         \/ wipL2Block' = 1 /\ closings' = closings
<1>1. DataInv /\ StackInv /\ deployment' = deployment
  BY Zenon DEF ShapeInv, Next, vars
<1>2. pc' # "down"
  OBVIOUS
<1>3. CASE LoopMove
  <2>1. UNCHANGED <<wipBatch, wipL2Block, closings>>
    BY <1>3, LoopMoveIs, Zenon DEF processVars
  <2>2. pc \in Iteration \/ pc = "closeBatch"
    BY <1>3 DEF LoopMove, L2BlockTime, NoFittingTransaction, NoTransaction, FullBatch, Deadline,
       NextIteration, FinalizeBatch, WaitProcessed, Iteration
  <2> QED BY <2>1, <2>2, Zenon
<1>4. CASE \E t \in Txs : ProcessTransaction(t)
  BY <1>4 DEF ProcessTransaction
<1>5. CASE CloseWIPL2Block
  BY <1>5, Zenon DEF CloseWIPL2Block
<1>6. CASE OpenNewWIPL2Block
  <2>1. pc = "openBlock" /\ wipBatch'.num = wipBatch.num
    BY <1>1, <1>6, OpenNewWIPL2BlockData, Zenon DEF OpenNewWIPL2Block
  <2>2. ~Return
    <3>1. SUFFICES ASSUME Return PROVE FALSE
      OBVIOUS
    <3>2. pc' \in {"top", "pick", "check", "newBlock", "waitProcess"}
      BY <1>1, <2>1, <3>1, ReturnsTo, Zenon
    <3> QED BY <3>2
  <2> QED BY <1>1, <1>6, <2>1, <2>2, OpenNewWIPL2BlockData, Zenon
<1>7. CASE OpenAfterBatch \/ OpenNewWIPBatch
  <2>1. pc \in {"newBlock", "openBatch"} /\ Return
    BY <1>2, <1>7 DEF OpenAfterBatch, OpenNewWIPBatch
  <2>2. pc \in {"openBlock", "newBlock", "openBatch"}
    BY <2>1
  <2>3. pc' \in {"top", "pick", "check", "newBlock", "waitProcess"}
    BY <1>1, <2>1, <2>2, ReturnsTo, Zenon
  <2> QED BY <2>3
<1>8. CASE CloseWIPBatch
  BY <1>8 DEF CloseWIPBatch
<1>9. CASE ProcessL2Block
  BY <1>1, <1>9, ProcessL2BlockData, Zenon DEF ProcessL2Block, loopVars
<1>10. CASE Restart
  BY <1>2, <1>10, Zenon DEF Restart, Start
<1>11. CASE \/ AddPendingL2BlockToStore \/ ProcessDone \/ StorePendingL2Blocks \/ UpdateProverIdAndFlushId
            \/ ParallelCheck \/ ExecutorStores \/ UNCHANGED vars
  <2>1. UNCHANGED <<pc, wipBatch, wipL2Block>>
    BY <1>11, Zenon DEF StorePendingL2Blocks, UpdateProverIdAndFlushId, ParallelCheck,
     ExecutorStores, AddPendingL2BlockToStore, ProcessDone, TakeL2BlockToStore, StoreL2Block, StoreFails,
     StoreDone, FlushIDCheck, FlushIDWait, FlushIDPoll, loopVars, vars, nodeVars
  <2> QED BY <2>1, Zenon
<1> QED BY <1>3, <1>4, <1>5, <1>6, <1>7, <1>8, <1>9, <1>10, <1>11, Zenon
  DEF Next, FinalizeBatches, LoopMove, ProcessPendingL2Blocks

\* What waits for the executor was waiting, or was just closed.
LEMMA ToProcessStep ==
  ASSUME ShapeInv, [Next]_vars, NEW i \in 1 .. Len(toProcess')
  PROVE  \/ \E j \in 1 .. Len(toProcess) : toProcess'[i] = toProcess[j]
         \/ CloseWIPL2Block /\ toProcess'[i] = wipL2Block
<1>1. toProcess \in Seq(Nat) /\ Len(toProcess) \in Nat /\ wipL2Block \in Nat
  BY Lengths
<1>2. CASE UNCHANGED <<toProcess, closings>>
  BY <1>2, Zenon
<1>3. CASE CloseWIPL2Block
  <2>1. toProcess' = Append(toProcess, wipL2Block)
    BY <1>3, Zenon DEF CloseWIPL2Block
  <2>2. /\ Len(toProcess') = Len(toProcess) + 1 /\ toProcess'[Len(toProcess) + 1] = wipL2Block
        /\ \A j \in 1 .. Len(toProcess) : toProcess'[j] = toProcess[j]
    BY <1>1, <2>1, AppendProperties
  <2>3. i = Len(toProcess) + 1 \/ i \in 1 .. Len(toProcess)
    BY <1>1, <2>2
  <2> QED BY <1>3, <2>2, <2>3, Zenon
<1>4. CASE ProcessL2Block
  <2>1. toProcess # <<>> /\ toProcess' = Tail(toProcess)
    BY <1>4, Zenon DEF ProcessL2Block
  <2>2. Len(toProcess') = Len(toProcess) - 1 /\ \A j \in 1 .. Len(toProcess') : toProcess'[j] = toProcess[j + 1]
    BY <1>1, <2>1, HeadTailProperties
  <2>3. i + 1 \in 1 .. Len(toProcess)
    BY <1>1, <2>2
  <2> QED BY <2>2, <2>3, Zenon
<1>5. CASE toProcess' = <<>>
  BY <1>5
<1> QED BY <1>2, <1>3, <1>4, <1>5, QueueChange, Zenon

LEMMA HeadIsFirst ==
  ASSUME ShapeInv, ProcessL2Block
  PROVE  /\ 1 \in 1 .. Len(toProcess) /\ Head(toProcess) = toProcess[1] /\ pc # "down"
<1>1. toProcess \in Seq(Nat) /\ Len(toProcess) \in Nat
  BY Lengths
<1>2. toProcess # <<>> /\ pc # "down"
  BY Zenon DEF ProcessL2Block
<1>3. Len(toProcess) # 0
  BY <1>1, <1>2, EmptySeq
<1> QED BY <1>1, <1>2, <1>3, HeadTailProperties

\* A block that is stored in batch n only stays so, if n is the WIP batch.
LEMMA StoredOnlyStep ==
  ASSUME ShapeInv, [Next]_vars, NEW x, NEW n, StoredOnlyIn(x, n), n = wipBatch.num
  PROVE  StoredOnlyIn(x, n)'
<1> SUFFICES ASSUME NEW m \in 1 .. Len(batches'), NEW i \in 1 .. Len(batches'[m].blocks), batches'[m].blocks[i] = x
             PROVE  m = n
  BY Zenon DEF StoredOnlyIn
<1> QED BY RowsStep, Zenon DEF StoredOnlyIn

LEMMA PlacePreserved == ShapeInv /\ OrderInv /\ WIPInv /\ PlaceInv /\ [Next]_vars => PlaceInv'
<1> SUFFICES ASSUME ShapeInv, OrderInv, WIPInv, PlaceInv, [Next]_vars
             PROVE  PlaceInv'
  OBVIOUS
<1>1. DataInv /\ deployment' = deployment /\ OrderInv'
  BY OrderPreserved, Zenon DEF ShapeInv, Next, vars
<1>2. ASSUME ProcessL2Block
      PROVE  /\ \A x : x = Head(toProcess) => blocks'[x].batch = wipBatch.num
             /\ StoredOnlyIn(Head(toProcess), wipBatch.num) /\ wipBatch'.num = wipBatch.num /\ pc # "down"
  <2>1. 1 \in 1 .. Len(toProcess) /\ Head(toProcess) = toProcess[1] /\ pc # "down"
    BY <1>2, HeadIsFirst, Zenon
  <2>2. StoredOnlyIn(toProcess[1], wipBatch.num)
    BY <2>1, Zenon DEF PlaceInv
  <2> QED BY <1>1, <1>2, <2>1, <2>2, ProcessL2BlockData, Zenon
<1>4. ASSUME NEW n \in 1 .. Len(batches'), NEW i \in 1 .. Len(batches'[n].blocks), NEW x, x = batches'[n].blocks[i]
      PROVE  blocks'[x].batch = n
  <2>1. CASE n \in 1 .. Len(batches) /\ i \in 1 .. Len(batches[n].blocks) /\ batches'[n].blocks[i] = batches[n].blocks[i]
    <3>1. blocks[x].batch = n
      BY <1>4, <2>1, Zenon DEF PlaceInv
    <3>2. x \in BlockIds
      <4>1. Taken(x) /\ QueueInv
        BY <1>4, <2>1, Zenon DEF OrderInv
      <4>2. PICK j \in 1 .. Len(closings) - Len(toProcess) : closings[j] = x
        BY <4>1, Zenon DEF Taken
      <4>3. Len(closings) \in Nat /\ Len(toProcess) \in Nat /\ \A k \in 1 .. Len(closings) : closings[k] \in BlockIds
        BY Lengths, Zenon
      <4>4. j \in 1 .. Len(closings)
        BY <4>3
      <4> QED BY <4>2, <4>3, <4>4, Zenon
    <3>3. CASE ProcessL2Block /\ x = Head(toProcess)
      <4>1. n = wipBatch.num
        BY <1>2, <1>4, <2>1, <3>3, Zenon DEF StoredOnlyIn
      <4> QED BY <1>2, <3>3, <4>1, Zenon
    <3> QED BY <3>1, <3>2, <3>3, BlocksStep, Zenon
  <2>2. CASE StoreL2Block /\ n = wipBatch.num /\ x = storeBlock
    <3>1. InPending(x) /\ pc # "down"
      BY <2>2, Zenon DEF StoreL2Block, InPending
    <3>2. x \in BlockIds
      BY <3>1, PendingIsBlock, Zenon
    <3>3. blocks[x].batch = wipBatch.num
      BY <3>1, <3>2, Zenon DEF PlaceInv
    <3> QED BY <1>2, <2>2, <3>2, <3>3, BlocksStep, Zenon
  <2> QED BY <1>4, <2>1, <2>2, RowsStep, Zenon
<1>5. ASSUME pc' # "down", NEW x, InPending(x)'
      PROVE  blocks'[x].batch = wipBatch'.num
  <2>1. pc # "down" /\ wipBatch'.num = wipBatch.num
    BY <1>5, NumStep, Zenon
  <2>2. CASE InPending(x)
    <3>1. x \in BlockIds
      BY <2>2, PendingIsBlock, Zenon
    <3>2. blocks[x].batch = wipBatch.num
      BY <2>1, <2>2, <3>1, Zenon DEF PlaceInv
    <3> QED BY <1>2, <2>1, <3>1, <3>2, BlocksStep, Zenon
  <2> QED BY <1>2, <1>5, <2>1, <2>2, PendingStep, Zenon
<1>6. ASSUME pc' # "down", NEW i \in 1 .. Len(toProcess'), NEW x, x = toProcess'[i], NEW n, n = wipBatch'.num
      PROVE  StoredOnlyIn(x, n)'
  <2>1. pc # "down" /\ wipBatch'.num = wipBatch.num
    <3>1. toProcess' # <<>>
      BY <1>6
    <3> QED BY <1>6, <3>1, NumStep, Zenon
  <2>2. StoredOnlyIn(x, n)
    <3>1. CASE \E j \in 1 .. Len(toProcess) : toProcess'[i] = toProcess[j]
      BY <1>6, <2>1, <3>1, Zenon DEF PlaceInv
    <3>2. CASE CloseWIPL2Block /\ toProcess'[i] = wipL2Block
      <4>1. pc \in {"closeBlock", "openBlock", "closeBatch"}
        BY <3>2 DEF CloseWIPL2Block
      <4> QED BY <1>6, <2>1, <3>2, <4>1, Zenon DEF PlaceInv
    <3> QED BY <3>1, <3>2, ToProcessStep, Zenon
  <2> QED BY <1>6, <2>1, <2>2, StoredOnlyStep, Zenon
<1>7. ASSUME pc' \in {"closeBlock", "openBlock", "closeBatch"}, NEW x, x = wipL2Block', NEW n, n = wipBatch'.num
      PROVE  StoredOnlyIn(x, n)'
  <2>1. CASE /\ pc \in {"closeBlock", "openBlock", "closeBatch"}
             /\ wipL2Block' = wipL2Block /\ wipBatch'.num = wipBatch.num
    <3>1. StoredOnlyIn(x, n)
      BY <1>7, <2>1, Zenon DEF PlaceInv
    <3> QED BY <1>7, <2>1, <3>1, StoredOnlyStep, Zenon
  <2>2. ASSUME \A j \in 1 .. Len(closings') : closings'[j] # x
        PROVE  StoredOnlyIn(x, n)'
    <3> SUFFICES ASSUME NEW m \in 1 .. Len(batches'), NEW i \in 1 .. Len(batches'[m].blocks), batches'[m].blocks[i] = x
                 PROVE  FALSE
      BY Zenon DEF StoredOnlyIn
    <3>1. Len(closings') \in Nat /\ Len(toProcess') \in Nat
      <4>1. PointerInv'
        BY DataPreserved, Zenon DEF ShapeInv, DataInv
      <4> QED BY <4>1, LenProperties DEF PointerInv, Ids
    <3>2. PICK j \in 1 .. Len(closings') - Len(toProcess') : closings'[j] = batches'[m].blocks[i]
      BY <1>1, Zenon DEF OrderInv, Taken
    <3>3. j \in 1 .. Len(closings')
      BY <3>1
    <3> QED BY <2>2, <3>2, <3>3, Zenon
  <2>3. CASE pc \in Iteration /\ UNCHANGED <<wipL2Block, closings>>
    <3>1. \A j \in 1 .. Len(closings) : closings[j] # wipL2Block
      BY <2>3, IterationIsNotStale, Zenon
    <3> QED BY <1>7, <2>2, <2>3, <3>1, Zenon
  <2>4. CASE wipL2Block' = 1 /\ closings' = closings
    BY <1>7, <2>2, <2>4, Zenon DEF WIPInv
  <2> QED BY <1>7, <2>1, <2>3, <2>4, ClosingStep, Zenon
<1>8. \A n \in 1 .. Len(batches') : \A i \in 1 .. Len(batches'[n].blocks) : blocks'[batches'[n].blocks[i]].batch = n
  BY <1>4, Zenon
<1>9. pc' # "down" => /\ \A x \in BlockIds' : InPending(x)' => blocks'[x].batch = wipBatch'.num
                      /\ \A i \in 1 .. Len(toProcess') : StoredOnlyIn(toProcess[i], wipBatch.num)'
  <2>1. ASSUME pc' # "down", NEW i \in 1 .. Len(toProcess')
        PROVE  StoredOnlyIn(toProcess[i], wipBatch.num)'
    <3> DEFINE x == toProcess'[i]
               n == wipBatch'.num
    <3>1. \A m \in 1 .. Len(batches') : \A j \in 1 .. Len(batches'[m].blocks) : batches'[m].blocks[j] = x => m = n
      <4>1. \A y, k : y = toProcess'[i] /\ k = wipBatch'.num => StoredOnlyIn(y, k)'
        BY <1>6, <2>1, Zenon
      <4>2. \A y, k : y = x /\ k = n =>
              \A m \in 1 .. Len(batches') : \A j \in 1 .. Len(batches'[m].blocks) : batches'[m].blocks[j] = y => m = k
        BY <4>1, Zenon DEF StoredOnlyIn
      <4> HIDE DEF x, n
      <4> QED BY <4>2, Zenon
    <3> QED BY <3>1, Zenon DEF StoredOnlyIn
  <2> QED BY <1>5, <2>1, Zenon
<1>10. pc' \in {"closeBlock", "openBlock", "closeBatch"} => StoredOnlyIn(wipL2Block, wipBatch.num)'
  BY <1>7, Zenon DEF StoredOnlyIn
<1> QED BY <1>8, <1>9, <1>10, Zenon DEF PlaceInv

\* A block that waits for the executor was not there before, if none is closed twice.
LEMMA HeadIsNew ==
  ASSUME ShapeInv, QueueInv, ClosedOnce, ProcessL2Block
  PROVE  ~Taken(Head(toProcess))
<1> SUFFICES ASSUME Taken(Head(toProcess)) PROVE FALSE
  OBVIOUS
<1>1. closings \in Seq(Nat) /\ Len(closings) \in Nat /\ Len(toProcess) \in Nat
  BY Lengths
<1>2. 1 \in 1 .. Len(toProcess) /\ Head(toProcess) = toProcess[1]
  BY HeadIsFirst, Zenon
<1>3. Head(toProcess) = closings[Len(closings) - Len(toProcess) + 1]
  BY <1>2, Zenon DEF QueueInv
<1>4. PICK j \in 1 .. Len(closings) - Len(toProcess) : closings[j] = Head(toProcess)
  BY Zenon DEF Taken
<1>5. /\ j \in DOMAIN closings /\ Len(closings) - Len(toProcess) + 1 \in DOMAIN closings
      /\ j # Len(closings) - Len(toProcess) + 1
  BY <1>1, <1>2, <1>4 DEF QueueInv
<1> QED BY <1>3, <1>4, <1>5, Zenon DEF ClosedOnce, IsInjective

\* A stored block has its execution results for good, if none is closed twice.
LEMMA StoredStays ==
  ASSUME ShapeInv, OrderInv, ClosedOnce, [Next]_vars, NEW x, Taken(x)
  PROVE  /\ x \in BlockIds
         /\ blocks'[x].batch = blocks[x].batch /\ blocks'[x].flush = blocks[x].flush
         /\ blocks'[x].initial = blocks[x].initial /\ blocks'[x].root = blocks[x].root
<1>1. x \in BlockIds
  <2>1. PICK j \in 1 .. Len(closings) - Len(toProcess) : closings[j] = x
    BY Zenon DEF Taken
  <2>2. Len(closings) \in Nat /\ Len(toProcess) \in Nat /\ \A k \in 1 .. Len(closings) : closings[k] \in BlockIds
    BY Lengths, Zenon
  <2>3. j \in 1 .. Len(closings)
    BY <2>2
  <2> QED BY <2>1, <2>2, <2>3, Zenon
<1>2. ~(ProcessL2Block /\ x = Head(toProcess))
  BY HeadIsNew, Zenon DEF OrderInv
<1> QED BY <1>1, <1>2, BlocksStep, Zenon

LEMMA FlushPreserved == ShapeInv /\ OrderInv /\ FlushInv /\ [Next]_vars => FlushInv'
<1> SUFFICES ASSUME ShapeInv, OrderInv, FlushInv, [Next]_vars, ClosedOnce',
                    NEW n \in 1 .. Len(batches'), NEW i \in 1 .. Len(batches'[n].blocks)
             PROVE  blocks'[batches'[n].blocks[i]].flush <= flushed'
  BY Zenon DEF FlushInv
<1>1. ClosedOnce
  BY QueueStep, Zenon DEF OrderInv
<1>2. flushed \in Nat /\ flush \in Nat /\ storedFlushID \in Nat /\ storedFlushID <= flushed
  BY Zenon DEF ShapeInv, DataInv, FlushIdInv
<1>3. flushed' \in Nat /\ flushed <= flushed'
  <2>1. \/ flushed' = flushed
        \/ ExecutorStores
    BY Zenon DEF Next, vars, nodeVars, executorVars, FinalizeBatches, ProcessPendingL2Blocks, StorePendingL2Blocks,
       UpdateProverIdAndFlushId, L2BlockTime, NoFittingTransaction, NoTransaction, ProcessTransaction, FullBatch,
       Deadline, NextIteration, CloseWIPL2Block, OpenNewWIPL2Block, OpenAfterBatch, FinalizeBatch, WaitProcessed,
       CloseWIPBatch, OpenNewWIPBatch, ParallelCheck, ProcessL2Block, AddPendingL2BlockToStore, ProcessDone,
       TakeL2BlockToStore, StoreL2Block, StoreFails, StoreDone, FlushIDCheck, FlushIDWait, FlushIDPoll, Restart
  <2>2. ExecutorStores => flushed' \in flushed + 1 .. flush
    BY Zenon DEF ExecutorStores
  <2> QED BY <1>2, <2>1, <2>2
<1>4. CASE /\ n \in 1 .. Len(batches) /\ i \in 1 .. Len(batches[n].blocks)
           /\ batches'[n].blocks[i] = batches[n].blocks[i]
  <2> DEFINE x == batches[n].blocks[i]
  <2>1. Taken(x) /\ blocks[x].flush <= flushed
    BY <1>1, <1>4, Zenon DEF OrderInv, FlushInv
  <2> HIDE DEF x
  <2>2. x \in BlockIds /\ blocks'[x].flush = blocks[x].flush
    BY <1>1, <2>1, StoredStays, Zenon
  <2>3. blocks[x] \in L2Block
    BY <2>2, Lengths, Zenon
  <2>4. blocks[x].flush \in Nat
    BY <2>3 DEF L2Block
  <2>5. blocks'[x].flush <= flushed'
    BY <1>2, <1>3, <2>1, <2>2, <2>4
  <2> QED BY <1>4, <2>5, Zenon DEF x
<1>5. CASE StoreL2Block /\ batches'[n].blocks[i] = storeBlock
  <2>1. storedFlushID >= blocks[storeBlock].flush /\ blocks' = blocks
    BY <1>5, Zenon DEF StoreL2Block, Flushed
  <2>2. blocks[storeBlock] \in L2Block
    BY Lengths
  <2>3. blocks[storeBlock].flush \in Nat
    BY <2>2 DEF L2Block
  <2>4. blocks[storeBlock].flush <= flushed'
    BY <1>2, <1>3, <2>1, <2>3
  <2> QED BY <1>5, <2>1, <2>4, Zenon
<1> QED BY <1>4, <1>5, RowsStep, Zenon

-----------------------------------------------------------------------------
(* The stored chain.                                                        *)

LEMMA PrefixOfAppend ==
  ASSUME NEW p \in Seq(Nat), NEW b \in Nat
  PROVE  /\ \A k \in 0 .. Len(p) : SubSeq(Append(p, b), 1, k) = SubSeq(p, 1, k)
         /\ SubSeq(p, 1, Len(p)) = p
         /\ SubSeq(Append(p, b), 1, Len(p) + 1) = Append(p, b)
<1> DEFINE q == Append(p, b)
<1>1. /\ q \in Seq(Nat) /\ Len(q) = Len(p) + 1 /\ Len(p) \in Nat
      /\ \A i \in 1 .. Len(p) : q[i] = p[i]
  BY AppendProperties, LenProperties
<1>2. SubSeq(p, 1, Len(p)) = p /\ SubSeq(q, 1, Len(q)) = q
  BY <1>1, SubSeqFull
<1> HIDE DEF q
<1>3. ASSUME NEW k \in 0 .. Len(p)
      PROVE  SubSeq(q, 1, k) = SubSeq(p, 1, k)
  <2>1. k \in Int /\ (\A i \in 1 .. k : q[i] \in Nat) /\ \A i \in 1 .. k : p[i] \in Nat
    BY <1>1, ElementOfSeq
  <2>2. /\ SubSeq(q, 1, k) \in Seq(Nat) /\ Len(SubSeq(q, 1, k)) = k
        /\ \A i \in 1 .. k : SubSeq(q, 1, k)[i] = q[i]
    BY <1>1, <2>1, SubSeqProperties
  <2>3. /\ SubSeq(p, 1, k) \in Seq(Nat) /\ Len(SubSeq(p, 1, k)) = k
        /\ \A i \in 1 .. k : SubSeq(p, 1, k)[i] = p[i]
    BY <1>1, <2>1, SubSeqProperties
  <2>4. \A i \in 1 .. k : SubSeq(q, 1, k)[i] = SubSeq(p, 1, k)[i]
    BY <1>1, <2>2, <2>3
  <2> QED BY <2>2, <2>3, <2>4, SeqEqual
<1> QED BY <1>1, <1>2, <1>3 DEF q

LEMMA PrefixOfCons ==
  ASSUME NEW p \in Seq(Nat), NEW b \in Nat
  PROVE  /\ <<b>> \o p \in Seq(Nat) /\ Len(<<b>> \o p) = Len(p) + 1 /\ Len(p) \in Nat
         /\ (<<b>> \o p)[1] = b /\ \A i \in 1 .. Len(p) : (<<b>> \o p)[i + 1] = p[i]
         /\ \A k \in 0 .. Len(p) : SubSeq(<<b>> \o p, 1, k + 1) = <<b>> \o SubSeq(p, 1, k)
<1> DEFINE q == <<b>> \o p
<1>1. <<b>> \in Seq(Nat) /\ Len(<<b>>) = 1 /\ <<b>>[1] = b /\ Len(p) \in Nat
  BY LenProperties
<1>2. /\ q \in Seq(Nat) /\ Len(q) = 1 + Len(p)
      /\ \A i \in 1 .. 1 + Len(p) : q[i] = IF i <= 1 THEN <<b>>[i] ELSE p[i - 1]
  BY <1>1, ConcatProperties
<1> HIDE DEF q
<1>3. q[1] = b /\ \A i \in 1 .. Len(p) : q[i + 1] = p[i]
  BY <1>1, <1>2
<1>4. ASSUME NEW k \in 0 .. Len(p)
      PROVE  SubSeq(q, 1, k + 1) = <<b>> \o SubSeq(p, 1, k)
  <2> DEFINE u == SubSeq(p, 1, k)
             v == SubSeq(q, 1, k + 1)
  <2>0. (\A i \in 1 .. Len(q) : q[i] \in Nat) /\ \A i \in 1 .. Len(p) : p[i] \in Nat
    BY <1>2, ElementOfSeq
  <2>1. k \in Int /\ k + 1 \in Int /\ (\A i \in 1 .. k + 1 : q[i] \in Nat) /\ \A i \in 1 .. k : p[i] \in Nat
    BY <1>1, <1>2, <2>0
  <2>2. v \in Seq(Nat) /\ Len(v) = k + 1 /\ \A i \in 1 .. k + 1 : v[i] = q[i]
    BY <2>1, SubSeqProperties
  <2>3. u \in Seq(Nat) /\ Len(u) = k /\ \A i \in 1 .. k : u[i] = p[i]
    BY <2>1, SubSeqProperties
  <2> HIDE DEF u, v
  <2>4. /\ <<b>> \o u \in Seq(Nat) /\ Len(<<b>> \o u) = 1 + k
        /\ \A i \in 1 .. 1 + k : (<<b>> \o u)[i] = IF i <= 1 THEN <<b>>[i] ELSE u[i - 1]
    BY <1>1, <2>3, ConcatProperties
  <2> DEFINE w == <<b>> \o u
  <2>5. /\ w \in Seq(Nat) /\ Len(w) = k + 1
        /\ \A i \in 1 .. k + 1 : w[i] = IF i <= 1 THEN b ELSE u[i - 1]
    BY <1>1, <2>4
  <2> HIDE DEF w
  <2>6. ASSUME NEW i \in 1 .. k + 1
        PROVE  v[i] = w[i]
    <3>1. CASE i = 1
      BY <1>3, <2>2, <2>5, <3>1
    <3>2. CASE i # 1
      <4>1. i - 1 \in 1 .. k /\ i - 1 \in 1 .. Len(p) /\ (i - 1) + 1 = i
        BY <1>1, <3>2
      <4>2. q[(i - 1) + 1] = p[i - 1]
        BY <1>3, <4>1, Zenon
      <4>3. u[i - 1] = p[i - 1] /\ v[i] = q[i]
        BY <2>2, <2>3, <4>1, Zenon
      <4>4. w[i] = u[i - 1]
        BY <2>5, <3>2
      <4> QED BY <4>1, <4>2, <4>3, <4>4
    <3> QED BY <3>1, <3>2
  <2>7. v = w
    BY <2>2, <2>5, <2>6, SeqEqual
  <2> QED BY <2>7 DEF u, v, w
<1> QED BY <1>1, <1>2, <1>3, <1>4 DEF q

\* Executing one more block on top of the pending ones.
LEMMA ExecutedAppend ==
  ASSUME NEW bl, NEW r \in Seq(Nat), NEW p \in Seq(Nat), NEW b \in Nat, Executed(bl, r, p),
         bl[b].initial = r \o p, bl[b].root = Append(r \o p, b)
  PROVE  Executed(bl, r, Append(p, b)) /\ r \o Append(p, b) = Append(r \o p, b)
<1> DEFINE q == Append(p, b)
<1>1. /\ q \in Seq(Nat) /\ Len(q) = Len(p) + 1 /\ Len(p) \in Nat /\ q[Len(p) + 1] = b
      /\ \A i \in 1 .. Len(p) : q[i] = p[i]
  BY AppendProperties, LenProperties
<1>2. /\ \A k \in 0 .. Len(p) : SubSeq(q, 1, k) = SubSeq(p, 1, k)
      /\ SubSeq(p, 1, Len(p)) = p /\ SubSeq(q, 1, Len(p) + 1) = q
  BY PrefixOfAppend
<1>3. r \o q = Append(r \o p, b)
  <2>1. q = p \o <<b>> /\ r \o p \in Seq(Nat) /\ <<b>> \in Seq(Nat)
    BY AppendIsConcat, ConcatProperties
  <2>2. Append(r \o p, b) = (r \o p) \o <<b>>
    BY <2>1, AppendIsConcat
  <2> QED BY <2>1, <2>2, ConcatAssociative
<1> HIDE DEF q
<1>4. ASSUME NEW i \in 1 .. Len(q)
      PROVE  bl[q[i]].initial = r \o SubSeq(q, 1, i - 1) /\ bl[q[i]].root = r \o SubSeq(q, 1, i)
  <2>1. CASE i = Len(p) + 1
    <3>1. i - 1 = Len(p) /\ Len(p) \in 0 .. Len(p)
      BY <1>1, <2>1
    <3>2. SubSeq(q, 1, i - 1) = p /\ SubSeq(q, 1, i) = q /\ q[i] = b
      BY <1>1, <1>2, <2>1, <3>1
    <3> QED BY <1>3, <3>2, Zenon
  <2>2. CASE i \in 1 .. Len(p)
    <3>1. i - 1 \in 0 .. Len(p) /\ i \in 0 .. Len(p)
      BY <1>1, <2>2
    <3>2. SubSeq(q, 1, i - 1) = SubSeq(p, 1, i - 1) /\ SubSeq(q, 1, i) = SubSeq(p, 1, i) /\ q[i] = p[i]
      BY <1>1, <1>2, <2>2, <3>1, Zenon
    <3> QED BY <2>2, <3>2, Zenon DEF Executed
  <2>3. i = Len(p) + 1 \/ i \in 1 .. Len(p)
    BY <1>1
  <2> QED BY <2>1, <2>2, <2>3, Zenon
<1>5. Executed(bl, r, q)
  BY <1>4, Zenon DEF Executed
<1> QED BY <1>3, <1>5 DEF q

\* Storing the first of the pending blocks.
LEMMA ExecutedTail ==
  ASSUME NEW bl, NEW r \in Seq(Nat), NEW p \in Seq(Nat), NEW s \in Nat, Executed(bl, r, <<s>> \o p)
  PROVE  /\ bl[s].initial = r /\ bl[s].root = Append(r, s)
         /\ Executed(bl, Append(r, s), p) /\ r \o (<<s>> \o p) = Append(r, s) \o p
<1> DEFINE q == <<s>> \o p
           t == Append(r, s)
<1>1. /\ q \in Seq(Nat) /\ Len(q) = Len(p) + 1 /\ Len(p) \in Nat /\ q[1] = s
      /\ \A i \in 1 .. Len(p) : q[i + 1] = p[i]
      /\ \A k \in 0 .. Len(p) : SubSeq(q, 1, k + 1) = <<s>> \o SubSeq(p, 1, k)
  BY PrefixOfCons
<1>2. t = r \o <<s>> /\ <<s>> \in Seq(Nat) /\ t \in Seq(Nat)
  BY AppendIsConcat, AppendProperties
<1>3. ASSUME NEW u \in Seq(Nat)
      PROVE  r \o (<<s>> \o u) = t \o u
  <2>1. (r \o <<s>>) \o u = r \o (<<s>> \o u)
    BY <1>2, <1>3, ConcatAssociative
  <2> QED BY <1>2, <2>1
<1>4. r \o q = t \o p
  BY <1>3, Zenon
<1>5. Executed(bl, r, q)
  OBVIOUS
<1> HIDE DEF q, t
<1>6. SubSeq(q, 1, 0) = <<>> /\ SubSeq(p, 1, 0) = <<>>
  BY SubSeqEmpty
<1>7. SubSeq(q, 1, 1) = <<s>>
  <2>1. 0 \in 0 .. Len(p) /\ 0 + 1 = 1
    BY <1>1
  <2>2. SubSeq(q, 1, 0 + 1) = <<s>> \o SubSeq(p, 1, 0)
    BY <1>1, <2>1, Zenon
  <2>3. <<s>> \o <<>> = <<s>>
    BY <1>2, ConcatEmptySeq
  <2> QED BY <1>6, <2>1, <2>2, <2>3, Zenon
<1>8. bl[s].initial = r /\ bl[s].root = t
  <2>1. 1 \in 1 .. Len(q) /\ 1 - 1 = 0
    BY <1>1
  <2>2. bl[q[1]].initial = r \o SubSeq(q, 1, 1 - 1) /\ bl[q[1]].root = r \o SubSeq(q, 1, 1)
    BY <1>5, <2>1, Zenon DEF Executed
  <2>3. r \o <<>> = r
    BY ConcatEmptySeq
  <2> QED BY <1>1, <1>2, <1>6, <1>7, <2>1, <2>2, <2>3
<1>9. ASSUME NEW i \in 1 .. Len(p)
      PROVE  bl[p[i]].initial = t \o SubSeq(p, 1, i - 1) /\ bl[p[i]].root = t \o SubSeq(p, 1, i)
  <2>1. /\ i + 1 \in 1 .. Len(q) /\ (i + 1) - 1 = (i - 1) + 1 /\ i - 1 \in 0 .. Len(p) /\ i \in 0 .. Len(p)
        /\ i \in Int /\ i - 1 \in Int
    BY <1>1
  <2>2. bl[q[i + 1]].initial = r \o SubSeq(q, 1, (i + 1) - 1) /\ bl[q[i + 1]].root = r \o SubSeq(q, 1, i + 1)
    BY <1>5, <2>1, Zenon DEF Executed
  <2>3. SubSeq(q, 1, (i - 1) + 1) = <<s>> \o SubSeq(p, 1, i - 1) /\ SubSeq(q, 1, i + 1) = <<s>> \o SubSeq(p, 1, i)
    BY <1>1, <2>1, Zenon
  <2>4. SubSeq(p, 1, i - 1) \in Seq(Nat) /\ SubSeq(p, 1, i) \in Seq(Nat)
    <3>1. (\A j \in 1 .. i : p[j] \in Nat) /\ \A j \in 1 .. i - 1 : p[j] \in Nat
      <4>1. \A j \in 1 .. Len(p) : p[j] \in Nat
        BY ElementOfSeq
      <4>0. i \in Int /\ i <= Len(p) /\ Len(p) \in Int
        BY <1>1
      <4>2. 1 .. i \subseteq 1 .. Len(p) /\ 1 .. i - 1 \subseteq 1 .. Len(p)
        BY <4>0
      <4> QED BY <4>1, <4>2, Zenon
    <3> QED BY <2>1, <3>1, SubSeqProperties
  <2>5. q[i + 1] = p[i]
    BY <1>1
  <2> QED BY <1>3, <2>1, <2>2, <2>3, <2>4, <2>5, Zenon
<1>10. Executed(bl, t, p)
  BY <1>9, Zenon DEF Executed
<1> QED BY <1>4, <1>8, <1>10, Zenon DEF q, t

LEMMA ExecutedTails ==
  \A bl : \A r, p \in Seq(Nat) : \A s \in Nat : Executed(bl, r, <<s>> \o p) =>
    /\ bl[s].initial = r /\ bl[s].root = Append(r, s)
    /\ Executed(bl, Append(r, s), p) /\ r \o (<<s>> \o p) = Append(r, s) \o p
BY ExecutedTail, Zenon

LEMMA PendingIs ==
  ASSUME ShapeInv
  PROVE  /\ Pending \in Seq(Nat) /\ Len(Pending) \in Nat
         /\ \A i \in 1 .. Len(Pending) : InPending(Pending[i])
         /\ storePc # "flush" /\ toStore = <<>> /\ procPc # "send" => Pending = <<>>
<1> DEFINE a == IF storePc = "flush" THEN <<storeBlock>> ELSE <<>>
           c == IF procPc = "send" THEN <<procBlock>> ELSE <<>>
<1>1. storeBlock \in Nat /\ procBlock \in Nat /\ toStore \in Seq(Nat) /\ Len(toStore) \in Nat
  BY Lengths
<1>2. /\ a \in Seq(Nat) /\ Len(a) \in Nat /\ \A i \in 1 .. Len(a) : storePc = "flush" /\ a[i] = storeBlock
  BY <1>1
<1>3. /\ c \in Seq(Nat) /\ Len(c) \in Nat /\ \A i \in 1 .. Len(c) : procPc = "send" /\ c[i] = procBlock
  BY <1>1
<1>4. storePc # "flush" /\ toStore = <<>> /\ procPc # "send" => (a \o toStore) \o c = <<>>
  BY <1>1
<1>5. Pending = (a \o toStore) \o c
  BY DEF Pending
<1> HIDE DEF a, c
<1>6. /\ a \o toStore \in Seq(Nat) /\ Len(a \o toStore) = Len(a) + Len(toStore)
      /\ \A i \in 1 .. Len(a) + Len(toStore) :
           (a \o toStore)[i] = IF i <= Len(a) THEN a[i] ELSE toStore[i - Len(a)]
  BY <1>1, <1>2, ConcatProperties
<1> DEFINE ab == a \o toStore
<1> HIDE DEF ab
<1>7. ab \in Seq(Nat) /\ Len(ab) = Len(a) + Len(toStore)
  BY <1>6 DEF ab
<1>8. /\ ab \o c \in Seq(Nat) /\ Len(ab \o c) = Len(ab) + Len(c)
      /\ \A i \in 1 .. Len(ab) + Len(c) : (ab \o c)[i] = IF i <= Len(ab) THEN ab[i] ELSE c[i - Len(ab)]
  BY <1>3, <1>7, ConcatProperties, Zenon
<1>9. Pending = ab \o c
  BY <1>5 DEF ab
<1>10. ASSUME NEW i \in 1 .. Len(ab)
       PROVE  InPending(ab[i])
  <2>1. CASE i <= Len(a)
    <3>1. i \in 1 .. Len(a) /\ ab[i] = a[i]
      BY <1>1, <1>2, <1>6, <1>7, <2>1 DEF ab
    <3> QED BY <1>2, <3>1, Zenon DEF InPending
  <2>2. CASE ~(i <= Len(a))
    <3>1. i - Len(a) \in 1 .. Len(toStore) /\ ab[i] = toStore[i - Len(a)]
      BY <1>1, <1>2, <1>6, <1>7, <2>2 DEF ab
    <3> QED BY <3>1, Zenon DEF InPending
  <2> QED BY <2>1, <2>2
<1>11. ASSUME NEW i \in 1 .. Len(Pending)
       PROVE  InPending(Pending[i])
  <2>1. CASE i <= Len(ab)
    <3>1. i \in 1 .. Len(ab) /\ Pending[i] = ab[i]
      BY <1>1, <1>2, <1>3, <1>7, <1>8, <1>9, <2>1
    <3> QED BY <1>10, <3>1, Zenon
  <2>2. CASE ~(i <= Len(ab))
    <3>1. i - Len(ab) \in 1 .. Len(c) /\ Pending[i] = c[i - Len(ab)]
      BY <1>1, <1>2, <1>3, <1>7, <1>8, <1>9, <2>2
    <3> QED BY <1>3, <3>1, Zenon DEF InPending
  <2> QED BY <2>1, <2>2
<1>12. Pending \in Seq(Nat) /\ Len(Pending) \in Nat
  BY <1>8, <1>9, LenProperties
<1> QED BY <1>4, <1>5, <1>11, <1>12

LEMMA PendingMoves ==
  ASSUME ShapeInv, [Next]_vars
  PROVE  /\ ProcessL2Block => Pending' = Append(Pending, Head(toProcess))
         /\ StoreL2Block => Pending' \in Seq(Nat) /\ Pending = <<storeBlock>> \o Pending'
         /\ ~ProcessL2Block /\ ~StoreL2Block /\ ~StoreFails /\ ~Restart => Pending' = Pending
<1> DEFINE a == IF storePc = "flush" THEN <<storeBlock>> ELSE <<>>
           c == IF procPc = "send" THEN <<procBlock>> ELSE <<>>
<1>1. storeBlock \in Nat /\ procBlock \in Nat /\ toStore \in Seq(Nat) /\ <<storeBlock>> \in Seq(Nat) /\ <<procBlock>> \in Seq(Nat)
  BY Lengths
<1>2. a \in Seq(Nat) /\ c \in Seq(Nat)
  BY <1>1
<1>3. Pending = (a \o toStore) \o c
  BY DEF Pending
<1>4. a \o toStore \in Seq(Nat) /\ \A s \in Seq(Nat) : s \o <<>> = s /\ <<>> \o s = s
  BY <1>1, <1>2, ConcatProperties, ConcatEmptySeq
<1>5. CASE ProcessL2Block
  <2>1. /\ procPc = "idle" /\ procPc' = "send" /\ procBlock' = Head(toProcess)
        /\ UNCHANGED <<storePc, storeBlock, toStore>>
    BY <1>5, Zenon DEF ProcessL2Block, storeVars
  <2>2. Head(toProcess) \in Nat
    <3>1. toProcess \in Seq(Nat) /\ toProcess # <<>>
      BY <1>5, Lengths, Zenon DEF ProcessL2Block
    <3> QED BY <3>1, HeadTailProperties
  <2>3. c = <<>> /\ Pending' = (a \o toStore) \o <<Head(toProcess)>>
    BY <2>1 DEF Pending
  <2>4. Pending = a \o toStore
    BY <1>3, <1>4, <2>3, Zenon
  <2>5. Append(Pending, Head(toProcess)) = Pending \o <<Head(toProcess)>>
    BY <1>4, <2>2, <2>4, AppendIsConcat
  <2>6. Pending' = Append(Pending, Head(toProcess))
    BY <2>3, <2>4, <2>5, Zenon
  <2>7. ~StoreL2Block
    <3>1. StoreL2Block => storePc' = "done" /\ storePc = "flush"
      BY Zenon DEF StoreL2Block
    <3> QED BY <2>1, <3>1
  <2> QED BY <1>5, <2>6, <2>7, Zenon
<1>6. CASE StoreL2Block
  <2>1. storePc = "flush" /\ storePc' = "done" /\ UNCHANGED <<procPc, procBlock, toStore>>
    BY <1>6, Zenon DEF StoreL2Block, processVars
  <2>2. a = <<storeBlock>> /\ Pending' = (<<>> \o toStore) \o c
    BY <2>1 DEF Pending
  <2> HIDE DEF a, c
  <2>3. <<>> \o toStore = toStore
    BY <1>1, <1>4, Zenon
  <2>4. toStore \o c \in Seq(Nat) /\ (<<storeBlock>> \o toStore) \o c = <<storeBlock>> \o (toStore \o c)
    BY <1>1, <1>2, ConcatProperties, ConcatAssociative
  <2>5. Pending' \in Seq(Nat) /\ Pending = <<storeBlock>> \o Pending'
    BY <1>3, <2>2, <2>3, <2>4, Zenon
  <2>6. ~ProcessL2Block
    <3>1. ProcessL2Block => procPc' = "send" /\ procPc = "idle"
      BY Zenon DEF ProcessL2Block
    <3> QED BY <2>1, <3>1
  <2> QED BY <1>6, <2>5, <2>6, Zenon
<1>7. CASE UNCHANGED <<storePc, storeBlock, toStore, procPc, procBlock>>
  <2>1. Pending' = Pending
    BY <1>7, Zenon DEF Pending
  <2>2. ~ProcessL2Block /\ ~StoreL2Block
    <3>1. ProcessL2Block => procPc' = "send" /\ procPc = "idle"
      BY Zenon DEF ProcessL2Block
    <3>2. StoreL2Block => storePc' = "done" /\ storePc = "flush"
      BY Zenon DEF StoreL2Block
    <3> QED BY <1>7, <3>1, <3>2
  <2> QED BY <2>1, <2>2, Zenon
<1>8. CASE AddPendingL2BlockToStore /\ ~ProcessL2Block /\ ~StoreL2Block
  <2>1. /\ procPc = "send" /\ procPc' = "done" /\ toStore' = Append(toStore, procBlock)
        /\ UNCHANGED <<storePc, storeBlock, procBlock>>
    BY <1>8, Zenon DEF AddPendingL2BlockToStore
  <2>2. c = <<procBlock>> /\ Pending' = (a \o Append(toStore, procBlock)) \o <<>>
    BY <2>1 DEF Pending
  <2>3. Append(toStore, procBlock) = toStore \o <<procBlock>>
    BY <1>1, AppendIsConcat
  <2> HIDE DEF a, c
  <2>4. a \o (toStore \o <<procBlock>>) = (a \o toStore) \o <<procBlock>>
    BY <1>1, <1>2, ConcatAssociative
  <2>5. (a \o toStore) \o <<procBlock>> \in Seq(Nat)
    BY <1>1, <1>4, ConcatProperties
  <2>6. Pending' = Pending
    BY <1>3, <1>4, <2>2, <2>3, <2>4, <2>5, Zenon
  <2> QED BY <1>8, <2>6, Zenon
<1>9. CASE ProcessDone /\ ~ProcessL2Block /\ ~StoreL2Block
  <2>1. procPc = "done" /\ procPc' = "idle" /\ UNCHANGED <<storePc, storeBlock, toStore>>
    BY <1>9, Zenon DEF ProcessDone, storeVars
  <2>2. Pending' = Pending
    BY <2>1 DEF Pending
  <2> QED BY <1>9, <2>2, Zenon
<1>10. CASE StoreDone /\ ~ProcessL2Block /\ ~StoreL2Block
  <2>1. storePc = "done" /\ storePc' = "idle" /\ UNCHANGED <<procPc, procBlock, toStore>>
    BY <1>10, Zenon DEF StoreDone, processVars
  <2>2. Pending' = Pending
    BY <2>1 DEF Pending
  <2> QED BY <1>10, <2>2, Zenon
<1>11. CASE TakeL2BlockToStore /\ ~ProcessL2Block /\ ~StoreL2Block
  <2>1. /\ storePc = "idle" /\ storePc' = "flush" /\ toStore # <<>>
        /\ storeBlock' = Head(toStore) /\ toStore' = Tail(toStore)
        /\ UNCHANGED <<procPc, procBlock>>
    BY <1>11, Zenon DEF TakeL2BlockToStore, processVars
  <2>2. a = <<>> /\ Pending' = (<<Head(toStore)>> \o Tail(toStore)) \o c
    BY <2>1 DEF Pending
  <2>3. <<Head(toStore)>> \o Tail(toStore) = toStore
    <3> DEFINE h == Head(toStore)
               t == Tail(toStore)
    <3>1. /\ h \in Nat /\ t \in Seq(Nat) /\ Len(t) = Len(toStore) - 1 /\ Len(toStore) \in Nat \ {0} /\ toStore[1] = h
          /\ \A i \in 1 .. Len(t) : t[i] = toStore[i + 1]
      BY <1>1, <2>1, HeadTailProperties, EmptySeq
    <3> HIDE DEF h, t
    <3>2. /\ <<h>> \o t \in Seq(Nat) /\ Len(<<h>> \o t) = Len(t) + 1
          /\ (<<h>> \o t)[1] = h /\ \A i \in 1 .. Len(t) : (<<h>> \o t)[i + 1] = t[i]
      BY <3>1, PrefixOfCons
    <3>3. ASSUME NEW i \in 1 .. Len(toStore)
          PROVE  toStore[i] = (<<h>> \o t)[i]
      <4>1. CASE i = 1
        BY <3>1, <3>2, <4>1
      <4>2. CASE i # 1
        <5>1. i - 1 \in 1 .. Len(t) /\ (i - 1) + 1 = i
          BY <3>1, <4>2
        <5>2. t[i - 1] = toStore[(i - 1) + 1] /\ (<<h>> \o t)[(i - 1) + 1] = t[i - 1]
          BY <3>1, <3>2, <5>1, Zenon
        <5> QED BY <5>1, <5>2
      <4> QED BY <4>1, <4>2, Zenon
    <3>4. Len(toStore) = Len(<<h>> \o t)
      BY <3>1, <3>2
    <3>5. toStore = <<h>> \o t
      BY <1>1, <3>2, <3>3, <3>4, SeqEqual
    <3> QED BY <3>5 DEF h, t
  <2> HIDE DEF a, c
  <2>4. Pending' = Pending
    BY <1>1, <1>3, <1>4, <2>2, <2>3, Zenon
  <2> QED BY <1>11, <2>4, Zenon
<1> HIDE DEF a, c
<1>12. CASE (StoreFails \/ Restart) /\ ~ProcessL2Block /\ ~StoreL2Block
  BY <1>12, Zenon
<1> QED BY <1>5, <1>6, <1>7, <1>8, <1>9, <1>10, <1>11, <1>12, PendingChange, Zenon
  DEF ProcessPendingL2Blocks, StorePendingL2Blocks

LEMMA ChainedStays ==
  ASSUME ShapeInv, OrderInv, ClosedOnce, [Next]_vars, NEW n \in 1 .. Len(batches), Chained(blocks, batches, n),
         batches'[n].root = batches[n].root, batches'[n].blocks = batches[n].blocks,
         batches'[n - 1].root = batches[n - 1].root
  PROVE  Chained(blocks', batches', n)
<1>1. ASSUME NEW i \in 1 .. Len(batches[n].blocks)
      PROVE  blocks'[batches[n].blocks[i]].initial = blocks[batches[n].blocks[i]].initial
  <2>1. Taken(batches[n].blocks[i])
    BY Zenon DEF OrderInv
  <2> QED BY <2>1, StoredStays, Zenon
<1> QED BY <1>1, Zenon DEF Chained

LEMMA ExecutedStays ==
  ASSUME ShapeInv, OrderInv, ClosedOnce, [Next]_vars, NEW r, Executed(blocks, r, Pending)
  PROVE  Executed(blocks', r, Pending)
<1>1. ASSUME NEW i \in 1 .. Len(Pending)
      PROVE  /\ blocks'[Pending[i]].initial = blocks[Pending[i]].initial
             /\ blocks'[Pending[i]].root = blocks[Pending[i]].root
  <2>1. InPending(Pending[i])
    BY PendingIs, Zenon
  <2>2. Pending[i] \in BlockIds
    BY <2>1, PendingIsBlock, Zenon
  <2>3. Taken(Pending[i])
    BY <2>1, <2>2, Zenon DEF OrderInv
  <2> QED BY <2>3, StoredStays, Zenon
<1> QED BY <1>1, Zenon DEF Executed

LEMMA EmptyChained ==
  ASSUME NEW bl, NEW bs, NEW n, NEW r \in Seq(Nat), bs[n].root = r, bs[n - 1].root = r, bs[n].blocks = <<>>
  PROVE  Chained(bl, bs, n)
<1>1. r \o <<>> = r /\ Len(<<>>) = 0 /\ 1 .. 0 = {}
  BY ConcatEmptySeq
<1>2. bs[n].root = bs[n - 1].root \o bs[n].blocks
  BY <1>1, Zenon
<1>3. 1 .. Len(bs[n].blocks) = {}
  BY <1>1, Zenon
<1>4. ASSUME NEW i \in 1 .. Len(bs[n].blocks) PROVE FALSE
  BY <1>3, <1>4, Zenon
<1> QED BY <1>2, <1>4, Zenon DEF Chained

\* A batch is opened with the root of the one before it.
LEMMA NewRowChained ==
  ASSUME ShapeInv, OrderInv, ClosedOnce, [Next]_vars, \A n \in 2 .. Len(batches) : Chained(blocks, batches, n),
         batches' = Append(batches, StateBatch(batches[Len(batches)].root))
  PROVE  /\ \A n \in 2 .. Len(batches') : Chained(blocks', batches', n)
         /\ batches'[Len(batches) + 1].root = batches[Len(batches)].root
<1> DEFINE root == batches[Len(batches)].root
<1>1. Len(batches) \in Nat /\ Len(batches) >= 2 /\ batches[Len(batches)] \in Batch /\ RowInv
  <2>1. Len(batches) \in Nat /\ Len(batches) >= 2 /\ RowInv
    BY Lengths DEF ShapeInv, DataInv, RowInv
  <2>2. Len(batches) \in 1 .. Len(batches)
    BY <2>1
  <2> QED BY <2>1, <2>2, Lengths, Zenon
<1>2. root \in Seq(Nat)
  BY <1>1 DEF Batch
<1>3. /\ Len(batches') = Len(batches) + 1 /\ batches'[Len(batches) + 1].root = root
      /\ batches'[Len(batches) + 1].blocks = <<>>
      /\ \A n \in 1 .. Len(batches) : batches'[n] = batches[n]
  BY <1>1, <1>2, NewRow, Zenon
<1>4. ASSUME NEW n \in 2 .. Len(batches)
      PROVE  Chained(blocks', batches', n)
  <2>1. n \in 1 .. Len(batches) /\ n - 1 \in 1 .. Len(batches)
    BY <1>1
  <2> QED BY <1>3, <1>4, <2>1, ChainedStays, Zenon
<1>5. Chained(blocks', batches', Len(batches) + 1)
  <2>1. (Len(batches) + 1) - 1 = Len(batches) /\ Len(batches) \in 1 .. Len(batches) /\ Len(<<>>) = 0 /\ 1 .. 0 = {}
    BY <1>1
  <2>2. root \o <<>> = root
    BY <1>2, ConcatEmptySeq
  <2>3. batches'[(Len(batches) + 1) - 1].root = root
    BY <1>3, <2>1, Zenon
  <2> HIDE DEF root
  <2> DEFINE m == Len(batches) + 1
             bs == batches'
  <2>4. bs[m].root = root /\ bs[m - 1].root = root /\ bs[m].blocks = <<>>
    BY <1>3, <2>3, Zenon
  <2> HIDE DEF m, bs
  <2>5. Chained(blocks', bs, m)
    BY <1>2, <2>4, EmptyChained, Zenon
  <2> QED BY <2>5, Zenon DEF m, bs
<1>6. \A n \in 2 .. Len(batches') : n \in 2 .. Len(batches) \/ n = Len(batches) + 1
  BY <1>1, <1>3
<1> QED BY <1>3, <1>4, <1>5, <1>6, Zenon

\* A step that moves neither rows nor the root of the WIP batch nor a pending block.
LEMMA ChainKept ==
  ASSUME ShapeInv, OrderInv, ClosedOnce, [Next]_vars,
         \A n \in 2 .. Len(batches) : Chained(blocks, batches, n),
         pc # "down" => /\ wipBatch.final = batches[wipBatch.num].root \o Pending
                        /\ Executed(blocks, batches[wipBatch.num].root, Pending),
         Len(batches') = Len(batches),
         \A n \in 1 .. Len(batches) : batches'[n].root = batches[n].root /\ batches'[n].blocks = batches[n].blocks,
         pc' # "down" => /\ pc # "down" /\ Pending' = Pending
                         /\ wipBatch'.num = wipBatch.num /\ wipBatch'.final = wipBatch.final
  PROVE  ChainInv'
<1>1. Len(batches) \in Nat
  BY Lengths, Zenon
<1>2. ASSUME NEW n \in 2 .. Len(batches)
      PROVE  Chained(blocks', batches', n)
  <2>1. n \in 1 .. Len(batches) /\ n - 1 \in 1 .. Len(batches)
    BY <1>1
  <2> QED BY <1>2, <2>1, ChainedStays, Zenon
<1>3. ASSUME pc' # "down"
      PROVE  /\ wipBatch'.final = batches'[wipBatch'.num].root \o Pending'
             /\ Executed(blocks', batches'[wipBatch'.num].root, Pending')
  <2>1. wipBatch.num \in 1 .. Len(batches)
    <3>1. wipBatch.num = Len(batches) /\ Len(batches) >= 2
      BY <1>3 DEF ShapeInv, DataInv, OpenInv, RowInv
    <3> QED BY <1>1, <3>1
  <2>2. Executed(blocks', batches[wipBatch.num].root, Pending)
    BY <1>3, ExecutedStays, Zenon
  <2> QED BY <1>3, <2>1, <2>2, Zenon
<1> QED BY <1>2, <1>3, Zenon DEF ChainInv

LEMMA ProcessKeepsChain ==
  ASSUME ShapeInv, OrderInv, ClosedOnce, [Next]_vars,
         \A n \in 2 .. Len(batches) : Chained(blocks, batches, n),
         wipBatch.final = batches[wipBatch.num].root \o Pending,
         Executed(blocks, batches[wipBatch.num].root, Pending),
         ProcessL2Block
  PROVE  ChainInv'
<1> DEFINE r == batches[wipBatch.num].root
           b == Head(toProcess)
<1>1. Len(batches) \in Nat /\ batches' = batches /\ Pending \in Seq(Nat) /\ DataInv /\ deployment' = deployment
  BY Lengths, PendingIs, Zenon DEF ProcessL2Block, ShapeInv, Next, vars
<1>2. /\ b \in BlockIds /\ wipBatch.num = Len(batches)
      /\ wipBatch'.num = wipBatch.num /\ wipBatch'.final = Append(wipBatch.final, b)
      /\ blocks'[b].initial = wipBatch.final /\ blocks'[b].root = Append(wipBatch.final, b)
  BY <1>1, ProcessL2BlockData, Zenon
<1>3. r \in Seq(Nat) /\ b \in Nat
  <2>1. wipBatch.num \in 1 .. Len(batches)
    <3>1. Len(batches) >= 2
      BY <1>1, Zenon DEF DataInv, RowInv
    <3>2. Len(batches) \in 1 .. Len(batches)
      BY <1>1, <3>1
    <3> QED BY <1>2, <3>2, Zenon
  <2>2. batches[wipBatch.num] \in Batch
    BY <2>1, Lengths, Zenon
  <2>3. batches[wipBatch.num].root \in Seq(Nat)
    BY <2>2 DEF Batch
  <2> QED BY <1>2, <2>3, Lengths, Zenon
<1>4. Executed(blocks', r, Pending)
  BY ExecutedStays, Zenon
<1>5. Pending' = Append(Pending, b)
  BY PendingMoves, Zenon
<1> HIDE DEF r, b
<1>6. blocks'[b].initial = r \o Pending /\ blocks'[b].root = Append(r \o Pending, b)
  BY <1>2, Zenon DEF r
<1>7. Executed(blocks', r, Append(Pending, b)) /\ r \o Append(Pending, b) = Append(r \o Pending, b)
  BY <1>1, <1>3, <1>4, <1>6, ExecutedAppend, Zenon
<1>8. ASSUME NEW n \in 2 .. Len(batches)
      PROVE  Chained(blocks', batches', n)
  <2>1. n \in 1 .. Len(batches)
    BY <1>1
  <2> QED BY <1>1, <1>8, <2>1, ChainedStays, Zenon
<1>9. /\ wipBatch'.final = batches'[wipBatch'.num].root \o Pending'
      /\ Executed(blocks', batches'[wipBatch'.num].root, Pending')
  BY <1>1, <1>2, <1>5, <1>7, Zenon DEF r
<1> QED BY <1>1, <1>8, <1>9, Zenon DEF ChainInv

LEMMA StoreKeepsChain ==
  ASSUME ShapeInv, OrderInv, ClosedOnce, [Next]_vars,
         \A n \in 2 .. Len(batches) : Chained(blocks, batches, n),
         wipBatch.final = batches[wipBatch.num].root \o Pending,
         Executed(blocks, batches[wipBatch.num].root, Pending),
         StoreL2Block
  PROVE  ChainInv'
<1> DEFINE m == wipBatch.num
           r == batches[m].root
           p == batches[m - 1].root
           s == storeBlock
           q == batches[m].blocks
<1>1. DataInv /\ deployment' = deployment /\ blocks' = blocks /\ wipBatch' = wipBatch /\ pc # "down" /\ pc # "openBatch"
  BY StoringIsOpen, Zenon DEF StoreL2Block, ShapeInv, Next, vars
<1>2. /\ Len(batches') = Len(batches)
      /\ \A n \in 1 .. Len(batches) : n # m => batches'[n] = batches[n]
      /\ batches'[m].blocks = Append(q, s)
      /\ batches'[m].root = blocks[s].root
  BY <1>1, StoreL2BlockData, Zenon
<1>3. m = Len(batches) /\ m \in 2 .. Len(batches) /\ Len(batches) \in Nat /\ m - 1 \in 1 .. Len(batches) /\ m \in 1 .. Len(batches)
  <2>1. wipBatch.num = Len(batches) /\ Len(batches) >= 2 /\ Len(batches) \in Nat
    BY <1>1, Lengths DEF DataInv, OpenInv, RowInv
  <2> QED BY <2>1
<1>4. r \in Seq(Nat) /\ p \in Seq(Nat) /\ q \in Seq(Nat) /\ s \in Nat
  <2>1. batches[m] \in Batch /\ batches[m - 1] \in Batch
    BY <1>3, Lengths, Zenon
  <2> QED BY <2>1, Lengths, Zenon DEF Batch
<1>5. Pending' \in Seq(Nat) /\ Pending = <<s>> \o Pending'
  BY PendingMoves, Zenon
<1>6. r = p \o q /\ \A i \in 1 .. Len(q) : blocks[q[i]].initial = p \o SubSeq(q, 1, i - 1)
  BY <1>3, Zenon DEF Chained
<1>7. wipBatch.final = r \o Pending /\ Executed(blocks, r, Pending)
  OBVIOUS
<1> HIDE DEF m, r, p, s, q
<1>8. /\ blocks[s].initial = r /\ blocks[s].root = Append(r, s)
      /\ Executed(blocks, Append(r, s), Pending') /\ r \o Pending = Append(r, s) \o Pending'
  <2> DEFINE z == Pending'
  <2>1. z \in Seq(Nat) /\ Executed(blocks, r, <<s>> \o z)
    BY <1>5, <1>7, Zenon
  <2> HIDE DEF z
  <2>2. /\ blocks[s].initial = r /\ blocks[s].root = Append(r, s)
        /\ Executed(blocks, Append(r, s), z) /\ r \o (<<s>> \o z) = Append(r, s) \o z
    <3> DEFINE Tails(bl, a, u, x) ==
          /\ bl[x].initial = a /\ bl[x].root = Append(a, x)
          /\ Executed(bl, Append(a, x), u) /\ a \o (<<x>> \o u) = Append(a, x) \o u
    <3>1. \A bl : \A a, u \in Seq(Nat) : \A x \in Nat : Executed(bl, a, <<x>> \o u) => Tails(bl, a, u, x)
      BY ExecutedTails, Zenon
    <3> HIDE DEF Tails
    <3>2. \A a, u \in Seq(Nat) : \A x \in Nat : Executed(blocks, a, <<x>> \o u) => Tails(blocks, a, u, x)
      BY <3>1, Zenon
    <3>3. Tails(blocks, r, z, s)
      BY <1>4, <2>1, <3>2, Zenon
    <3> QED BY <3>3, Zenon DEF Tails
  <2> QED BY <1>5, <2>2, Zenon DEF z
<1>9. Chained(blocks', batches', m)
  <2> DEFINE q2 == Append(q, s)
  <2>1. /\ Len(q2) = Len(q) + 1 /\ Len(q) \in Nat /\ q2[Len(q) + 1] = s /\ \A i \in 1 .. Len(q) : q2[i] = q[i]
    BY <1>4, AppendProperties, LenProperties
  <2>2. (\A k \in 0 .. Len(q) : SubSeq(q2, 1, k) = SubSeq(q, 1, k)) /\ SubSeq(q, 1, Len(q)) = q
    BY <1>4, PrefixOfAppend
  <2>3. p \o q2 = Append(r, s)
    <3>1. q2 = q \o <<s>> /\ Append(r, s) = r \o <<s>> /\ <<s>> \in Seq(Nat)
      BY <1>4, AppendIsConcat
    <3>2. (p \o q) \o <<s>> = p \o (q \o <<s>>)
      BY <1>4, <3>1, ConcatAssociative
    <3> QED BY <1>6, <3>1, <3>2, Zenon
  <2> HIDE DEF q2
  <2>4. ASSUME NEW i \in 1 .. Len(q2)
        PROVE  blocks[q2[i]].initial = p \o SubSeq(q2, 1, i - 1)
    <3>1. CASE i = Len(q) + 1
      <4>1. i - 1 = Len(q) /\ Len(q) \in 0 .. Len(q)
        BY <2>1, <3>1
      <4>2. SubSeq(q2, 1, Len(q)) = q /\ q2[i] = s
        BY <2>1, <2>2, <3>1, <4>1, Zenon
      <4>3. p \o q = blocks[s].initial
        BY <1>6, <1>8, Zenon
      <4> QED BY <4>1, <4>2, <4>3, Zenon
    <3>2. CASE i \in 1 .. Len(q)
      <4>1. i - 1 \in 0 .. Len(q)
        BY <2>1, <3>2
      <4> QED BY <1>6, <2>1, <2>2, <3>2, <4>1, Zenon
    <3>3. i = Len(q) + 1 \/ i \in 1 .. Len(q)
      BY <2>1
    <3> QED BY <3>1, <3>2, <3>3, Zenon
  <2>5. batches'[m].blocks = q2 /\ batches'[m].root = p \o q2
    BY <1>2, <1>8, <2>3, Zenon DEF q2
  <2>6. batches'[m - 1].root = p
    <3>1. m - 1 # m
      BY <1>3
    <3> QED BY <1>2, <1>3, <3>1, Zenon DEF p
  <2> QED BY <1>1, <2>4, <2>5, <2>6, Zenon DEF Chained
<1>10. ASSUME NEW n \in 2 .. Len(batches), n # m
       PROVE  Chained(blocks', batches', n)
  <2>1. n \in 1 .. Len(batches) /\ n - 1 \in 1 .. Len(batches) /\ n - 1 # m
    BY <1>3, <1>10
  <2> QED BY <1>2, <1>10, <2>1, ChainedStays, Zenon
<1>11. \A n \in 2 .. Len(batches') : Chained(blocks', batches', n)
  BY <1>2, <1>9, <1>10, Zenon
<1>12. /\ wipBatch'.final = batches'[wipBatch'.num].root \o Pending'
       /\ Executed(blocks', batches'[wipBatch'.num].root, Pending')
  <2>1. batches'[m].root = Append(r, s) /\ wipBatch'.num = m /\ wipBatch'.final = wipBatch.final
    BY <1>1, <1>2, <1>8, Zenon DEF m
  <2> QED BY <1>1, <1>7, <1>8, <2>1, Zenon
<1> QED BY <1>11, <1>12, Zenon DEF ChainInv

LEMMA UnstoredStays ==
  ASSUME [Next]_vars
  PROVE  unstored' = unstored \/ (StoreFails /\ unstored' # {})
<1>1. CASE UNCHANGED vars
  BY <1>1, Zenon DEF vars, nodeVars, storeVars
<1>2. CASE LoopMove
  BY <1>2, LoopMoveIs, Zenon DEF storeVars
<1>3. CASE FinalizeBatches /\ ~LoopMove
  BY <1>3, Zenon DEF FinalizeBatches, LoopMove, ProcessTransaction, CloseWIPL2Block, OpenNewWIPL2Block,
     OpenAfterBatch, CloseWIPBatch, OpenNewWIPBatch, storeVars
<1>4. CASE StoreFails
  BY <1>4, Zenon DEF StoreFails
<1>5. CASE \/ ProcessPendingL2Blocks \/ TakeL2BlockToStore \/ StoreL2Block \/ StoreDone \/ UpdateProverIdAndFlushId
           \/ ParallelCheck \/ ExecutorStores \/ Restart
  BY <1>5, Zenon DEF ProcessPendingL2Blocks, UpdateProverIdAndFlushId, ParallelCheck, ExecutorStores, ProcessL2Block,
     AddPendingL2BlockToStore, ProcessDone, TakeL2BlockToStore, StoreL2Block, StoreDone, FlushIDCheck, FlushIDWait,
     FlushIDPoll, Restart, storeVars
<1> QED BY <1>1, <1>2, <1>3, <1>4, <1>5, Zenon DEF Next, StorePendingL2Blocks

\* A new WIP batch starts from the root of the last batch, with nothing pending.
LEMMA ChainStarts ==
  ASSUME ShapeInv, NEW n \in 1 .. Len(batches), wipBatch.final = batches[n].root, wipBatch.num = n,
         storePc # "flush", toStore = <<>>, procPc # "send"
  PROVE  /\ wipBatch.final = batches[wipBatch.num].root \o Pending
         /\ Executed(blocks, batches[wipBatch.num].root, Pending)
<1>1. Pending = <<>>
  BY PendingIs, Zenon
<1>2. wipBatch.final \in Seq(Nat)
  BY Lengths, Zenon
<1>3. wipBatch.final \o <<>> = wipBatch.final /\ Len(<<>>) = 0 /\ 1 .. 0 = {}
  BY <1>2, ConcatEmptySeq
<1>4. 1 .. Len(Pending) = {}
  BY <1>1, <1>3, Zenon
<1>5. Executed(blocks, batches[wipBatch.num].root, Pending)
  BY <1>4, Zenon DEF Executed
<1> QED BY <1>1, <1>3, <1>5, Zenon

\* The WIP batch has just been opened, or found in the database.
JustStarted ==
  /\ wipBatch.final = batches[Len(batches)].root /\ wipBatch.num = Len(batches)
  /\ storePc # "flush" /\ toStore = <<>> /\ procPc # "send"

FollowsRow ==
  /\ wipBatch.final = batches[wipBatch.num].root \o Pending
  /\ Executed(blocks, batches[wipBatch.num].root, Pending)

LEMMA StartFollows == ShapeInv /\ JustStarted => FollowsRow
<1> SUFFICES ASSUME ShapeInv, JustStarted PROVE FollowsRow
  OBVIOUS
<1>1. Len(batches) \in Nat /\ Len(batches) >= 2
  BY Lengths DEF ShapeInv, DataInv, RowInv
<1>2. Len(batches) \in 1 .. Len(batches)
  BY <1>1
<1> QED BY <1>2, ChainStarts, Zenon DEF JustStarted, FollowsRow

LEMMA StartKeepsChain ==
  ASSUME ShapeInv', \A n \in 2 .. Len(batches') : Chained(blocks', batches', n),
         pc' # "down" => JustStarted'
  PROVE  ChainInv'
<1>1. (ShapeInv /\ JustStarted => FollowsRow)'
  BY StartFollows, PTL
<1> QED BY <1>1, Zenon DEF ChainInv, FollowsRow

LEMMA ChainPreserved ==
  ShapeInv /\ OrderInv /\ ChainInv /\ [Next]_vars => ChainInv'
<1> SUFFICES ASSUME ShapeInv, OrderInv, ChainInv, [Next]_vars, unstored' = {}, ClosedOnce'
             PROVE  ChainInv'
  BY Zenon DEF ChainInv
<1>1. ClosedOnce /\ unstored = {} /\ ~StoreFails
  <2>1. ClosedOnce
    BY QueueStep, Zenon DEF OrderInv
  <2>2. StoreFails => unstored' # {}
    BY Zenon DEF StoreFails
  <2> QED BY <2>1, <2>2, UnstoredStays, Zenon
<1>2. /\ \A n \in 2 .. Len(batches) : Chained(blocks, batches, n)
      /\ pc # "down" => /\ wipBatch.final = batches[wipBatch.num].root \o Pending
                        /\ Executed(blocks, batches[wipBatch.num].root, Pending)
  BY <1>1, Zenon DEF ChainInv
<1>3. DataInv /\ StackInv /\ deployment' = deployment
  BY Zenon DEF ShapeInv, Next, vars
<1>4. ASSUME UNCHANGED batches, pc' # "down" => pc # "down",
             ~ProcessL2Block, ~StoreL2Block, ~Restart, wipBatch'.num = wipBatch.num, wipBatch'.final = wipBatch.final
      PROVE  ChainInv'
  <2>1. Pending' = Pending
    BY <1>1, <1>4, PendingMoves, Zenon
  <2> QED BY <1>1, <1>2, <1>4, <2>1, ChainKept, Zenon
<1>5. CASE ProcessL2Block
  <2>1. pc # "down"
    BY <1>5, Zenon DEF ProcessL2Block
  <2> QED BY <1>1, <1>2, <1>5, <2>1, ProcessKeepsChain, Zenon
<1>6. CASE StoreL2Block
  <2>1. pc # "down"
    BY <1>6, Zenon DEF StoreL2Block
  <2> QED BY <1>1, <1>2, <1>6, <2>1, StoreKeepsChain, Zenon
<1>7. ShapeInv'
  BY StackPreserved, CountPreserved, DataPreserved, Zenon DEF ShapeInv
<1>8. CASE OpenNewWIPBatch
  <2>1. pc = "openBatch" /\ pc # "down" /\ UNCHANGED <<procPc, storePc, toStore>>
    BY <1>8 DEF OpenNewWIPBatch, processVars, storeVars
  <2>2. toStore = <<>> /\ procPc # "send" /\ storePc # "flush"
    <3>1. toStore = <<>> /\ procPc = "idle" /\ storePc = "idle"
      BY <2>1, QuietIsEmpty, Zenon
    <3> QED BY <3>1
  <2>3. wipBatch.final = batches[wipBatch.num].root
    <3>1. Pending = <<>>
      BY <2>2, PendingIs, Zenon
    <3>2. batches[wipBatch.num].root \in Seq(Nat)
      <4>1. wipBatch.num = Len(batches) /\ Len(batches) >= 2 /\ Len(batches) \in Nat
        BY <1>3, <2>1, Lengths DEF DataInv, OpenInv, RowInv
      <4>2. wipBatch.num \in 1 .. Len(batches)
        BY <4>1
      <4>3. batches[wipBatch.num] \in Batch
        BY <4>2, Lengths, Zenon
      <4> QED BY <4>3 DEF Batch
    <3>3. batches[wipBatch.num].root \o <<>> = batches[wipBatch.num].root
      BY <3>2, ConcatEmptySeq
    <3> QED BY <1>2, <2>1, <3>1, <3>3, Zenon
  <2>4. CASE /\ batches' = Append(batches, StateBatch(wipBatch.final)) /\ wipBatch.num = Len(batches)
             /\ pc' = "down" \/ (Return /\ wipBatch'.num = Len(batches) + 1 /\ wipBatch'.final = wipBatch.final)
    <3>1. batches' = Append(batches, StateBatch(batches[Len(batches)].root))
      BY <2>3, <2>4, Zenon
    <3>2. /\ \A n \in 2 .. Len(batches') : Chained(blocks', batches', n)
          /\ batches'[Len(batches) + 1].root = batches[Len(batches)].root
      BY <1>1, <1>2, <3>1, NewRowChained, Zenon
    <3>3. Len(batches') = Len(batches) + 1
      <4>1. wipBatch.final \in Seq(Nat) /\ RowInv
        BY <1>3, Zenon DEF DataInv, IsWIPBatch
      <4> QED BY <2>4, <4>1, NewRow, Zenon
    <3>4. pc' # "down" => JustStarted'
      BY <2>1, <2>2, <2>3, <2>4, <3>2, <3>3, Zenon DEF JustStarted
    <3> QED BY <1>7, <3>2, <3>4, StartKeepsChain, Zenon
  <2>5. CASE batches' = batches /\ pc' = "down"
    <3>1. Len(batches') = Len(batches)
      BY <2>5, Zenon
    <3> QED BY <1>1, <1>2, <2>5, <3>1, ChainKept, Zenon
  <2> QED BY <1>3, <1>8, <2>4, <2>5, OpenNewWIPBatchData, Zenon
<1>9. CASE Restart
  <2>1. Len(batches) \in Nat /\ Len(batches) + 1 \in Nat /\ Len(batches) \in 1 .. Len(batches) /\ RowInv
    BY <1>3, Lengths DEF DataInv, RowInv
  <2>2. batches[Len(batches)].root \in Seq(Nat)
    <3>1. batches[Len(batches)] \in Batch
      BY <2>1, Lengths, Zenon
    <3> QED BY <3>1 DEF Batch
  <2>3. blocks' = blocks
    BY <1>9, Zenon DEF Restart
  <2>4. ASSUME NEW bs, NEW w, Start(bs, w)
        PROVE  batches' = bs /\ wipBatch' = w /\ storePc' # "flush" /\ toStore' = <<>> /\ procPc' # "send"
    <3>1. batches' = bs /\ wipBatch' = w /\ storePc' = "idle" /\ toStore' = <<>> /\ procPc' = "idle"
      BY <2>4, Zenon DEF Start
    <3> QED BY <3>1
  <2>5. CASE Start(Append(batches, StateBatch(Last(batches).root)), NewWIPBatch(Len(batches) + 1, Last(batches).root))
    <3>1. /\ batches' = Append(batches, StateBatch(batches[Len(batches)].root))
          /\ wipBatch' = NewWIPBatch(Len(batches) + 1, batches[Len(batches)].root)
          /\ storePc' # "flush" /\ toStore' = <<>> /\ procPc' # "send"
      BY <2>4, <2>5, Zenon DEF Last
    <3>2. /\ \A n \in 2 .. Len(batches') : Chained(blocks', batches', n)
          /\ batches'[Len(batches) + 1].root = batches[Len(batches)].root
      BY <1>1, <1>2, <3>1, NewRowChained, Zenon
    <3>3. Len(batches') = Len(batches) + 1
      BY <2>1, <2>2, <3>1, NewRow, Zenon
    <3>4. wipBatch'.num = Len(batches) + 1 /\ wipBatch'.final = batches[Len(batches)].root
      BY <1>3, <2>1, <2>2, <3>1, NewWIP, Zenon
    <3>5. JustStarted'
      BY <3>1, <3>2, <3>3, <3>4, Zenon DEF JustStarted
    <3> QED BY <1>7, <3>2, <3>5, StartKeepsChain, Zenon
  <2>6. CASE Last(batches).res <= MaxRes /\ Start(batches, SetWIPBatch(Len(batches)))
    <3>1. /\ batches' = batches /\ wipBatch' = SetWIPBatch(Len(batches))
          /\ storePc' # "flush" /\ toStore' = <<>> /\ procPc' # "send"
      BY <2>4, <2>6, Zenon
    <3>2. wipBatch'.num = Len(batches) /\ wipBatch'.final = batches[Len(batches)].root
      BY <1>3, <2>6, <3>1, OldWIP, Zenon DEF Last
    <3>3. JustStarted'
      BY <3>1, <3>2, Zenon DEF JustStarted
    <3> QED BY <1>2, <1>7, <2>3, <3>1, <3>3, StartKeepsChain, Zenon
  <2>7. CASE UNCHANGED batches /\ pc' = "down"
    BY <1>1, <1>2, <2>7, ChainKept, Zenon
  <2> QED BY <1>9, <2>5, <2>6, <2>7, Zenon DEF Restart
<1>10. CASE CloseWIPBatch
  <2>1. /\ Len(batches') = Len(batches)
        /\ \A n \in 1 .. Len(batches) : batches'[n].root = batches[n].root /\ batches'[n].blocks = batches[n].blocks
    BY <1>3, <1>10, CloseWIPBatchData, Zenon
  <2>2. pc # "down" /\ wipBatch' = wipBatch /\ UNCHANGED <<storePc, storeBlock, toStore, procPc, procBlock>>
    BY <1>10 DEF CloseWIPBatch, processVars, storeVars
  <2>3. Pending' = Pending
    BY <2>2, Zenon DEF Pending
  <2> QED BY <1>1, <1>2, <2>1, <2>2, <2>3, ChainKept, Zenon
<1>11. CASE (\E t \in Txs : ProcessTransaction(t)) /\ ~ProcessL2Block /\ ~StoreL2Block /\ ~Restart
  <2>1. PICK t \in Txs : ProcessTransaction(t)
    BY <1>11
  <2>2. pc # "down" /\ UNCHANGED batches
    BY <2>1 DEF ProcessTransaction
  <2> QED BY <1>3, <1>4, <1>11, <2>1, <2>2, ProcessTransactionData, Zenon
<1>12. CASE OpenNewWIPL2Block /\ ~ProcessL2Block /\ ~StoreL2Block /\ ~Restart
  <2>1. pc # "down" /\ UNCHANGED batches
    BY <1>12 DEF OpenNewWIPL2Block
  <2> QED BY <1>3, <1>4, <1>12, <2>1, OpenNewWIPL2BlockData, Zenon
<1>13. CASE (LoopMove \/ CloseWIPL2Block \/ OpenAfterBatch) /\ ~ProcessL2Block /\ ~StoreL2Block /\ ~Restart
  <2>1. pc # "down"
    BY <1>13, LoopMoveIs DEF CloseWIPL2Block, OpenAfterBatch
  <2>2. UNCHANGED <<batches, wipBatch>>
    BY <1>13, LoopMoveIs, Zenon DEF CloseWIPL2Block, OpenAfterBatch
  <2> QED BY <1>4, <1>13, <2>1, <2>2, Zenon
<1>14. CASE /\ \/ AddPendingL2BlockToStore \/ ProcessDone \/ TakeL2BlockToStore \/ StoreDone
               \/ UpdateProverIdAndFlushId \/ ParallelCheck \/ ExecutorStores \/ UNCHANGED vars
            /\ ~ProcessL2Block /\ ~StoreL2Block /\ ~Restart
  <2>1. UNCHANGED <<batches, wipBatch, pc>>
    BY <1>14, Zenon DEF UpdateProverIdAndFlushId, ParallelCheck, ExecutorStores, AddPendingL2BlockToStore,
       ProcessDone, TakeL2BlockToStore, StoreDone, FlushIDCheck, FlushIDWait, FlushIDPoll, loopVars, vars, nodeVars
  <2> QED BY <1>4, <1>14, <2>1, Zenon
<1> QED BY <1>1, <1>5, <1>6, <1>8, <1>9, <1>10, <1>11, <1>12, <1>13, <1>14, Zenon
  DEF Next, FinalizeBatches, LoopMove, ProcessPendingL2Blocks, StorePendingL2Blocks

-----------------------------------------------------------------------------
(* The theorems.                                                            *)

ChainIInv == ShapeInv /\ OrderInv /\ WIPInv /\ PlaceInv /\ FlushInv /\ ChainInv

LEMMA ChainInitially == Init => ChainIInv
<1> SUFFICES ASSUME Init
             PROVE  ChainIInv
  OBVIOUS
<1>1. ShapeInv
  BY ShapeInitially, Zenon
<1>2. /\ closings = <<>> /\ toProcess = <<>> /\ toStore = <<>> /\ Len(closings) = 0 /\ Len(toProcess) = 0 /\ Len(toStore) = 0
      /\ storePc # "flush" /\ procPc # "send" /\ 1 .. 0 = {} /\ Len(batches) = 2 /\ 1 .. 2 = {1, 2} /\ 2 .. 2 = {2}
      /\ batches[1] = Genesis /\ batches[2] = StateBatch(<<>>)
      /\ pc = "openBlock" /\ wipL2Block = 1 /\ blocks[1] = EmptyL2Block /\ wipBatch.num = 2 /\ wipBatch.final = <<>>
  BY DEF Init
<1>3. /\ batches[1].blocks = <<>> /\ batches[2].blocks = <<>> /\ batches[1].root = <<>> /\ batches[2].root = <<>>
      /\ blocks[1].txs = <<>>
  BY <1>2 DEF Genesis, StateBatch, EmptyL2Block
<1>4. \A n \in 1 .. Len(batches) : Len(batches[n].blocks) = 0 /\ 1 .. Len(batches[n].blocks) = {}
  BY <1>2, <1>3
<1>5. \A x : ~InPending(x)
  BY <1>2, Zenon DEF InPending
<1>6. OrderInv
  <2>1. QueueInv
    BY <1>2 DEF QueueInv
  <2> QED BY <1>4, <1>5, <2>1, Zenon DEF OrderInv
<1>7. WIPInv
  <2>1. Stale /\ pc # "closeBlock"
    BY <1>2 DEF Stale
  <2> QED BY <1>2, <1>3, <2>1, Zenon DEF WIPInv
<1>8. PlaceInv
  <2>1. StoredOnlyIn(wipL2Block, wipBatch.num)
    BY <1>4, Zenon DEF StoredOnlyIn
  <2> QED BY <1>2, <1>4, <1>5, <2>1, Zenon DEF PlaceInv
<1>9. FlushInv
  BY <1>4, Zenon DEF FlushInv
<1>10. ChainInv
  <2>1. Chained(blocks, batches, 2)
    <3>1. <<>> \in Seq(Nat) /\ 2 - 1 = 1
      OBVIOUS
    <3>2. batches[2 - 1].root = <<>>
      BY <1>3, <3>1
    <3> QED BY <1>3, <3>1, <3>2, EmptyChained, Zenon
  <2>2. JustStarted
    BY <1>2, <1>3, Zenon DEF JustStarted
  <2>3. FollowsRow
    BY <1>1, <2>2, StartFollows, Zenon
  <2>4. \A n \in 2 .. Len(batches) : n = 2
    BY <1>2
  <2> QED BY <2>1, <2>3, <2>4, Zenon DEF ChainInv, FollowsRow
<1> QED BY <1>1, <1>6, <1>7, <1>8, <1>9, <1>10, Zenon DEF ChainIInv

LEMMA ChainHolds == Spec => []ChainIInv
<1>1. ChainIInv /\ [Next]_vars => ChainIInv'
  BY StackPreserved, CountPreserved, DataPreserved, OrderPreserved, WIPPreserved, PlacePreserved, FlushPreserved,
     ChainPreserved, Zenon DEF ChainIInv, ShapeInv
<1> QED BY <1>1, ChainInitially, PTL DEF Spec

LEMMA RowDomains ==
  ASSUME ShapeInv
  PROVE  /\ DOMAIN batches = 1 .. Len(batches)
         /\ \A n \in 1 .. Len(batches) : DOMAIN batches[n].blocks = 1 .. Len(batches[n].blocks)
         /\ \A n \in 2 .. Len(batches) : n \in 1 .. Len(batches)
<1>1. DOMAIN batches = 1 .. Len(batches) /\ Len(batches) \in Nat
  BY Lengths, LenProperties DEF ShapeInv, DataInv, RowInv
<1>2. ASSUME NEW n \in 1 .. Len(batches)
      PROVE  DOMAIN batches[n].blocks = 1 .. Len(batches[n].blocks)
  <2>1. batches[n] \in Batch
    BY Lengths, Zenon
  <2>2. batches[n].blocks \in Seq(Nat)
    BY <2>1 DEF Batch
  <2> QED BY <2>2, LenProperties
<1> QED BY <1>1, <1>2

\* The database holds one chain: each batch continues the root of the one before it
\* with the blocks stored in it, each executed on top of the one before, and each in
\* the batch it was executed for, although the loop, processPendingL2Blocks and
\* storePendingL2Blocks read and write f.wipBatch without waiting for each other
\* but in closeAndOpenNewWIPBatch; until a block is closed twice or fails to be
\* stored, whatever the restarts.
THEOREM ChainStaysConsistent == Spec => []ChainIsConsistent
<1>1. ChainIInv => ChainIsConsistent
  <2> SUFFICES ASSUME ChainIInv PROVE ChainIsConsistent
    OBVIOUS
  <2>1. ShapeInv /\ PlaceInv /\ ChainInv /\ TypeOK
    BY ShapeIsType, Zenon DEF ChainIInv
  <2> QED BY <2>1, RowDomains, Zenon DEF ChainIsConsistent, PlaceInv, ChainInv, Chained
<1> QED BY <1>1, ChainHolds, PTL

\* No block is stored before the executor has made it durable: storePendingL2Blocks
\* waits for the flush id of the block itself, and a flush id the poller has read is
\* one the executor has reached, even when the process was restarted in between.
THEOREM StoredStaysFlushed == Spec => []StoredIsFlushed
<1>1. ChainIInv => StoredIsFlushed
  BY RowDomains, Zenon DEF ChainIInv, FlushInv, StoredIsFlushed
<1> QED BY <1>1, ChainHolds, PTL
=============================================================================
