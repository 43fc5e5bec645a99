----------------------------- MODULE Aggregator -----------------------------
(***************************************************************************)
(* The aggregator: one goroutine per connected prover (Channel), which     *)
(* proves batches, aggregates proofs of adjacent batches and builds final  *)
(* proofs; the goroutine that sends final proofs to L1 (sendFinalProof);   *)
(* the cleanup of stale locks; and the proof table they share              *)
(* (aggregator/aggregator.go, state/pgstatestorage/proof.go).              *)
(*                                                                         *)
(* A row of state.proof is its range of batches, the lock                  *)
(* generating_since and whether it has a proof.  Rows that are locked      *)
(* together have the same time and so the same stamp: the first batch of   *)
(* the first of them.  The L1 contract and the synchronizer are external:  *)
(* what counts is the last verified batch of each.                         *)
(***************************************************************************)
EXTENDS Integers, FiniteSets

CONSTANTS
  Provers,
  Sequences,     \* state.sequences: the ranges <<from, to>> sequenced together
  Deployments    \* what an aggregator may meet (see below)

Batches == UNION {q[1] .. q[2] : q \in Sequences}
NumBatches == Cardinality(Batches)

\* failures: a bound on failing calls of provers and of the L1 node;
\* cleanups: a bound on stale locks that are deleted; crashes: on restarts.
ASSUME ConstantsAssumption ==
  /\ IsFiniteSet(Provers)
  /\ Sequences \subseteq Nat \X Nat /\ \A q \in Sequences : q[1] <= q[2]
  /\ NumBatches \in Nat /\ Batches = 1 .. NumBatches
  /\ \A q, r \in Sequences : q = r \/ q[2] < r[1] \/ r[2] < q[1]
  /\ \A d \in Deployments : {d.failures, d.cleanups, d.crashes} \subseteq Nat

VARIABLES
  deployment,            \* the one of Deployments this aggregator is in
  virtual,               \* the last virtual batch of the state
  verified, ethVerified, \* the last verified batch: of the state, of L1
  rows,                  \* state.proof
  verifyingProof, due,   \* due: TimeSendFinalProof has passed
  pc, proof, mid,        \* a prover's goroutine: its place, its proof, and where
                         \* the first of two proofs to aggregate ends
  fresh, lastVerified,   \* tryBuildFinalProof: was a proof passed; what it read
  sendPc, sent,          \* sendFinalProof: its place and the proof in its hand
  monitored,             \* the verification txs the eth tx manager monitors
  failures, cleanups, crashes

chainVars == <<virtual, verified, ethVerified>>
proverVars == <<pc, proof, mid, fresh, lastVerified>>
sendVars == <<sendPc, sent, monitored, verifyingProof, due>>
boundVars == <<failures, cleanups, crashes>>
aggregatorVars == <<chainVars, rows, proverVars, sendVars, boundVars>>
vars == <<deployment, aggregatorVars>>

-----------------------------------------------------------------------------
(* The proof table.                                                         *)

Row(f, t, gen, done) == [from |-> f, to |-> t, gen |-> gen, done |-> done]
Range2(f, t) == [from |-> f, to |-> t]
NoProof == Range2(0, 0)

Unlocked(r) == r.gen = 0
From == {q[1] : q \in Sequences}
To == {q[2] : q \in Sequences}

\* state.sequences holds the sequences that are virtual.
CompleteSequences(r) == r.from \in From /\ r.to \in To /\ r.to <= virtual

\* Mutant: a locked proof may be taken.
ReadyToVerifyLocked(last) ==
  {r \in rows : r.from = last + 1 /\ CompleteSequences(r)}

ReadyToVerify(last) ==
  {r \in rows : r.from = last + 1 /\ Unlocked(r) /\ CompleteSequences(r)}

InOneSequence(r, s) ==
  \E q \in Sequences : {r.from, r.to, s.from, s.to} \subseteq q[1] .. q[2]

ToAggregate ==
  {p \in rows \X rows :
     /\ p[1].to = p[2].from - 1
     /\ Unlocked(p[1]) /\ Unlocked(p[2]) /\ p[1].done /\ p[2].done
     /\ \/ InOneSequence(p[1], p[2])
        \/ CompleteSequences(p[1]) /\ CompleteSequences(p[2])}

Covered(b) == \E r \in rows : b \in r.from .. r.to
ToProve == {b \in verified + 1 .. virtual : ~Covered(b)}

\* UpdateGeneratedProof, from a copy that has its proof; a row that is gone stays gone.
Updated(R, r, gen) ==
  {IF s.from = r.from /\ s.to = r.to THEN Row(s.from, s.to, gen, TRUE) ELSE s : s \in R}

\* Mutant: only the row with exactly the range is deleted.
WithoutExact(R, f, t) == {r \in R : ~(r.from = f /\ r.to = t)}

\* DeleteGeneratedProofs
Without(R, f, t) == {r \in R : ~(r.from >= f /\ r.to <= t)}

-----------------------------------------------------------------------------
(* tryBuildFinalProof of prover p, for a stored or for a fresh proof.       *)

Goto(p, l) == pc' = [pc EXCEPT ![p] = l]

\* A call returns, and its local variables are gone.
Return(p, l) ==
  /\ Goto(p, l)
  /\ proof' = [proof EXCEPT ![p] = NoProof]
  /\ mid' = [mid EXCEPT ![p] = 0]
  /\ fresh' = [fresh EXCEPT ![p] = FALSE]
  /\ lastVerified' = [lastVerified EXCEPT ![p] = 0]

\* tryBuildFinalProof returns: a fresh proof is stored without its lock, and
\* after a stored one tryAggregateProofs comes next.
ReturnNotBuilt(p) ==
  IF fresh[p]
    THEN /\ Goto(p, "store")
         /\ fresh' = [fresh EXCEPT ![p] = FALSE]
         /\ lastVerified' = [lastVerified EXCEPT ![p] = 0]
         /\ UNCHANGED <<proof, mid>>
    ELSE Return(p, "aggregate")

MayFail ==
  /\ failures < deployment.failures
  /\ failures' = failures + 1
  /\ UNCHANGED <<cleanups, crashes>>

CanVerifyProof(p) ==
  LET passed == pc[p] = "tryFinal" IN
  /\ pc[p] \in {"final", "tryFinal"}
  /\ IF due /\ ~verifyingProof
       THEN Goto(p, "sync") /\ fresh' = [fresh EXCEPT ![p] = passed]
       ELSE Goto(p, IF passed THEN "store" ELSE "aggregate") /\ UNCHANGED fresh
  /\ UNCHANGED <<chainVars, rows, proof, mid, lastVerified, sendVars, boundVars>>

\* Waits for isSynced, then reads the last verified batch.
WaitSynced(p) ==
  /\ pc[p] = "sync" /\ verified >= ethVerified
  /\ lastVerified' = [lastVerified EXCEPT ![p] = verified]
  /\ Goto(p, IF fresh[p] THEN "validate" ELSE "lock")
  /\ UNCHANGED <<chainVars, rows, proof, mid, fresh, sendVars, boundVars>>

\* getAndLockProofReadyToVerify, under StateDBMutex.
LockProofReadyToVerify(p) ==
  LET ready == ReadyToVerify(lastVerified[p]) IN
  /\ pc[p] = "lock"
  /\ \/ ready = {} /\ Return(p, "aggregate") /\ UNCHANGED rows
     \/ /\ \E r \in ready :
             /\ rows' = Updated(rows, r, r.from)
             /\ proof' = [proof EXCEPT ![p] = Range2(r.from, r.to)]
        /\ lastVerified' = [lastVerified EXCEPT ![p] = 0]
        /\ Goto(p, "build")
        /\ UNCHANGED <<mid, fresh>>
  /\ UNCHANGED <<chainVars, sendVars, boundVars>>

\* Mutant: the check for complete sequences is missing.
EligibleIncomplete(r, last) == r.from <= last + 1 /\ r.to > last

Eligible(r, last) == r.from <= last + 1 /\ r.to > last /\ CompleteSequences(r)

\* validateEligibleFinalProof: a proof below the last verified batch is deleted.
ValidateEligible(p) ==
  LET r == proof[p] IN
  /\ pc[p] = "validate"
  /\ \/ /\ Eligible(r, lastVerified[p])
        /\ Goto(p, "build")
        /\ lastVerified' = [lastVerified EXCEPT ![p] = 0]
        /\ UNCHANGED <<rows, proof, mid, fresh>>
     \/ /\ ~Eligible(r, lastVerified[p])
        /\ rows' = IF r.to <= lastVerified[p] THEN Without(rows, r.from, r.to) ELSE rows
        /\ ReturnNotBuilt(p)
  /\ UNCHANGED <<chainVars, sendVars, boundVars>>

BuildFinalProof(p) ==
  /\ pc[p] = "build"
  /\ \/ Goto(p, "send") /\ UNCHANGED <<rows, proof, mid, fresh, lastVerified, boundVars>>
     \/ /\ MayFail
        /\ rows' = IF fresh[p] THEN rows ELSE Updated(rows, proof[p], 0)
        /\ ReturnNotBuilt(p)
  /\ UNCHANGED <<chainVars, sendVars>>

\* The unbuffered channel a.finalProof.
SendFinalProof(p) ==
  /\ pc[p] = "send" /\ sendPc = "idle"
  /\ sent' = proof[p]
  /\ sendPc' = "start"
  /\ Return(p, IF fresh[p] THEN "final" ELSE "aggregate")
  /\ UNCHANGED <<chainVars, rows, monitored, verifyingProof, due, boundVars>>

-----------------------------------------------------------------------------
(* tryAggregateProofs and tryGenerateBatchProof of prover p.                *)

\* getAndLockProofsToAggregate, under StateDBMutex: the pair with the lowest batch.
LockProofsToAggregate(p) ==
  /\ pc[p] = "aggregate"
  /\ \/ ToAggregate = {} /\ Goto(p, "generate") /\ UNCHANGED <<rows, proof, mid>>
     \/ \E a \in ToAggregate :
          /\ \A b \in ToAggregate : a[1].from <= b[1].from
          /\ rows' = Updated(Updated(rows, a[1], a[1].from), a[2], a[1].from)
          /\ proof' = [proof EXCEPT ![p] = Range2(a[1].from, a[2].to)]
          /\ mid' = [mid EXCEPT ![p] = a[1].to]
          /\ Goto(p, "aggregating")
  /\ UNCHANGED <<chainVars, fresh, lastVerified, sendVars, boundVars>>

\* unlockProofsToAggregate
UnlockProofs(p) ==
  Updated(Updated(rows, Range2(proof[p].from, mid[p]), 0), Range2(mid[p] + 1, proof[p].to), 0)

\* The aggregated proof replaces, in one transaction, all rows of its range.
AggregatedProof(p) ==
  LET r == proof[p] IN
  /\ pc[p] = "aggregating"
  /\ \/ /\ rows' = Without(rows, r.from, r.to) \cup {Row(r.from, r.to, r.from, TRUE)}
        /\ Goto(p, "tryFinal")
        /\ mid' = [mid EXCEPT ![p] = 0]
        /\ UNCHANGED <<proof, fresh, lastVerified, boundVars>>
     \/ MayFail /\ rows' = UnlockProofs(p) /\ Return(p, "generate")
  /\ UNCHANGED <<chainVars, sendVars>>

\* getAndLockBatchToProve, under StateDBMutex: the lowest batch.
LockBatchToProve(p) ==
  /\ pc[p] = "generate"
  /\ \/ ToProve = {} /\ Goto(p, "final") /\ UNCHANGED <<rows, proof>>
     \/ \E b \in ToProve :
          /\ \A c \in ToProve : b <= c
          /\ rows' = rows \cup {Row(b, b, b, FALSE)}
          /\ proof' = [proof EXCEPT ![p] = Range2(b, b)]
          /\ Goto(p, "generating")
  /\ UNCHANGED <<chainVars, mid, fresh, lastVerified, sendVars, boundVars>>

BatchProof(p) ==
  LET r == proof[p] IN
  /\ pc[p] = "generating"
  /\ \/ Goto(p, "tryFinal") /\ UNCHANGED <<rows, proof, mid, fresh, lastVerified, boundVars>>
     \/ MayFail /\ rows' = Without(rows, r.from, r.to) /\ Return(p, "final")
  /\ UNCHANGED <<chainVars, sendVars>>

\* A fresh proof no final proof was built from is stored and unlocked.
StoreProof(p) ==
  /\ pc[p] = "store"
  /\ rows' = Updated(rows, proof[p], 0)
  /\ Return(p, "final")
  /\ UNCHANGED <<chainVars, sendVars, boundVars>>

-----------------------------------------------------------------------------
(* sendFinalProof.                                                          *)

StartProofVerification ==
  /\ sendPc = "start"
  /\ verifyingProof' = TRUE
  /\ sendPc' = "add"
  /\ UNCHANGED <<chainVars, rows, proverVars, sent, monitored, due, boundVars>>

\* The L1 contract accepts a proof that starts at most right after its last
\* verified batch and ends after it; otherwise the gas estimation of Add fails.
Acceptable(r) == r.from <= ethVerified + 1 /\ r.to > ethVerified

AddToBeMonitored ==
  /\ sendPc = "add" /\ Acceptable(sent)
  /\ monitored' = monitored \cup {sent}
  /\ sendPc' = "wait"
  /\ UNCHANGED <<chainVars, rows, proverVars, sent, verifyingProof, due, boundVars>>

\* handleFailureToAddVerifyBatchToBeMonitored
AddFails ==
  /\ sendPc = "add"
  /\ (~Acceptable(sent) /\ UNCHANGED boundVars) \/ MayFail
  /\ rows' = Updated(rows, sent, 0)
  /\ verifyingProof' = FALSE
  /\ sendPc' = "idle" /\ sent' = NoProof
  /\ UNCHANGED <<chainVars, proverVars, monitored, due>>

\* Mutant: continue without endProofVerification.
GetBatchFailsVerifying ==
  /\ sendPc = "add" /\ MayFail
  /\ sendPc' = "idle" /\ sent' = NoProof
  /\ UNCHANGED <<chainVars, rows, proverVars, monitored, verifyingProof, due>>

\* GetBatchByNumber fails: the proof stays locked.
GetBatchFails ==
  /\ sendPc = "add" /\ MayFail
  /\ verifyingProof' = FALSE
  /\ sendPc' = "idle" /\ sent' = NoProof
  /\ UNCHANGED <<chainVars, rows, proverVars, monitored, due>>

\* handleMonitoredTxResult: the tx is confirmed and the state has synchronized
\* its batches; all proofs up to them are deleted.
HandleMonitoredTxResult ==
  /\ sendPc \in {"wait", "boot"}
  /\ \E m \in monitored :
       /\ ethVerified >= m.to /\ verified >= ethVerified
       /\ monitored' = monitored \ {m}
       /\ rows' = {r \in rows : r.to > m.to}
  /\ UNCHANGED <<chainVars, proverVars, sendPc, sent, verifyingProof, due, boundVars>>

\* No tx is pending: resetVerifyProofTime and endProofVerification.
EndProofVerification ==
  /\ sendPc = "wait" /\ monitored = {}
  /\ due' = FALSE
  /\ verifyingProof' = FALSE
  /\ sendPc' = "idle" /\ sent' = NoProof
  /\ UNCHANGED <<chainVars, rows, proverVars, monitored, boundVars>>

VerifyTimeReached ==
  /\ ~due
  /\ due' = TRUE
  /\ UNCHANGED <<chainVars, rows, proverVars, sendPc, sent, monitored,
                 verifyingProof, boundVars>>

\* A lock is held while its prover or the sender works on the range of the row.
Holding(p) ==
  \/ pc[p] \in {"aggregating", "generating", "tryFinal", "validate", "build", "send", "store"}
  \/ pc[p] = "sync" /\ fresh[p]
Busy == {proof[p] : p \in {q \in Provers : Holding(q)}}
          \cup (IF sendPc \in {"start", "add", "wait"} THEN {sent} ELSE {})
Held(r) == \E h \in Busy : h.from <= r.from /\ r.to <= h.to

\* CleanupLockedProofs: the rows locked at one time are stale together.  A lock
\* nobody holds gets stale in any case; one that is held, when its prover is slow.
CleanupLockedProofs ==
  /\ sendPc # "boot"
  /\ \E r \in rows :
       /\ ~Unlocked(r)
       /\ IF Held(r) THEN cleanups < deployment.cleanups /\ cleanups' = cleanups + 1
                     ELSE UNCHANGED cleanups
       /\ rows' = {s \in rows : s.gen # r.gen}
  /\ UNCHANGED <<chainVars, proverVars, sendVars, failures, crashes>>

-----------------------------------------------------------------------------
(* The chain, and restarts of the aggregator.                               *)

SyncSequence ==
  /\ \E q \in Sequences : q[1] = virtual + 1 /\ virtual' = q[2]
  /\ UNCHANGED <<verified, ethVerified, rows, proverVars, sendVars, boundVars>>

MineVerification ==
  /\ \E m \in monitored : m.to > ethVerified /\ ethVerified' = m.to
  /\ UNCHANGED <<virtual, verified, rows, proverVars, sendVars, boundVars>>

SyncVerification ==
  /\ verified < ethVerified
  /\ verified' = ethVerified
  /\ UNCHANGED <<virtual, ethVerified, rows, proverVars, sendVars, boundVars>>

Idle == [p \in Provers |-> "off"]

Restart ==
  /\ crashes < deployment.crashes
  /\ crashes' = crashes + 1
  /\ pc' = Idle /\ sendPc' = "boot"
  /\ proof' = [p \in Provers |-> NoProof] /\ mid' = [p \in Provers |-> 0]
  /\ fresh' = [p \in Provers |-> FALSE] /\ lastVerified' = [p \in Provers |-> 0]
  /\ sent' = NoProof /\ verifyingProof' = FALSE /\ due' = FALSE
  /\ UNCHANGED <<chainVars, rows, monitored, failures, cleanups>>

\* Start, once no tx is pending: DeleteUngeneratedProofs, and provers connect.
Start ==
  /\ sendPc = "boot" /\ monitored = {}
  /\ rows' = {r \in rows : Unlocked(r)}
  /\ sendPc' = "idle"
  /\ pc' = [p \in Provers |-> "final"]
  /\ UNCHANGED <<chainVars, proof, mid, fresh, lastVerified, sent, monitored,
                 verifyingProof, due, boundVars>>

Init ==
  /\ deployment \in Deployments
  /\ virtual = 0 /\ verified = 0 /\ ethVerified = 0
  /\ rows = {}
  /\ pc = Idle /\ sendPc = "boot"
  /\ proof = [p \in Provers |-> NoProof] /\ mid = [p \in Provers |-> 0]
  /\ fresh = [p \in Provers |-> FALSE] /\ lastVerified = [p \in Provers |-> 0]
  /\ sent = NoProof /\ monitored = {} /\ verifyingProof = FALSE /\ due = FALSE
  /\ failures = 0 /\ cleanups = 0 /\ crashes = 0

Channel(p) ==
  \/ CanVerifyProof(p) \/ WaitSynced(p) \/ LockProofReadyToVerify(p)
  \/ ValidateEligible(p) \/ BuildFinalProof(p) \/ SendFinalProof(p)
  \/ LockProofsToAggregate(p) \/ AggregatedProof(p)
  \/ LockBatchToProve(p) \/ BatchProof(p) \/ StoreProof(p)

Sender ==
  \/ StartProofVerification \/ AddToBeMonitored \/ AddFails \/ GetBatchFails
  \/ HandleMonitoredTxResult \/ EndProofVerification \/ Start

Chain == SyncSequence \/ MineVerification \/ SyncVerification

Next ==
  /\ \/ \E p \in Provers : Channel(p)
     \/ Sender \/ Chain
     \/ VerifyTimeReached \/ CleanupLockedProofs \/ Restart
  /\ UNCHANGED deployment

Spec == Init /\ [][Next]_vars

\* Provers answer, the sender goes on, the L1 mines and is synchronized, and
\* time passes; failures, stale locks and restarts need not happen.
FairSpec ==
  /\ Spec
  /\ \A p \in Provers : WF_aggregatorVars(Channel(p))
  /\ WF_aggregatorVars(Sender) /\ WF_aggregatorVars(SyncSequence)
  /\ WF_aggregatorVars(MineVerification) /\ WF_aggregatorVars(SyncVerification)
  /\ WF_aggregatorVars(VerifyTimeReached)
  /\ WF_aggregatorVars(CleanupLockedProofs /\ UNCHANGED cleanups)

-----------------------------------------------------------------------------
(* Properties.                                                              *)

Ranges == {Range2(f, t) : f \in 0 .. NumBatches, t \in 0 .. NumBatches}

\* The table and the goroutines' variables are well formed, and a row without a
\* lock has its proof.
TypeOK ==
  /\ 0 <= verified /\ verified <= ethVerified
  /\ ethVerified <= virtual /\ virtual <= NumBatches
  /\ \A r \in rows : r.from \in 1 .. r.to /\ r.to \in 1 .. NumBatches
                       /\ (Unlocked(r) => r.done)
  /\ proof \in [Provers -> Ranges] /\ sent \in Ranges /\ monitored \subseteq Ranges

Disjoint(r, s) == r.to < s.from \/ s.to < r.from

\* Unless a lock was deleted under its holder, no two rows cover the same batch:
\* whatever provers, the sender, failures and restarts do, every batch is in one
\* proof, so GetVirtualBatchToProve and the final proofs never skip or repeat one.
RowsDisjoint ==
  /\ TypeOK
  /\ cleanups = 0 => \A r, s \in rows : r = s \/ Disjoint(r, s)

\* "Avoid other prover to process the same batch": two provers, or a prover and
\* the sender, never work on proofs of the same batch at the same time.
NoDoubleWork ==
  cleanups = 0 =>
    /\ \A p, q \in Provers :
         p # q /\ Holding(p) /\ Holding(q) => Disjoint(proof[p], proof[q])
    /\ sendPc \in {"start", "add", "wait"} =>
         \A p \in Provers : Holding(p) => Disjoint(proof[p], sent)

\* Although canVerifyProof is read long before the final proof is sent, the L1
\* contract never sees a final proof that does not start at its next batch or
\* that ends inside a sequence.
FinalProofIsNext ==
  sendPc = "add" /\ cleanups = 0 =>
    sent.from = ethVerified + 1 /\ sent.to \in To /\ sent.from \in From

\* Every virtual batch is verified in the end, in spite of failing provers, of
\* failing sends that leave a lock behind, and of restarts.
AllVerified ==
  \A b \in Batches : virtual >= b /\ deployment.cleanups = 0 ~> verified >= b

\* A complete proof that contains batches below the last verified one "anyway can
\* be eligible as final proof": the batches of a stored proof get verified, also
\* where a slow prover lost its lock.
StoredProofIsUsed ==
  \A b \in Batches :
    (\E r \in rows : Unlocked(r) /\ CompleteSequences(r) /\ b \in r.from .. r.to)
      ~> verified >= b
=============================================================================
