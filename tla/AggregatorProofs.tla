-------------------------- MODULE AggregatorProofs --------------------------
(***************************************************************************)
(* Aggregator: as long as no lock is deleted under its holder, every batch *)
(* is in one proof and in one hand, and final proofs are sent in order.    *)
(***************************************************************************)
EXTENDS Aggregator, TLAPS

RowSet == [from : Nat, to : Nat, gen : Nat, done : BOOLEAN]
RangeSet == [from : Nat, to : Nat]

\* A range of batches of the state.
Proper(r) == 1 <= r.from /\ r.from <= r.to /\ r.to <= virtual

Sending == sendPc \in {"start", "add", "wait"}

HoldingPcs == {"aggregating", "generating", "tryFinal", "validate", "build", "send", "store"}
OtherPcs == {"off", "final", "lock", "aggregate", "generate"}
Pcs == HoldingPcs \cup OtherPcs \cup {"sync"}

RowOK(R) == R \subseteq RowSet /\ \A r \in R : Proper(r) /\ (r.gen = 0 => r.done)

ChainTypes ==
  /\ virtual \in 0 .. NumBatches /\ verified \in Nat /\ ethVerified \in Nat
  /\ verified <= ethVerified /\ ethVerified <= virtual

GoroutineTypes ==
  /\ pc \in [Provers -> Pcs] /\ proof \in [Provers -> RangeSet]
  /\ mid \in [Provers -> Nat] /\ fresh \in [Provers -> BOOLEAN]
  /\ lastVerified \in [Provers -> Nat]
  /\ \A p \in Provers : proof[p] = NoProof \/ Proper(proof[p])
  /\ \A p \in Provers : Holding(p) => Proper(proof[p])

SenderTypes ==
  /\ sent \in RangeSet /\ (sent = NoProof \/ Proper(sent))
  /\ Sending => Proper(sent)
  /\ monitored \subseteq RangeSet /\ \A m \in monitored : Proper(m)

\* Every range a row, a prover, the sender or a tx has is one of virtual batches,
\* and a row without a lock has its proof.
TypeInv == ChainTypes /\ RowOK(rows) /\ GoroutineTypes /\ SenderTypes /\ cleanups \in Nat

Within(r, h) == h.from <= r.from /\ r.to <= h.to
Apart(R) == \A r, s \in R : r = s \/ Disjoint(r, s)

\* The rows of R cover the range h, and those that meet it are parts of it with
\* the stamp of its lock.
Locked(R, h) ==
  /\ \A s \in R : Disjoint(s, h) \/ (Within(s, h) /\ s.gen = h.from)
  /\ \A b \in h.from .. h.to : \E s \in R : b \in s.from .. s.to

\* Without a tx on its way, the rows are those of batches L1 has not verified.
QuietInv ==
  monitored = {} => verified = ethVerified /\ \A r \in rows : r.from > ethVerified

\* At most one tx is on its way; its batches are the next, and locked.
MonitoredInv ==
  \A m \in monitored :
    /\ monitored = {m}
    /\ sendPc \in {"wait", "boot"} /\ (sendPc = "wait" => sent = m)
    /\ Locked(rows, m) /\ \A r \in rows : m.from <= r.from
    /\ ethVerified \in {m.from - 1, m.to} /\ verified \in {m.from - 1, m.to}

\* What the sender has in its hand is the next proof, and locked.
SentInv ==
  /\ sendPc \in {"start", "add"} =>
       /\ Locked(rows, sent)
       /\ sent.from = ethVerified + 1 /\ sent.from \in From /\ sent.to \in To
  /\ sendPc = "wait" /\ monitored = {} => sent.to = ethVerified

\* The tables of the state, L1 and the sender.
SenderInv == Apart(rows) /\ QuietInv /\ MonitoredInv /\ SentInv

HeldLocked == \A p \in Provers : Holding(p) => Locked(rows, proof[p])
HeldDisjoint ==
  \A p, q \in Provers :
    p # q /\ Holding(p) /\ Holding(q) => Disjoint(proof[p], proof[q])
SentDisjoint == Sending => \A p \in Provers : Holding(p) => Disjoint(proof[p], sent)

\* What each place of a goroutine means: the two rows being aggregated; a final
\* proof starts at the latest after the last verified batch.
OwnInv(p) ==
  /\ pc[p] = "aggregating" =>
       \A s \in rows : Within(s, proof[p]) =>
         \/ s.from = proof[p].from /\ s.to = mid[p]
         \/ s.from = mid[p] + 1 /\ s.to = proof[p].to
  /\ pc[p] \in {"build", "send"} =>
       proof[p].from <= verified + 1 /\ proof[p].from \in From /\ proof[p].to \in To
  /\ pc[p] \in {"lock", "validate"} => lastVerified[p] <= verified

\* The provers: what each holds is locked, and nothing is held twice.
ProverInv ==
  /\ sendPc = "boot" => \A p \in Provers : pc[p] = "off"
  /\ HeldLocked /\ HeldDisjoint /\ SentDisjoint
  /\ \A p \in Provers : OwnInv(p)

\* A lock bears the first batch of its row, but for the second of two rows that
\* are being aggregated.
StampInv ==
  sendPc # "boot" =>
    \A r \in rows :
      \/ r.gen = 0 \/ r.gen = r.from
      \/ \E p \in Provers : pc[p] = "aggregating" /\ Within(r, proof[p])

IInv == TypeInv /\ (cleanups = 0 => SenderInv /\ ProverInv /\ StampInv)
-----------------------------------------------------------------------------
(* The operations on the table.                                            *)

\* UpdateGeneratedProof keeps the range of every row, and a row it does not change.
LEMMA UpdatedRows ==
  ASSUME NEW R, R \subseteq RowSet, NEW r, NEW g \in Nat
  PROVE  /\ Updated(R, r, g) \subseteq RowSet
         /\ \A s \in Updated(R, r, g) :
              \E t \in R :
                /\ s.from = t.from /\ s.to = t.to
                /\ \/ s = t /\ ~(t.from = r.from /\ t.to = r.to)
                   \/ t.from = r.from /\ t.to = r.to /\ s.gen = g /\ s.done
         /\ \A t \in R :
              \E s \in Updated(R, r, g) : s.from = t.from /\ s.to = t.to
<1> DEFINE U(s) == IF s.from = r.from /\ s.to = r.to
                     THEN Row(s.from, s.to, g, TRUE) ELSE s
<1>1. \A s \in R :
        /\ U(s) \in RowSet /\ U(s).from = s.from /\ U(s).to = s.to
        /\ \/ U(s) = s /\ ~(s.from = r.from /\ s.to = r.to)
           \/ s.from = r.from /\ s.to = r.to /\ U(s).gen = g /\ U(s).done
  BY Zenon DEF RowSet, Row
<1>2. Updated(R, r, g) = {U(s) : s \in R}
  BY Zenon DEF Updated
<1> HIDE DEF U
<1> QED BY <1>1, <1>2, Zenon

LEMMA UpdatedApart ==
  ASSUME NEW R, R \subseteq RowSet, NEW r, NEW g \in Nat, Apart(R),
         \A s \in R : s.from <= s.to
  PROVE  Apart(Updated(R, r, g))
<1> SUFFICES ASSUME NEW s \in Updated(R, r, g), NEW t \in Updated(R, r, g),
                    ~Disjoint(s, t)
             PROVE  s = t
  BY Zenon DEF Apart
<1>1. PICK s0 \in R : /\ s.from = s0.from /\ s.to = s0.to
                      /\ s = IF s0.from = r.from /\ s0.to = r.to
                               THEN Row(s0.from, s0.to, g, TRUE) ELSE s0
  BY DEF Updated, Row, RowSet
<1>2. PICK t0 \in R : /\ t.from = t0.from /\ t.to = t0.to
                      /\ t = IF t0.from = r.from /\ t0.to = r.to
                               THEN Row(t0.from, t0.to, g, TRUE) ELSE t0
  BY DEF Updated, Row, RowSet
<1>3. ~Disjoint(s0, t0)
  BY <1>1, <1>2, Zenon DEF Disjoint
<1>4. s0 = t0
  BY <1>3, Zenon DEF Apart
<1> QED BY <1>1, <1>2, <1>4, Zenon

\* A lock on h is kept by an update of rows elsewhere.
LEMMA UpdatedLocked ==
  ASSUME NEW R, R \subseteq RowSet, NEW r, NEW g \in Nat, NEW h, Locked(R, h),
         Disjoint(r, h)
  PROVE  Locked(Updated(R, r, g), h)
<1>1. ASSUME NEW s \in Updated(R, r, g)
      PROVE  Disjoint(s, h) \/ (Within(s, h) /\ s.gen = h.from)
  <2>1. PICK t \in R :
          /\ s.from = t.from /\ s.to = t.to
          /\ \/ s = t /\ ~(t.from = r.from /\ t.to = r.to)
             \/ t.from = r.from /\ t.to = r.to /\ s.gen = g /\ s.done
    BY UpdatedRows
  <2> QED BY <2>1 DEF Locked, Disjoint, Within
<1>2. ASSUME NEW b \in h.from .. h.to
      PROVE  \E s \in Updated(R, r, g) : b \in s.from .. s.to
  <2>1. PICK t \in R : b \in t.from .. t.to
    BY Zenon DEF Locked
  <2>2. PICK s \in Updated(R, r, g) : s.from = t.from /\ s.to = t.to
    BY UpdatedRows
  <2> QED BY <2>1, <2>2, Zenon
<1> QED BY <1>1, <1>2, Zenon DEF Locked

\* One row locked with its own stamp, and two adjacent rows with that of the first.
LEMMA LockRow ==
  ASSUME NEW R, R \subseteq RowSet, Apart(R), NEW r \in R,
         \A s \in R : s.from <= s.to
  PROVE  Locked(Updated(R, r, r.from), Range2(r.from, r.to))
<1> DEFINE h == Range2(r.from, r.to)
<1>0. h.from = r.from /\ h.to = r.to /\ r.from \in Nat /\ r.to \in Nat
  BY Zenon DEF Range2, RowSet
<1> HIDE DEF h
<1>1. ASSUME NEW s \in Updated(R, r, r.from)
      PROVE  Disjoint(s, h) \/ (Within(s, h) /\ s.gen = h.from)
  <2>1. PICK t \in R :
          /\ s.from = t.from /\ s.to = t.to
          /\ \/ s = t /\ ~(t.from = r.from /\ t.to = r.to)
             \/ t.from = r.from /\ t.to = r.to /\ s.gen = r.from /\ s.done
    BY <1>0, UpdatedRows
  <2>2. CASE t = r
    BY <1>0, <2>1, <2>2 DEF Within
  <2>3. CASE Disjoint(t, r)
    BY <1>0, <2>1, <2>3, Zenon DEF Disjoint
  <2> QED BY <2>2, <2>3, Zenon DEF Apart
<1>2. ASSUME NEW b \in h.from .. h.to
      PROVE  \E s \in Updated(R, r, r.from) : b \in s.from .. s.to
  <2>1. PICK s \in Updated(R, r, r.from) : s.from = r.from /\ s.to = r.to
    BY <1>0, UpdatedRows
  <2> QED BY <1>0, <2>1, Zenon
<1> QED BY <1>1, <1>2, Zenon DEF Locked, h

LEMMA LockPair ==
  ASSUME NEW R, R \subseteq RowSet, Apart(R), NEW r \in R, NEW s \in R,
         r.to = s.from - 1, \A t \in R : t.from <= t.to
  PROVE  LET U == Updated(Updated(R, r, r.from), s, r.from)
             h == Range2(r.from, s.to)
         IN  /\ Locked(U, h)
             /\ \A u \in U : Within(u, h) =>
                  \/ u.from = r.from /\ u.to = r.to
                  \/ u.from = s.from /\ u.to = s.to
<1> DEFINE V == Updated(R, r, r.from)
           U == Updated(V, s, r.from)
           h == Range2(r.from, s.to)
<1>0. /\ h.from = r.from /\ h.to = s.to
      /\ r.from \in Nat /\ r.to \in Nat /\ s.from \in Nat /\ s.to \in Nat
      /\ \A t \in R : t.from \in Nat /\ t.to \in Nat
  BY Zenon DEF Range2, RowSet
<1> HIDE DEF h
<1>a. V \subseteq RowSet
  BY <1>0, UpdatedRows, Zenon
<1>1. \A v \in V : \E t \in R :
        /\ v.from = t.from /\ v.to = t.to
        /\ (t.from = r.from /\ t.to = r.to) => v.gen = r.from
  BY <1>0, UpdatedRows
<1>2. \A t \in R : \E v \in V : v.from = t.from /\ v.to = t.to
  BY <1>0, UpdatedRows
<1> HIDE DEF V
<1>3. \A u \in U : \E v \in V :
        /\ u.from = v.from /\ u.to = v.to
        /\ \/ u = v
           \/ u.gen = r.from
        /\ (v.from = s.from /\ v.to = s.to) => u.gen = r.from
  BY <1>0, <1>a, UpdatedRows
<1>4. \A v \in V : \E u \in U : u.from = v.from /\ u.to = v.to
  BY <1>0, <1>a, UpdatedRows
<1> HIDE DEF U
<1>5. ASSUME NEW u \in U
      PROVE  /\ Disjoint(u, h) \/ (Within(u, h) /\ u.gen = h.from)
             /\ Within(u, h) =>
                  \/ u.from = r.from /\ u.to = r.to
                  \/ u.from = s.from /\ u.to = s.to
  <2>1. PICK v \in V : /\ u.from = v.from /\ u.to = v.to
                       /\ u = v \/ u.gen = r.from
                       /\ (v.from = s.from /\ v.to = s.to) => u.gen = r.from
    BY <1>3, Zenon
  <2>2. PICK t \in R : /\ v.from = t.from /\ v.to = t.to
                       /\ (t.from = r.from /\ t.to = r.to) => v.gen = r.from
    BY <1>1, Zenon
  <2>3. CASE t = r \/ t = s
    BY <1>0, <2>1, <2>2, <2>3 DEF Within
  <2>4. CASE Disjoint(t, r) /\ Disjoint(t, s)
    <3>1. t.to < r.from \/ s.to < t.from
      BY <1>0, <2>4 DEF Disjoint
    <3> QED BY <1>0, <2>1, <2>2, <3>1 DEF Disjoint, Within
  <2> QED BY <2>3, <2>4, Zenon DEF Apart
<1>6. ASSUME NEW b \in h.from .. h.to
      PROVE  \E u \in U : b \in u.from .. u.to
  <2>1. b \in r.from .. r.to \/ b \in s.from .. s.to
    BY <1>0
  <2> QED BY <2>1, <1>2, <1>4
<1> QED BY <1>5, <1>6, Zenon DEF Locked, h, U, V

\* A lock on h is kept when rows are deleted or added elsewhere.
LEMMA WithoutLocked ==
  ASSUME NEW R, R \subseteq RowSet, NEW f \in Nat, NEW t \in Nat, NEW h \in RangeSet,
         Locked(R, h), t < h.from \/ h.to < f
  PROVE  Locked(Without(R, f, t), h)
<1>1. ASSUME NEW b \in h.from .. h.to
      PROVE  \E s \in Without(R, f, t) : b \in s.from .. s.to
  <2>1. PICK s \in R : b \in s.from .. s.to
    BY Zenon DEF Locked
  <2>2. ~(s.from >= f /\ s.to <= t)
    BY <2>1 DEF RowSet, RangeSet
  <2> QED BY <2>1, <2>2, Zenon DEF Without
<1> QED BY <1>1, Zenon DEF Locked, Without

LEMMA AddLocked ==
  ASSUME NEW R, NEW n, NEW h, Locked(R, h), Disjoint(n, h)
  PROVE  Locked(R \cup {n}, h)
BY Zenon DEF Locked
-----------------------------------------------------------------------------
(* The ranges are ranges of virtual batches.                               *)


LEMMA UpdatedOK ==
  ASSUME NEW R, RowOK(R), virtual \in Nat, NEW r, NEW g \in Nat
  PROVE  RowOK(Updated(R, r, g))
<1> USE DEF RowOK
<1>1. \A s \in Updated(R, r, g) : Proper(s) /\ (s.gen = 0 => s.done)
  BY UpdatedRows DEF Proper
<1> QED BY <1>1, UpdatedRows, Zenon

LEMMA RowIsOK ==
  ASSUME NEW f \in Nat, NEW t \in Nat, NEW g \in Nat, NEW d \in BOOLEAN
  PROVE  /\ Row(f, t, g, d) \in RowSet /\ Range2(f, t) \in RangeSet
         /\ Row(f, t, g, d).from = f /\ Row(f, t, g, d).to = t
         /\ Row(f, t, g, d).gen = g /\ Row(f, t, g, d).done = d
         /\ Range2(f, t).from = f /\ Range2(f, t).to = t
BY Zenon DEF Row, RowSet, Range2, RangeSet

LEMMA AddedOK ==
  ASSUME NEW R, RowOK(R), NEW f \in Nat, NEW t \in Nat, NEW d \in BOOLEAN,
         1 <= f, f <= t, t <= virtual
  PROVE  RowOK(R \cup {Row(f, t, f, d)}) /\ Proper(Range2(f, t))
<1>1. /\ Row(f, t, f, d) \in RowSet /\ Proper(Row(f, t, f, d)) /\ Row(f, t, f, d).gen # 0
      /\ Proper(Range2(f, t))
  BY RowIsOK DEF Proper
<1> QED BY <1>1, Zenon DEF RowOK

\* TypeInv after a step of p that changes no range but its own.
LEMMA ProverTypes ==
  ASSUME TypeInv, NEW p \in Provers, NEW l \in Pcs, Goto(p, l),
         NEW r \in RangeSet, proof' = [proof EXCEPT ![p] = r],
         r = NoProof \/ Proper(r),
         l \in HoldingPcs \/ (l = "sync" /\ fresh'[p]) => Proper(r),
         fresh' \in [Provers -> BOOLEAN],
         \A q \in Provers : q # p => fresh'[q] = fresh[q],
         mid' \in [Provers -> Nat], lastVerified' \in [Provers -> Nat],
         RowOK(rows)', UNCHANGED <<chainVars, sendVars>>, cleanups' = cleanups
  PROVE  TypeInv'
<1>1. /\ pc' \in [Provers -> Pcs] /\ proof' \in [Provers -> RangeSet]
      /\ \A q \in Provers : proof'[q] = NoProof \/ Proper(proof'[q])
  BY Zenon DEF TypeInv, Goto, chainVars, GoroutineTypes
<1>2. ASSUME NEW q \in Provers, Holding(q)' PROVE Proper(proof'[q])
  BY <1>2, Zenon DEF TypeInv, Goto, Holding, HoldingPcs, chainVars, GoroutineTypes
<1>3. virtual' = virtual
  BY Zenon DEF chainVars
<1> QED BY <1>1, <1>2, <1>3 DEF TypeInv, chainVars, sendVars, RowOK, Proper, Sending,
           ChainTypes, GoroutineTypes, SenderTypes

LEMMA NoProofOK == NoProof \in RangeSet
BY Zenon DEF NoProof, Range2, RangeSet

LEMMA ReturnTypes ==
  ASSUME TypeInv, NEW p \in Provers, NEW l \in OtherPcs,
         Return(p, l), RowOK(rows)', UNCHANGED <<chainVars, sendVars>>, cleanups' = cleanups
  PROVE  TypeInv'
<1>1. fresh' \in [Provers -> BOOLEAN] /\ \A q \in Provers : q # p => fresh'[q] = fresh[q]
  BY Zenon DEF TypeInv, Return, GoroutineTypes, SenderTypes
<1>2. mid' \in [Provers -> Nat] /\ lastVerified' \in [Provers -> Nat]
  BY Zenon DEF TypeInv, Return, ChainTypes, RowOK, GoroutineTypes
<1>3. Goto(p, l) /\ proof' = [proof EXCEPT ![p] = NoProof]
  BY Zenon DEF Return
<1>4. l \in Pcs /\ l \notin HoldingPcs /\ l # "sync"
  BY Zenon DEF Pcs, HoldingPcs, OtherPcs
<1> QED BY <1>1, <1>2, <1>3, <1>4, NoProofOK, ProverTypes, Zenon

LEMMA StayTypes ==
  ASSUME TypeInv, NEW p \in Provers, NEW l \in Pcs, Goto(p, l),
         l \in HoldingPcs \/ (l = "sync" /\ fresh'[p]) => Holding(p),
         fresh' \in [Provers -> BOOLEAN],
         \A q \in Provers : q # p => fresh'[q] = fresh[q],
         mid' \in [Provers -> Nat], lastVerified' \in [Provers -> Nat], UNCHANGED proof,
         RowOK(rows)', UNCHANGED <<chainVars, sendVars>>, cleanups' = cleanups
  PROVE  TypeInv'
<1>1. proof' = [proof EXCEPT ![p] = proof[p]] /\ proof[p] \in RangeSet
  BY Zenon DEF TypeInv, GoroutineTypes
<1>2. /\ proof[p] = NoProof \/ Proper(proof[p])
      /\ Holding(p) => Proper(proof[p])
  BY Zenon DEF TypeInv, GoroutineTypes
<1> QED BY <1>1, <1>2, ProverTypes, Zenon

LEMMA NotBuiltTypes ==
  ASSUME TypeInv, NEW p \in Provers, Holding(p), ReturnNotBuilt(p), RowOK(rows)',
         UNCHANGED <<chainVars, sendVars>>, cleanups' = cleanups
  PROVE  TypeInv'
<1>1. CASE fresh[p]
  <2>1. /\ Goto(p, "store") /\ UNCHANGED <<proof, mid>>
        /\ fresh' = [fresh EXCEPT ![p] = FALSE]
        /\ lastVerified' = [lastVerified EXCEPT ![p] = 0]
    BY <1>1, Zenon DEF ReturnNotBuilt
  <2>2. /\ fresh' \in [Provers -> BOOLEAN] /\ \A q \in Provers : q # p => fresh'[q] = fresh[q]
        /\ mid' \in [Provers -> Nat] /\ lastVerified' \in [Provers -> Nat]
    BY <2>1, Zenon DEF TypeInv, ChainTypes, RowOK, GoroutineTypes
  <2>3. "store" \in Pcs /\ "store" \in HoldingPcs
    BY Zenon DEF Pcs, HoldingPcs
  <2> QED BY <2>1, <2>2, <2>3, StayTypes, Zenon
<1>2. CASE ~fresh[p]
  <2>1. Return(p, "aggregate")
    BY <1>2, Zenon DEF ReturnNotBuilt
  <2>2. "aggregate" \in OtherPcs
    BY Zenon DEF OtherPcs
  <2> QED BY <2>1, <2>2, ReturnTypes, Zenon
<1> QED BY <1>1, <1>2, Zenon

\* The steps of a prover, one by one.
LEMMA TypeChannel ==
  ASSUME TypeInv, NEW p \in Provers, Channel(p)
  PROVE  TypeInv'
<1> USE DEF Pcs, HoldingPcs, OtherPcs
<1>0. /\ RowOK(rows) /\ virtual \in Nat
      /\ \A q \in Provers : proof[q] \in RangeSet /\ fresh[q] \in BOOLEAN /\ mid[q] \in Nat
      /\ mid \in [Provers -> Nat] /\ lastVerified \in [Provers -> Nat]
      /\ fresh \in [Provers -> BOOLEAN] /\ verified \in Nat
      /\ \A r \in rows : Proper(r) /\ r \in RowSet
  BY DEF TypeInv, RowOK, ChainTypes, GoroutineTypes
<1>u. UNCHANGED <<chainVars, sendVars>> \/ SendFinalProof(p)
  BY Zenon DEF Channel, CanVerifyProof, WaitSynced, LockProofReadyToVerify,
     ValidateEligible, BuildFinalProof, LockProofsToAggregate, AggregatedProof,
     LockBatchToProve, BatchProof, StoreProof
<1>b. cleanups' = cleanups
  BY Zenon DEF Channel, CanVerifyProof, WaitSynced, LockProofReadyToVerify,
     ValidateEligible, BuildFinalProof, SendFinalProof, LockProofsToAggregate,
     AggregatedProof, LockBatchToProve, BatchProof, StoreProof, MayFail, boundVars
<1>r. ASSUME UNCHANGED chainVars, RowOK(rows') PROVE RowOK(rows)'
  BY <1>r, Zenon DEF chainVars, RowOK, Proper
<1>1. CASE CanVerifyProof(p)
  <2>1. RowOK(rows)'
    BY <1>0, <1>1, <1>r, Zenon DEF CanVerifyProof
  <2>2. PICK l \in Pcs : Goto(p, l) /\ (l \in HoldingPcs \/ (l = "sync" /\ fresh'[p]) => Holding(p))
    <3>1. CASE due /\ ~verifyingProof
      <4>1. Goto(p, "sync") /\ (fresh'[p] => Holding(p))
        BY <1>0, <1>1, <3>1, Zenon DEF CanVerifyProof, Holding
      <4> QED BY <4>1
    <3>2. CASE ~(due /\ ~verifyingProof)
      <4>1. IF pc[p] = "tryFinal" THEN Goto(p, "store") ELSE Goto(p, "aggregate")
        BY <1>1, <3>2, Zenon DEF CanVerifyProof
      <4> QED BY <4>1 DEF Holding
    <3> QED BY <3>1, <3>2, Zenon
  <2>3. /\ fresh' \in [Provers -> BOOLEAN] /\ \A q \in Provers : q # p => fresh'[q] = fresh[q]
        /\ UNCHANGED <<proof, mid, lastVerified, chainVars, sendVars>>
    BY <1>0, <1>1, Zenon DEF CanVerifyProof
  <2> QED BY <1>0, <1>b, <2>1, <2>2, <2>3, StayTypes, Zenon
<1>2. CASE WaitSynced(p)
  <2>1. RowOK(rows)'
    BY <1>0, <1>2, <1>r, Zenon DEF WaitSynced
  <2>2. PICK l \in Pcs : Goto(p, l) /\ l # "sync" /\ (l \in HoldingPcs => Holding(p))
    BY <1>0, <1>2 DEF WaitSynced, Holding
  <2>3. /\ lastVerified' \in [Provers -> Nat]
        /\ UNCHANGED <<proof, mid, fresh, chainVars, sendVars>>
    BY <1>0, <1>2, Zenon DEF WaitSynced
  <2> QED BY <1>0, <1>b, <2>1, <2>2, <2>3, StayTypes, Zenon
<1>3. CASE LockProofReadyToVerify(p)
  <2>u. UNCHANGED <<chainVars, sendVars>>
    BY <1>3, Zenon DEF LockProofReadyToVerify
  <2>1. CASE Return(p, "aggregate") /\ UNCHANGED rows
    BY <2>1, <2>u, <1>0, <1>b, <1>r, ReturnTypes, Zenon
  <2>2. CASE \E r \in ReadyToVerify(lastVerified[p]) :
               /\ rows' = Updated(rows, r, r.from)
               /\ proof' = [proof EXCEPT ![p] = Range2(r.from, r.to)]
               /\ lastVerified' = [lastVerified EXCEPT ![p] = 0]
               /\ Goto(p, "build")
               /\ UNCHANGED <<mid, fresh>>
    <3>1. PICK r \in rows :
               /\ rows' = Updated(rows, r, r.from)
               /\ proof' = [proof EXCEPT ![p] = Range2(r.from, r.to)]
               /\ lastVerified' = [lastVerified EXCEPT ![p] = 0]
               /\ Goto(p, "build")
               /\ UNCHANGED <<mid, fresh>>
      BY <2>2, Zenon DEF ReadyToVerify
    <3>2. r.from \in Nat /\ r.to \in Nat /\ Proper(r)
      BY <1>0, Zenon DEF RowSet
    <3>3. Range2(r.from, r.to) \in RangeSet /\ Proper(Range2(r.from, r.to))
      BY <3>2, Zenon DEF Range2, RangeSet, Proper
    <3>4. RowOK(rows)'
      BY <1>0, <3>1, <3>2, <2>u, <1>r, UpdatedOK, Zenon
    <3>5. lastVerified' \in [Provers -> Nat]
      BY <1>0, <3>1, Zenon
    <3> QED BY <1>0, <1>b, <2>u, <3>1, <3>3, <3>4, <3>5, ProverTypes, Zenon
  <2> QED BY <1>3, <2>1, <2>2, Zenon DEF LockProofReadyToVerify
<1>4. CASE ValidateEligible(p)
  <2>u. UNCHANGED <<chainVars, sendVars>> /\ Holding(p)
    BY <1>4, Zenon DEF ValidateEligible, Holding
  <2>1. CASE /\ Goto(p, "build")
             /\ lastVerified' = [lastVerified EXCEPT ![p] = 0]
             /\ UNCHANGED <<rows, proof, mid, fresh>>
    <3>1. lastVerified' \in [Provers -> Nat] /\ RowOK(rows)'
      BY <1>0, <2>1, <2>u, <1>r, Zenon
    <3> QED BY <1>0, <1>b, <2>u, <2>1, <3>1, StayTypes, Zenon
  <2>2. CASE /\ rows' = IF proof[p].to <= lastVerified[p]
                          THEN Without(rows, proof[p].from, proof[p].to) ELSE rows
             /\ ReturnNotBuilt(p)
    <3>1. RowOK(rows')
      BY <1>0, <2>2, Zenon DEF Without, RowOK
    <3> QED BY <1>b, <2>u, <2>2, <3>1, <1>r, NotBuiltTypes, Zenon
  <2> QED BY <1>4, <2>1, <2>2, Zenon DEF ValidateEligible
<1>5. CASE BuildFinalProof(p)
  <2>u. UNCHANGED <<chainVars, sendVars>> /\ Holding(p)
    BY <1>5, Zenon DEF BuildFinalProof, Holding
  <2>1. CASE Goto(p, "send") /\ UNCHANGED <<rows, proof, mid, fresh, lastVerified>>
    BY <1>0, <1>b, <2>u, <2>1, <1>r, StayTypes, Zenon
  <2>2. CASE /\ rows' = IF fresh[p] THEN rows ELSE Updated(rows, proof[p], 0)
             /\ ReturnNotBuilt(p)
    <3>1. RowOK(rows')
      BY <1>0, <2>2, UpdatedOK, Zenon
    <3> QED BY <1>b, <2>u, <2>2, <3>1, <1>r, NotBuiltTypes, Zenon
  <2> QED BY <1>5, <2>1, <2>2, Zenon DEF BuildFinalProof
<1>6. CASE SendFinalProof(p)
  <2>1. /\ Holding(p) /\ pc' = [pc EXCEPT ![p] = IF fresh[p] THEN "final" ELSE "aggregate"]
        /\ proof' = [proof EXCEPT ![p] = NoProof] /\ mid' = [mid EXCEPT ![p] = 0]
        /\ fresh' = [fresh EXCEPT ![p] = FALSE]
        /\ lastVerified' = [lastVerified EXCEPT ![p] = 0]
        /\ sent' = proof[p] /\ UNCHANGED <<virtual, verified, ethVerified, rows, monitored>>
    BY <1>6, Zenon DEF SendFinalProof, Return, Goto, Holding, chainVars
  <2>2. Proper(proof[p])
    BY <2>1, Zenon DEF TypeInv, GoroutineTypes
  <2>3. \A q \in Provers : q # p => (Holding(q)' <=> Holding(q)) /\ proof'[q] = proof[q]
    BY <2>1 DEF Holding
  <2>4. ~Holding(p)' /\ proof'[p] = NoProof
    BY <2>1, Zenon DEF TypeInv, Holding, GoroutineTypes
  <2> QED BY <1>0, <1>b, <2>1, <2>2, <2>3, <2>4, NoProofOK, Zenon DEF TypeInv, Proper,
             ChainTypes, RowOK, GoroutineTypes, SenderTypes
<1>7. CASE LockProofsToAggregate(p)
  <2>u. UNCHANGED <<chainVars, sendVars, fresh, lastVerified>>
    BY <1>7, Zenon DEF LockProofsToAggregate
  <2>1. CASE Goto(p, "generate") /\ UNCHANGED <<rows, proof, mid>>
    BY <1>0, <1>b, <2>u, <2>1, <1>r, StayTypes, Zenon
  <2>2. CASE \E a \in ToAggregate :
          /\ rows' = Updated(Updated(rows, a[1], a[1].from), a[2], a[1].from)
          /\ proof' = [proof EXCEPT ![p] = Range2(a[1].from, a[2].to)]
          /\ mid' = [mid EXCEPT ![p] = a[1].to]
          /\ Goto(p, "aggregating")
    <3>1. PICK r \in rows, s \in rows :
          /\ rows' = Updated(Updated(rows, r, r.from), s, r.from)
          /\ proof' = [proof EXCEPT ![p] = Range2(r.from, s.to)]
          /\ mid' = [mid EXCEPT ![p] = r.to]
          /\ Goto(p, "aggregating")
          /\ r.to = s.from - 1
      BY <2>2, Zenon DEF ToAggregate
    <3>2. /\ r.from \in Nat /\ r.to \in Nat /\ s.from \in Nat /\ s.to \in Nat
          /\ Proper(r) /\ Proper(s)
      BY <1>0, Zenon DEF RowSet
    <3>3. Range2(r.from, s.to) \in RangeSet /\ Proper(Range2(r.from, s.to))
      BY <1>0, <3>1, <3>2 DEF Range2, RangeSet, Proper
    <3>4. RowOK(rows)'
      BY <1>0, <3>1, <3>2, <2>u, <1>r, UpdatedOK, Zenon
    <3>5. mid' \in [Provers -> Nat]
      BY <1>0, <3>1, <3>2, Zenon
    <3> QED BY <1>0, <1>b, <2>u, <3>1, <3>3, <3>4, <3>5, ProverTypes, Zenon
  <2> QED BY <1>7, <2>1, <2>2, Zenon DEF LockProofsToAggregate
<1>8. CASE AggregatedProof(p)
  <2>u. UNCHANGED <<chainVars, sendVars>> /\ Holding(p)
    BY <1>8, Zenon DEF AggregatedProof, Holding
  <2>0. Proper(proof[p]) /\ proof[p].from \in Nat /\ proof[p].to \in Nat
    BY <2>u, <1>0, Zenon DEF TypeInv, RangeSet, ChainTypes, RowOK, GoroutineTypes,
       SenderTypes
  <2>1. CASE /\ rows' = Without(rows, proof[p].from, proof[p].to)
                          \cup {Row(proof[p].from, proof[p].to, proof[p].from, TRUE)}
             /\ Goto(p, "tryFinal")
             /\ mid' = [mid EXCEPT ![p] = 0]
             /\ UNCHANGED <<proof, fresh, lastVerified>>
    <3>0. RowOK(Without(rows, proof[p].from, proof[p].to))
      BY <1>0, Zenon DEF Without, RowOK
    <3>1. RowOK(rows')
      BY <2>0, <2>1, <3>0, AddedOK, Zenon DEF Proper
    <3>2. mid' \in [Provers -> Nat]
      BY <1>0, <2>1, Zenon
    <3> QED BY <1>0, <1>b, <2>u, <2>1, <3>1, <3>2, <1>r, StayTypes, Zenon
  <2>2. CASE rows' = UnlockProofs(p) /\ Return(p, "generate")
    <3>1. RowOK(rows')
      BY <1>0, <2>2, UpdatedOK, Zenon DEF UnlockProofs
    <3> QED BY <1>b, <2>u, <2>2, <3>1, <1>r, ReturnTypes, Zenon
  <2> QED BY <1>8, <2>1, <2>2, Zenon DEF AggregatedProof
<1>9. CASE LockBatchToProve(p)
  <2>u. UNCHANGED <<chainVars, sendVars, mid, fresh, lastVerified>>
    BY <1>9, Zenon DEF LockBatchToProve
  <2>1. CASE Goto(p, "final") /\ UNCHANGED <<rows, proof>>
    BY <1>0, <1>b, <2>u, <2>1, <1>r, StayTypes, Zenon
  <2>2. CASE \E b \in ToProve :
               /\ rows' = rows \cup {Row(b, b, b, FALSE)}
               /\ proof' = [proof EXCEPT ![p] = Range2(b, b)]
               /\ Goto(p, "generating")
    <3>2. PICK b \in ToProve :
               /\ rows' = rows \cup {Row(b, b, b, FALSE)}
               /\ proof' = [proof EXCEPT ![p] = Range2(b, b)]
               /\ Goto(p, "generating")
      BY <2>2, Zenon
    <3>3. b \in Nat /\ 1 <= b /\ b <= virtual
      BY <1>0, <3>2 DEF ToProve
    <3>5. RowOK(rows') /\ Proper(Range2(b, b))
      <4>1. b <= b /\ FALSE \in BOOLEAN
        BY <3>3
      <4> QED BY <1>0, <3>2, <3>3, <4>1, AddedOK, Zenon
    <3>6. Range2(b, b) \in RangeSet
      BY <3>3, RowIsOK, Zenon
    <3> QED BY <1>0, <1>b, <2>u, <3>2, <3>5, <3>6, <1>r, ProverTypes, Zenon
  <2> QED BY <1>9, <2>1, <2>2, Zenon DEF LockBatchToProve
<1>10. CASE BatchProof(p)
  <2>u. UNCHANGED <<chainVars, sendVars>> /\ Holding(p)
    BY <1>10, Zenon DEF BatchProof, Holding
  <2>1. CASE Goto(p, "tryFinal") /\ UNCHANGED <<rows, proof, mid, fresh, lastVerified>>
    BY <1>0, <1>b, <2>u, <2>1, <1>r, StayTypes, Zenon
  <2>2. CASE rows' = Without(rows, proof[p].from, proof[p].to) /\ Return(p, "final")
    <3>1. RowOK(rows')
      BY <1>0, <2>2, Zenon DEF Without, RowOK
    <3> QED BY <1>b, <2>u, <2>2, <3>1, <1>r, ReturnTypes, Zenon
  <2> QED BY <1>10, <2>1, <2>2, Zenon DEF BatchProof
<1>11. CASE StoreProof(p)
  <2>1. RowOK(rows')
    BY <1>0, <1>11, UpdatedOK, Zenon DEF StoreProof
  <2>2. Return(p, "final") /\ UNCHANGED <<chainVars, sendVars>>
    BY <1>11, Zenon DEF StoreProof
  <2> QED BY <1>b, <2>2, <2>1, <1>r, ReturnTypes, Zenon
<1> QED BY <1>1, <1>2, <1>3, <1>4, <1>5, <1>6, <1>7, <1>8, <1>9, <1>10, <1>11, Zenon
           DEF Channel

LEMMA TypeStep ==
  ASSUME TypeInv, [Next]_vars
  PROVE  TypeInv'
<1> USE DEF Pcs, HoldingPcs, OtherPcs
<1>0. /\ RowOK(rows) /\ virtual \in Nat /\ NumBatches \in Nat
  BY ConstantsAssumption DEF TypeInv, ChainTypes, GoroutineTypes
<1>r. ASSUME UNCHANGED chainVars, RowOK(rows') PROVE RowOK(rows)'
  BY <1>r, Zenon DEF chainVars, RowOK, Proper
<1>1. ASSUME NEW p \in Provers, Channel(p) PROVE TypeInv'
  BY <1>1, TypeChannel, Zenon
<1>p. ASSUME UNCHANGED proverVars, UNCHANGED virtual, UNCHANGED <<verified, ethVerified>>, RowOK(rows'),
             sent' \in RangeSet, sent' = NoProof \/ Proper(sent'), Sending' => Proper(sent'),
             monitored' \subseteq RangeSet, \A m \in monitored' : Proper(m), cleanups' \in Nat
      PROVE  TypeInv'
  BY <1>p, Zenon DEF TypeInv, proverVars, RowOK, Proper, Holding, ChainTypes,
     GoroutineTypes, SenderTypes
<1>2. CASE StartProofVerification
  <2>1. /\ UNCHANGED <<proverVars, virtual, verified, ethVerified, rows, sent, monitored, cleanups>>
        /\ Sending
    BY <1>2, Zenon DEF StartProofVerification, chainVars, boundVars, Sending
  <2> QED BY <1>0, <1>p, <2>1, Zenon DEF TypeInv, SenderTypes
<1>3. CASE AddToBeMonitored
  <2>1. /\ UNCHANGED <<proverVars, virtual, verified, ethVerified, rows, sent, cleanups>>
        /\ Sending /\ monitored' = monitored \cup {sent}
    BY <1>3, Zenon DEF AddToBeMonitored, chainVars, boundVars, Sending
  <2> QED BY <1>0, <1>p, <2>1, Zenon DEF TypeInv, SenderTypes
<1>4. CASE AddFails \/ GetBatchFails
  <2>1. /\ UNCHANGED <<proverVars, virtual, verified, ethVerified, monitored, cleanups>>
        /\ ~Sending' /\ sent' = NoProof
        /\ rows' \in {rows, Updated(rows, sent, 0)}
    BY <1>4, Zenon DEF AddFails, GetBatchFails, MayFail, chainVars, boundVars, Sending
  <2>2. RowOK(rows')
    BY <1>0, <2>1, UpdatedOK, Zenon
  <2> QED BY <1>p, <2>1, <2>2, NoProofOK, Zenon DEF TypeInv, SenderTypes
<1>5. CASE HandleMonitoredTxResult
  <2>1. /\ UNCHANGED <<proverVars, virtual, verified, ethVerified, cleanups, sent, sendPc>>
        /\ monitored' \subseteq monitored /\ rows' \subseteq rows
    BY <1>5, Zenon DEF HandleMonitoredTxResult, chainVars, boundVars
  <2>2. RowOK(rows')
    BY <1>0, <2>1, Zenon DEF RowOK
  <2> QED BY <1>p, <2>1, <2>2, Zenon DEF TypeInv, Sending, SenderTypes
<1>6. CASE EndProofVerification
  <2>1. /\ UNCHANGED <<proverVars, virtual, verified, ethVerified, rows, monitored, cleanups>>
        /\ ~Sending' /\ sent' = NoProof
    BY <1>6, Zenon DEF EndProofVerification, chainVars, boundVars, Sending
  <2> QED BY <1>0, <1>p, <2>1, NoProofOK, Zenon DEF TypeInv, ChainTypes, SenderTypes
<1>7. CASE Start
  <2>1. /\ UNCHANGED <<virtual, verified, ethVerified, monitored, cleanups, sent,
                       proof, mid, fresh, lastVerified>>
        /\ ~Sending' /\ rows' \subseteq rows /\ pc' = [p \in Provers |-> "final"]
    BY <1>7, Zenon DEF Start, chainVars, boundVars, Sending
  <2>2. \A p \in Provers : ~Holding(p)'
    BY <2>1, Zenon DEF Holding
  <2> QED BY <2>1, <2>2, Zenon DEF TypeInv, Proper, ChainTypes, RowOK, GoroutineTypes,
             SenderTypes
<1>8. CASE SyncSequence
  <2>1. PICK q \in Sequences : q[1] = virtual + 1 /\ virtual' = q[2]
    BY <1>8, Zenon DEF SyncSequence
  <2>2. q[2] \in Batches /\ q[1] \in Nat /\ q[2] \in Nat /\ q[1] <= q[2]
    BY ConstantsAssumption DEF Batches
  <2>3. virtual' \in 1 .. NumBatches /\ virtual <= virtual'
    BY <1>0, <2>1, <2>2, ConstantsAssumption
  <2>4. UNCHANGED <<verified, ethVerified, rows, proverVars, sendVars, cleanups>>
    BY <1>8, Zenon DEF SyncSequence, boundVars
  <2>5. \A r : r.to \in Nat /\ Proper(r) => 1 <= r.from /\ r.from <= r.to /\ r.to <= virtual'
    BY <1>0, <2>3 DEF Proper
  <2>6. /\ \A r \in rows : r.to \in Nat
        /\ \A p \in Provers : proof[p].to \in Nat
        /\ sent.to \in Nat /\ \A m \in monitored : m.to \in Nat
    BY Zenon DEF TypeInv, RowSet, RangeSet, RowOK, GoroutineTypes, SenderTypes
  <2>7. /\ \A p \in Provers : Holding(p)' <=> Holding(p)
        /\ Sending' <=> Sending
    BY <2>4, Zenon DEF proverVars, sendVars, Holding, Sending
  <2> QED BY <1>0, <2>3, <2>4, <2>5, <2>6, <2>7 DEF TypeInv, Proper, proverVars,
             sendVars, ChainTypes, RowOK, GoroutineTypes, SenderTypes
<1>9. CASE MineVerification
  <2>1. PICK m \in monitored : m.to > ethVerified /\ ethVerified' = m.to
    BY <1>9, Zenon DEF MineVerification
  <2>2. m.to \in Nat /\ m.to <= virtual
    BY Zenon DEF TypeInv, RangeSet, Proper, SenderTypes
  <2>3. UNCHANGED <<virtual, verified, rows, proverVars, sendVars, cleanups>>
    BY <1>9, Zenon DEF MineVerification, boundVars
  <2>7. /\ \A p \in Provers : Holding(p)' <=> Holding(p)
        /\ Sending' <=> Sending
    BY <2>3, Zenon DEF proverVars, sendVars, Holding, Sending
  <2> QED BY <2>1, <2>2, <2>3, <2>7 DEF TypeInv, Proper, proverVars, sendVars,
             ChainTypes, RowOK, GoroutineTypes, SenderTypes
<1>10. CASE SyncVerification
  <2>3. /\ UNCHANGED <<virtual, ethVerified, rows, proverVars, sendVars, cleanups>>
        /\ verified' = ethVerified
    BY <1>10, Zenon DEF SyncVerification, boundVars
  <2>7. /\ \A p \in Provers : Holding(p)' <=> Holding(p)
        /\ Sending' <=> Sending
    BY <2>3, Zenon DEF proverVars, sendVars, Holding, Sending
  <2> QED BY <2>3, <2>7 DEF TypeInv, Proper, proverVars, sendVars, ChainTypes, RowOK,
             GoroutineTypes, SenderTypes
<1>11. CASE VerifyTimeReached \/ UNCHANGED vars
  <2>1. /\ UNCHANGED <<proverVars, virtual, verified, ethVerified, rows, sent, monitored, cleanups>>
        /\ UNCHANGED sendPc
    BY <1>11, Zenon DEF VerifyTimeReached, chainVars, boundVars, vars, aggregatorVars,
       sendVars
  <2> QED BY <1>0, <1>p, <2>1, Zenon DEF TypeInv, Sending, SenderTypes
<1>12. CASE CleanupLockedProofs
  <2>1. /\ UNCHANGED <<proverVars, virtual, verified, ethVerified, sent, monitored, sendPc>>
        /\ rows' \subseteq rows /\ cleanups' \in {cleanups, cleanups + 1}
    BY <1>12, Zenon DEF CleanupLockedProofs, chainVars, sendVars
  <2>2. RowOK(rows') /\ cleanups' \in Nat
    BY <1>0, <2>1 DEF RowOK, TypeInv
  <2> QED BY <1>p, <2>1, <2>2, Zenon DEF TypeInv, Sending, RowOK, GoroutineTypes,
             SenderTypes
<1>13. CASE Restart
  <2>1. /\ UNCHANGED <<virtual, verified, ethVerified, monitored, cleanups, rows>>
        /\ ~Sending' /\ sent' = NoProof
        /\ pc' = [p \in Provers |-> "off"] /\ proof' = [p \in Provers |-> NoProof]
        /\ mid' = [p \in Provers |-> 0] /\ fresh' = [p \in Provers |-> FALSE]
        /\ lastVerified' = [p \in Provers |-> 0]
    BY <1>13, Zenon DEF Restart, Idle, chainVars, boundVars, Sending
  <2>2. \A p \in Provers : ~Holding(p)'
    BY <2>1, Zenon DEF Holding
  <2> QED BY <2>1, <2>2, NoProofOK, Zenon DEF TypeInv, Proper, ChainTypes, RowOK,
             GoroutineTypes, SenderTypes
<1> QED BY <1>1, <1>2, <1>3, <1>4, <1>5, <1>6, <1>7, <1>8, <1>9, <1>10, <1>11, <1>12,
           <1>13, Zenon DEF Next, Sender, Chain

-----------------------------------------------------------------------------
(* What a step of a prover does to the ranges in other hands.              *)

Safe == SenderInv /\ ProverInv /\ StampInv

\* The ranges that other provers and the sender have in hand.
Others(p) == {proof[q] : q \in {q \in Provers \ {p} : Holding(q)}}
               \cup {h \in {sent} : Sending}

LEMMA OthersAre ==
  ASSUME NEW p \in Provers
  PROVE  /\ \A q \in Provers : q # p /\ Holding(q) => proof[q] \in Others(p)
         /\ Sending => sent \in Others(p)
         /\ \A h \in Others(p) :
              (\E q \in Provers : q # p /\ Holding(q) /\ h = proof[q]) \/ (Sending /\ h = sent)
BY Zenon DEF Others

LEMMA OthersProper ==
  ASSUME TypeInv, NEW p \in Provers, NEW h \in Others(p)
  PROVE  h \in RangeSet /\ Proper(h)
BY OthersAre DEF TypeInv, GoroutineTypes, SenderTypes

\* A range in another hand is locked, but for that of a tx that was verified.
LEMMA OthersLocked ==
  ASSUME TypeInv, Safe, NEW p \in Provers, NEW h \in Others(p)
  PROVE  Locked(rows, h) \/ (h.to = ethVerified /\ verified = ethVerified /\ monitored = {})
<1>1. ASSUME NEW q \in Provers, Holding(q), h = proof[q] PROVE Locked(rows, h)
  BY <1>1, Zenon DEF Safe, ProverInv, HeldLocked
<1>2. ASSUME Sending, h = sent
      PROVE  Locked(rows, h) \/ (h.to = ethVerified /\ verified = ethVerified /\ monitored = {})
  <2>1. CASE sendPc \in {"start", "add"}
    BY <1>2, <2>1, Zenon DEF Safe, SenderInv, SentInv
  <2>2. CASE sendPc = "wait" /\ monitored = {}
    BY <1>2, <2>2, Zenon DEF Safe, SenderInv, QuietInv, SentInv
  <2>3. CASE sendPc = "wait" /\ monitored # {}
    BY <1>2, <2>3, Zenon DEF Safe, SenderInv, QuietInv, MonitoredInv, SentInv
  <2> QED BY <1>2, <2>1, <2>2, <2>3, Zenon DEF Sending
<1> QED BY <1>1, <1>2, OthersAre, Zenon

\* A row without a lock, and a batch without a row, are in nobody's hand.
LEMMA FreeRow ==
  ASSUME TypeInv, Safe, NEW p \in Provers, NEW r \in rows, r.gen = 0, NEW h \in Others(p)
  PROVE  Disjoint(r, h)
<1>1. r \in RowSet /\ h \in RangeSet /\ Proper(h)
  BY OthersProper, Zenon DEF TypeInv, RowOK
<1>2. CASE Locked(rows, h)
  BY <1>1, <1>2 DEF Locked, Proper
<1>3. CASE h.to = ethVerified /\ verified = ethVerified /\ monitored = {}
  BY <1>1, <1>3, Zenon DEF Safe, SenderInv, Disjoint, QuietInv
<1> QED BY <1>2, <1>3, OthersLocked, Zenon

LEMMA FreeBatch ==
  ASSUME TypeInv, Safe, NEW p \in Provers, NEW b \in ToProve, NEW h \in Others(p)
  PROVE  b < h.from \/ h.to < b
<1>1. h \in RangeSet /\ Proper(h) /\ verified \in Nat /\ virtual \in Nat
  BY OthersProper DEF TypeInv, ChainTypes
<1>2. b \in Nat /\ b > verified /\ ~Covered(b)
  BY <1>1 DEF ToProve
<1>3. CASE Locked(rows, h)
  BY <1>1, <1>2, <1>3 DEF Locked, Covered, RangeSet
<1>4. CASE h.to = ethVerified /\ verified = ethVerified /\ monitored = {}
  BY <1>1, <1>2, <1>4, Zenon
<1> QED BY <1>3, <1>4, OthersLocked, Zenon

LEMMA HeldApart ==
  ASSUME Safe, NEW p \in Provers, Holding(p), NEW h \in Others(p)
  PROVE  Disjoint(proof[p], h)
BY OthersAre DEF Safe, ProverInv, HeldDisjoint, SentDisjoint

LEMMA ProverStep ==
  ASSUME TypeInv, Safe, NEW p \in Provers, pc[p] # "off",
         UNCHANGED <<chainVars, sendVars>>,
         \A q \in Provers : q # p =>
           /\ pc'[q] = pc[q] /\ proof'[q] = proof[q] /\ mid'[q] = mid[q]
           /\ fresh'[q] = fresh[q] /\ lastVerified'[q] = lastVerified[q],
         Apart(rows'), rows' \subseteq RowSet,
         \A r \in rows' : (\E s \in rows : s.from <= r.from) \/ r.from > verified,
         \A h \in Others(p) : Locked(rows, h) =>
           /\ Locked(rows', h)
           /\ \A s \in rows' : Within(s, h) => \E t \in rows : t.from = s.from /\ t.to = s.to,
         Holding(p)' => /\ Locked(rows', proof'[p])
                        /\ \A h \in Others(p) : Disjoint(proof'[p], h),
         OwnInv(p)',
         \A r \in rows' : \/ r.gen = 0 \/ r.gen = r.from
                          \/ r \in rows /\ ~(pc[p] = "aggregating" /\ Within(r, proof[p]))
                          \/ pc'[p] = "aggregating" /\ Within(r, proof'[p])
  PROVE  Safe'
<1>0. /\ sendPc # "boot" /\ UNCHANGED <<virtual, verified, ethVerified, sendPc, sent, monitored>>
      /\ verified \in Nat /\ ethVerified \in Nat /\ rows \subseteq RowSet
  BY Zenon DEF Safe, ProverInv, chainVars, sendVars, TypeInv, ChainTypes, RowOK,
     GoroutineTypes, SenderTypes
<1>1. SenderInv'
  <2>1. ASSUME monitored = {}, NEW r \in rows' PROVE r.from > ethVerified
    BY <1>0, <2>1 DEF Safe, SenderInv, RowSet, QuietInv
  <2>2. ASSUME NEW m \in monitored PROVE Locked(rows', m) /\ \A r \in rows' : m.from <= r.from
    <3>1. /\ Locked(rows, m) /\ m \in Others(p) /\ m.from \in Nat
          /\ \A r \in rows : m.from <= r.from
          /\ m.from - 1 <= verified
      BY <1>0, OthersAre DEF Safe, SenderInv, Sending, TypeInv, RangeSet, Proper,
         ChainTypes, RowOK, GoroutineTypes, SenderTypes, QuietInv, MonitoredInv, SentInv
    <3>2. \A r \in rows' : m.from <= r.from
      BY <1>0, <3>1 DEF RowSet
    <3> QED BY <3>1, <3>2, Zenon
  <2>3. ASSUME sendPc \in {"start", "add"} PROVE Locked(rows', sent)
    BY <2>3, OthersAre, Zenon DEF Safe, SenderInv, Sending, SentInv
  <2> QED BY <1>0, <2>1, <2>2, <2>3, Zenon DEF Safe, SenderInv, QuietInv, MonitoredInv,
             SentInv
<1>h. \A q \in Provers : q # p => (Holding(q)' <=> Holding(q))
  BY Zenon DEF Holding
<1>2. \A q \in Provers : Holding(q)' => Locked(rows', proof'[q])
  BY <1>h, OthersAre, Zenon DEF Safe, ProverInv, HeldLocked
<1>3. \A q, o \in Provers :
        q # o /\ Holding(q)' /\ Holding(o)' => Disjoint(proof'[q], proof'[o])
  BY <1>h, OthersAre DEF Safe, ProverInv, Disjoint, HeldDisjoint, SentDisjoint
<1>4. Sending' => \A q \in Provers : Holding(q)' => Disjoint(proof'[q], sent')
  BY <1>0, <1>h, OthersAre, Zenon DEF Safe, ProverInv, Sending, SentDisjoint
<1>5. ASSUME NEW q \in Provers, q # p PROVE OwnInv(q)'
  <2>1. /\ pc'[q] = pc[q] /\ proof'[q] = proof[q] /\ mid'[q] = mid[q]
        /\ lastVerified'[q] = lastVerified[q] /\ verified' = verified
    BY <1>0, <1>5, Zenon
  <2>2. ASSUME pc[q] = "aggregating", NEW s \in rows', Within(s, proof[q])
        PROVE  \/ s.from = proof[q].from /\ s.to = mid[q]
               \/ s.from = mid[q] + 1 /\ s.to = proof[q].to
    <3>1. Holding(q)
      BY <2>2, Zenon DEF Holding
    <3>2. Locked(rows, proof[q]) /\ proof[q] \in Others(p)
      BY <1>5, <3>1, OthersAre, Zenon DEF Safe, ProverInv, HeldLocked, HeldDisjoint
    <3>3. PICK t \in rows : t.from = s.from /\ t.to = s.to
      BY <2>2, <3>2, Zenon
    <3>4. Within(t, proof[q])
      BY <2>2, <3>3, Zenon DEF Within
    <3> QED BY <2>2, <3>3, <3>4, Zenon DEF Safe, ProverInv, HeldDisjoint, OwnInv
  <2> QED BY <2>1, <2>2 DEF OwnInv, Safe, ProverInv
<1>6. ProverInv'
  BY <1>0, <1>2, <1>3, <1>4, <1>5, Zenon DEF ProverInv, HeldLocked, HeldDisjoint,
     SentDisjoint
<1>7. StampInv'
  BY <1>0 DEF StampInv, Safe
<1> QED BY <1>1, <1>6, <1>7, Zenon DEF Safe

\* A step of p changes no variable of another prover.
Mine(p) ==
  \A q \in Provers : q # p =>
    /\ pc'[q] = pc[q] /\ proof'[q] = proof[q] /\ mid'[q] = mid[q]
    /\ fresh'[q] = fresh[q] /\ lastVerified'[q] = lastVerified[q]

LEMMA ChannelMine ==
  ASSUME TypeInv, NEW p \in Provers, Channel(p)
  PROVE  Mine(p) /\ pc[p] # "off"
<1> USE DEF Mine, TypeInv, GoroutineTypes, Goto, Return, ReturnNotBuilt
<1>1. CASE CanVerifyProof(p)
  BY <1>1, Zenon DEF CanVerifyProof
<1>2. CASE WaitSynced(p)
  BY <1>2, Zenon DEF WaitSynced
<1>3. CASE LockProofReadyToVerify(p)
  BY <1>3, Zenon DEF LockProofReadyToVerify
<1>4. CASE ValidateEligible(p)
  BY <1>4 DEF ValidateEligible
<1>5. CASE BuildFinalProof(p)
  BY <1>5 DEF BuildFinalProof
<1>6. CASE SendFinalProof(p)
  BY <1>6, Zenon DEF SendFinalProof
<1>7. CASE LockProofsToAggregate(p)
  BY <1>7, Zenon DEF LockProofsToAggregate
<1>8. CASE AggregatedProof(p)
  BY <1>8, Zenon DEF AggregatedProof
<1>9. CASE LockBatchToProve(p)
  BY <1>9, Zenon DEF LockBatchToProve
<1>10. CASE BatchProof(p)
  BY <1>10, Zenon DEF BatchProof
<1>11. CASE StoreProof(p)
  BY <1>11, Zenon DEF StoreProof
<1> QED BY <1>1, <1>2, <1>3, <1>4, <1>5, <1>6, <1>7, <1>8, <1>9, <1>10, <1>11, Zenon
           DEF Channel

\* The rows and the range of p stay as they are, or p gives up nothing.
LEMMA KeepStep ==
  ASSUME TypeInv, Safe, NEW p \in Provers, pc[p] # "off", Mine(p),
         UNCHANGED <<chainVars, sendVars, rows>>, pc[p] # "aggregating",
         Holding(p)' => Holding(p) /\ proof'[p] = proof[p],
         OwnInv(p)'
  PROVE  Safe'
<1>1. rows' = rows /\ rows \subseteq RowSet /\ Apart(rows)
  BY Zenon DEF TypeInv, Safe, SenderInv, RowOK, SenderTypes, QuietInv, MonitoredInv
<1>2. Holding(p) => Locked(rows, proof[p])
  BY Zenon DEF Safe, ProverInv, HeldLocked
<1>3. \A r \in rows' : \E s \in rows : s.from <= r.from
  BY <1>1 DEF RowSet
<1> QED BY <1>1, <1>2, <1>3, HeldApart, ProverStep, Zenon DEF Mine

\* p unlocks the rows of its range and has no range any more.
LEMMA ReleaseStep ==
  ASSUME TypeInv, Safe, NEW p \in Provers, pc[p] # "off", Mine(p),
         UNCHANGED <<chainVars, sendVars>>, pc[p] # "aggregating",
         Holding(p), ~Holding(p)', pc'[p] # "lock",
         rows' = Updated(rows, proof[p], 0)
  PROVE  Safe'
<1>1. rows \subseteq RowSet /\ Apart(rows) /\ \A s \in rows : s.from <= s.to
  BY Zenon DEF TypeInv, Safe, SenderInv, Proper, RowOK, QuietInv, MonitoredInv
<1>2. rows' \subseteq RowSet /\ Apart(rows')
  BY <1>1, UpdatedRows, UpdatedApart, Zenon
<1>3. \A s \in rows' : \E t \in rows : /\ t.from = s.from /\ t.to = s.to
                                       /\ s = t \/ s.gen = 0
  BY <1>1, UpdatedRows
<1>4. \A r \in rows' : \E s \in rows : s.from <= r.from
  BY <1>1, <1>3 DEF RowSet
<1>5. \A h \in Others(p) : Locked(rows, h) => Locked(rows', h)
  BY <1>1, HeldApart, UpdatedLocked, Zenon
<1>6. OwnInv(p)'
  BY Zenon DEF OwnInv, Holding
<1>7. \A r \in rows' : r.gen = 0 \/ r \in rows
  BY <1>3, Zenon
<1> QED BY <1>2, <1>3, <1>4, <1>5, <1>6, <1>7, ProverStep, Zenon DEF Mine

\* A range in a prover's hand is after the last verified batch: neither
\* validateEligibleFinalProof nor a confirmed tx deletes its row.
LEMMA HeldIsAhead ==
  ASSUME TypeInv, Safe, NEW p \in Provers, Holding(p)
  PROVE  proof[p].from > verified
<1> DEFINE h == proof[p]
<1>0. h \in RangeSet /\ Proper(h) /\ Locked(rows, h) /\ verified \in Nat
  BY Zenon DEF TypeInv, Safe, ProverInv, ChainTypes, GoroutineTypes, HeldLocked,
     HeldDisjoint, SentDisjoint
<1> HIDE DEF h
<1>1. h.from \in h.from .. h.to
  BY <1>0 DEF RangeSet, Proper
<1>2. PICK r \in rows : h.from \in r.from .. r.to
  BY <1>0, <1>1, Zenon DEF Locked
<1>3. r \in RowSet /\ r.from = h.from /\ r.from <= r.to
  BY <1>0, <1>1, <1>2 DEF Locked, Within, Disjoint, TypeInv, RowSet, RangeSet, Proper,
     ChainTypes, RowOK, GoroutineTypes
<1>4. CASE monitored = {}
  BY <1>3, <1>4, Zenon DEF Safe, SenderInv, h, QuietInv
<1>5. ASSUME NEW m \in monitored PROVE h.from > verified
  <2>1. sendPc = "wait" /\ sent = m /\ m.from <= r.from /\ verified \in {m.from - 1, m.to}
    BY <1>5, Zenon DEF Safe, SenderInv, ProverInv, Holding, QuietInv, MonitoredInv,
       SentInv, HeldLocked, HeldDisjoint
  <2>2. Disjoint(h, m) /\ m \in RangeSet /\ Proper(m)
    BY <1>5, <2>1, Zenon DEF Safe, ProverInv, Sending, TypeInv, h, GoroutineTypes,
       SenderTypes, HeldLocked, SentDisjoint
  <2> QED BY <1>0, <1>3, <2>1, <2>2 DEF Disjoint, RangeSet, Proper
<1> QED BY <1>4, <1>5, Zenon DEF h

LEMMA SafeFinal ==
  ASSUME TypeInv, Safe, NEW p \in Provers, Channel(p),
         \/ CanVerifyProof(p) \/ WaitSynced(p) \/ LockProofReadyToVerify(p)
         \/ ValidateEligible(p) \/ BuildFinalProof(p)
  PROVE  Safe'
<1>0. /\ Mine(p) /\ pc[p] # "off" /\ proof[p] \in RangeSet /\ fresh[p] \in BOOLEAN
      /\ verified \in Nat /\ lastVerified[p] \in Nat
      /\ pc \in [Provers -> Pcs] /\ fresh \in [Provers -> BOOLEAN]
      /\ proof \in [Provers -> RangeSet] /\ lastVerified \in [Provers -> Nat]
      /\ rows \subseteq RowSet /\ Apart(rows) /\ \A s \in rows : s.from <= s.to
  BY ChannelMine, Zenon DEF TypeInv, Safe, SenderInv, Proper, ChainTypes, RowOK,
     GoroutineTypes
<1>o. OwnInv(p)
  BY Zenon DEF Safe, ProverInv
<1>1. CASE CanVerifyProof(p)
  <2>1. /\ UNCHANGED <<chainVars, sendVars, rows, proof>> /\ pc[p] # "aggregating"
        /\ pc'[p] \in {"sync", "store", "aggregate"}
        /\ Holding(p)' => Holding(p)
    BY <1>0, <1>1, Zenon DEF CanVerifyProof, Goto, Holding
  <2>2. OwnInv(p)'
    BY <2>1, Zenon DEF OwnInv
  <2> QED BY <1>0, <2>1, <2>2, KeepStep, Zenon
<1>2. CASE WaitSynced(p)
  <2>1. /\ UNCHANGED <<chainVars, sendVars, rows, proof>> /\ pc[p] # "aggregating"
        /\ pc'[p] \in {"lock", "validate"}
        /\ Holding(p)' => Holding(p)
        /\ lastVerified'[p] = verified
    BY <1>0, <1>2, Zenon DEF WaitSynced, Goto, Holding
  <2>2. OwnInv(p)'
    BY <1>0, <2>1 DEF OwnInv, chainVars
  <2> QED BY <1>0, <2>1, <2>2, KeepStep, Zenon
<1>3. CASE LockProofReadyToVerify(p)
  <2>u. UNCHANGED <<chainVars, sendVars>> /\ pc[p] = "lock" /\ lastVerified[p] <= verified
    BY <1>3, <1>o, Zenon DEF LockProofReadyToVerify, OwnInv
  <2>1. CASE Return(p, "aggregate") /\ UNCHANGED rows
    <3>1. pc'[p] = "aggregate"
      BY <1>0, <2>1, Zenon DEF Return, Goto
    <3>2. OwnInv(p)' /\ ~Holding(p)'
      BY <3>1, Zenon DEF OwnInv, Holding
    <3> QED BY <1>0, <2>u, <2>1, <3>2, KeepStep, Zenon
  <2>2. CASE \E r \in ReadyToVerify(lastVerified[p]) :
               /\ rows' = Updated(rows, r, r.from)
               /\ proof' = [proof EXCEPT ![p] = Range2(r.from, r.to)]
               /\ Goto(p, "build")
    <3>1. PICK r \in rows :
               /\ rows' = Updated(rows, r, r.from)
               /\ proof' = [proof EXCEPT ![p] = Range2(r.from, r.to)]
               /\ Goto(p, "build")
               /\ r.from = lastVerified[p] + 1 /\ r.gen = 0
               /\ r.from \in From /\ r.to \in To
      BY <2>2, Zenon DEF ReadyToVerify, Unlocked, CompleteSequences
    <3>2. /\ r.from \in Nat /\ r.to \in Nat
          /\ proof'[p] = Range2(r.from, r.to) /\ pc'[p] = "build"
          /\ proof'[p].from = r.from /\ proof'[p].to = r.to
      BY <1>0, <3>1, Zenon DEF RowSet, Goto, Range2
    <3>3. rows' \subseteq RowSet /\ Apart(rows')
      BY <1>0, <3>1, <3>2, UpdatedRows, UpdatedApart, Zenon
    <3>4. \A s \in rows' : \E t \in rows : /\ t.from = s.from /\ t.to = s.to
                                           /\ s = t \/ s.gen = s.from
      BY <1>0, <3>1, <3>2, UpdatedRows
    <3>5. \A s \in rows' : \E t \in rows : t.from <= s.from
      BY <1>0, <3>4 DEF RowSet
    <3>6. \A h \in Others(p) : Disjoint(r, h) /\ (Locked(rows, h) => Locked(rows', h))
      BY <1>0, <3>1, <3>2, FreeRow, UpdatedLocked, Zenon
    <3>7. Locked(rows', proof'[p]) /\ \A h \in Others(p) : Disjoint(proof'[p], h)
      BY <1>0, <3>1, <3>2, <3>6, LockRow, Zenon DEF Disjoint
    <3>8. OwnInv(p)'
      BY <1>0, <2>u, <3>1, <3>2 DEF OwnInv, chainVars
    <3>9. \A s \in rows' : s.gen = s.from \/ s \in rows
      BY <3>4, Zenon
    <3> QED BY <1>0, <2>u, <3>3, <3>4, <3>5, <3>6, <3>7, <3>8, <3>9, ProverStep, Zenon
               DEF Mine
  <2> QED BY <1>3, <2>1, <2>2, Zenon DEF LockProofReadyToVerify
<1>4. CASE ValidateEligible(p)
  <2>u. UNCHANGED <<chainVars, sendVars>> /\ pc[p] = "validate" /\ Holding(p)
    BY <1>4, Zenon DEF ValidateEligible, Holding
  <2>1. CASE /\ Eligible(proof[p], lastVerified[p])
             /\ Goto(p, "build") /\ UNCHANGED <<rows, proof>>
    <3>1. /\ pc'[p] = "build" /\ lastVerified[p] <= verified
          /\ proof[p].from <= lastVerified[p] + 1 /\ proof[p].from \in From /\ proof[p].to \in To
      BY <1>0, <1>o, <2>u, <2>1, Zenon DEF Eligible, CompleteSequences, Goto, OwnInv
    <3>2. OwnInv(p)'
      BY <1>0, <2>u, <2>1, <3>1 DEF OwnInv, chainVars, RangeSet
    <3> QED BY <1>0, <2>u, <2>1, <3>2, KeepStep, Zenon
  <2>2. CASE /\ rows' = IF proof[p].to <= lastVerified[p]
                          THEN Without(rows, proof[p].from, proof[p].to) ELSE rows
             /\ ReturnNotBuilt(p)
    <3>1. ~(proof[p].to <= lastVerified[p])
      BY <1>0, <1>o, <2>u, HeldIsAhead DEF OwnInv, RangeSet, TypeInv, Proper, ChainTypes,
         GoroutineTypes
    <3>2. /\ rows' = rows /\ pc'[p] \in {"store", "aggregate"}
          /\ pc'[p] = "store" => proof'[p] = proof[p]
      BY <1>0, <2>2, <3>1, Zenon DEF ReturnNotBuilt, Return, Goto
    <3>3. OwnInv(p)' /\ (Holding(p)' => proof'[p] = proof[p])
      BY <3>2, Zenon DEF OwnInv, Holding
    <3> QED BY <1>0, <2>u, <3>2, <3>3, KeepStep, Zenon
  <2> QED BY <1>4, <2>1, <2>2, Zenon DEF ValidateEligible
<1>5. CASE BuildFinalProof(p)
  <2>u. UNCHANGED <<chainVars, sendVars>> /\ pc[p] = "build" /\ Holding(p)
    BY <1>5, Zenon DEF BuildFinalProof, Holding
  <2>1. CASE Goto(p, "send") /\ UNCHANGED <<rows, proof>>
    <3>1. pc'[p] = "send"
      BY <1>0, <2>1, Zenon DEF Goto
    <3>2. OwnInv(p)'
      BY <1>o, <2>u, <2>1, <3>1, Zenon DEF OwnInv, chainVars
    <3> QED BY <1>0, <2>u, <2>1, <3>2, KeepStep, Zenon
  <2>2. CASE /\ rows' = IF fresh[p] THEN rows ELSE Updated(rows, proof[p], 0)
             /\ ReturnNotBuilt(p)
    <3>1. CASE fresh[p]
      <4>1. rows' = rows /\ pc'[p] = "store" /\ proof'[p] = proof[p]
        BY <1>0, <2>2, <3>1, Zenon DEF ReturnNotBuilt, Goto
      <4>2. OwnInv(p)'
        BY <4>1, Zenon DEF OwnInv
      <4> QED BY <1>0, <2>u, <4>1, <4>2, KeepStep, Zenon
    <3>2. CASE ~fresh[p]
      <4>1. rows' = Updated(rows, proof[p], 0) /\ pc'[p] = "aggregate"
        BY <1>0, <2>2, <3>2, Zenon DEF ReturnNotBuilt, Return, Goto
      <4>2. ~Holding(p)'
        BY <4>1, Zenon DEF Holding
      <4> QED BY <1>0, <2>u, <4>1, <4>2, ReleaseStep, Zenon
    <3> QED BY <3>1, <3>2, Zenon
  <2> QED BY <1>5, <2>1, <2>2, Zenon DEF BuildFinalProof
<1> QED BY <1>1, <1>2, <1>3, <1>4, <1>5, Zenon

LEMMA SafeLockPair ==
  ASSUME TypeInv, Safe, NEW p \in Provers, Channel(p), LockProofsToAggregate(p)
  PROVE  Safe'
<1>0. /\ Mine(p) /\ pc[p] # "off" /\ pc[p] = "aggregate"
      /\ pc \in [Provers -> Pcs] /\ proof \in [Provers -> RangeSet] /\ mid \in [Provers -> Nat]
      /\ rows \subseteq RowSet /\ Apart(rows) /\ \A s \in rows : s.from <= s.to
      /\ UNCHANGED <<chainVars, sendVars>>
  BY ChannelMine, Zenon DEF TypeInv, Safe, SenderInv, Proper, LockProofsToAggregate,
     ChainTypes, RowOK, GoroutineTypes, SenderTypes, QuietInv, MonitoredInv
<1>1. CASE Goto(p, "generate") /\ UNCHANGED <<rows, proof, mid>>
  <2>1. pc'[p] = "generate"
    BY <1>0, <1>1, Zenon DEF Goto
  <2>2. OwnInv(p)' /\ ~Holding(p)'
    BY <2>1, Zenon DEF OwnInv, Holding
  <2> QED BY <1>0, <1>1, <2>2, KeepStep, Zenon
<1>2. CASE \E a \in ToAggregate :
             /\ rows' = Updated(Updated(rows, a[1], a[1].from), a[2], a[1].from)
             /\ proof' = [proof EXCEPT ![p] = Range2(a[1].from, a[2].to)]
             /\ mid' = [mid EXCEPT ![p] = a[1].to]
             /\ Goto(p, "aggregating")
  <2>1. PICK r \in rows, s \in rows :
             /\ rows' = Updated(Updated(rows, r, r.from), s, r.from)
             /\ proof' = [proof EXCEPT ![p] = Range2(r.from, s.to)]
             /\ mid' = [mid EXCEPT ![p] = r.to]
             /\ Goto(p, "aggregating")
             /\ r.to = s.from - 1 /\ r.gen = 0 /\ s.gen = 0
    BY <1>2, Zenon DEF ToAggregate, Unlocked
  <2> DEFINE V == Updated(rows, r, r.from)
             h0 == Range2(r.from, s.to)
  <2>2. /\ r.from \in Nat /\ r.to \in Nat /\ s.from \in Nat /\ s.to \in Nat
        /\ h0.from = r.from /\ h0.to = s.to /\ r.from <= r.to /\ s.from <= s.to
        /\ proof'[p] = h0 /\ mid'[p] = r.to /\ pc'[p] = "aggregating"
        /\ rows' = Updated(V, s, r.from)
    BY <1>0, <2>1, Zenon DEF RowSet, Goto, Range2
  <2>3. /\ Locked(rows', h0)
        /\ \A u \in rows' : Within(u, h0) =>
             \/ u.from = r.from /\ u.to = r.to
             \/ u.from = s.from /\ u.to = s.to
    BY <1>0, <2>1, LockPair
  <2> HIDE DEF V, h0
  <2>4. V \subseteq RowSet /\ Apart(V) /\ \A t \in V : t.from <= t.to
    BY <1>0, <2>2, UpdatedRows, UpdatedApart DEF V
  <2>5. rows' \subseteq RowSet /\ Apart(rows')
    BY <2>2, <2>4, UpdatedRows, UpdatedApart, Zenon
  <2>6. \A u \in rows' : \E t \in rows : /\ t.from = u.from /\ t.to = u.to
                                         /\ \/ u = t
                                            \/ u.from = r.from /\ u.to = r.to
                                            \/ u.from = s.from /\ u.to = s.to
    <3>1. \A v \in V : \E t \in rows : /\ t.from = v.from /\ t.to = v.to
                                       /\ v = t \/ (v.from = r.from /\ v.to = r.to)
      BY <1>0, <2>2, UpdatedRows DEF V
    <3>2. \A u \in rows' : \E v \in V : /\ v.from = u.from /\ v.to = u.to
                                        /\ u = v \/ (u.from = s.from /\ u.to = s.to)
      BY <2>2, <2>4, UpdatedRows
    <3> QED BY <3>1, <3>2, Zenon
  <2>7. \A u \in rows' : \E t \in rows : t.from <= u.from
    BY <1>0, <2>6 DEF RowSet
  <2>8. \A h \in Others(p) : Disjoint(r, h) /\ Disjoint(s, h)
    BY <2>1, FreeRow, Zenon
  <2>9. \A h \in Others(p) : Disjoint(h0, h)
    <3> TAKE h \in Others(p)
    <3>1. h \in RangeSet /\ Proper(h)
      BY OthersProper, Zenon
    <3> QED BY <2>1, <2>2, <2>8, <3>1 DEF Disjoint, RangeSet, Proper
  <2>10. \A h \in Others(p) : Locked(rows, h) => Locked(rows', h)
    <3> TAKE h \in Others(p)
    <3> HAVE Locked(rows, h)
    <3>1. Locked(V, h)
      BY <1>0, <2>2, <2>8, UpdatedLocked, Zenon DEF V
    <3> QED BY <2>2, <2>4, <2>8, <3>1, UpdatedLocked, Zenon
  <2>11. OwnInv(p)'
    BY <2>1, <2>2, <2>3 DEF OwnInv
  <2>12. \A u \in rows' : u \in rows \/ Within(u, proof'[p])
    BY <2>1, <2>2, <2>6 DEF Within
  <2> QED BY <1>0, <2>2, <2>3, <2>5, <2>6, <2>7, <2>9, <2>10, <2>11, <2>12, ProverStep,
             Zenon DEF Mine
<1> QED BY <1>1, <1>2, Zenon DEF LockProofsToAggregate

LEMMA SafeAggregated ==
  ASSUME TypeInv, Safe, NEW p \in Provers, Channel(p), AggregatedProof(p)
  PROVE  Safe'
<1> DEFINE h0 == proof[p]
<1>0. /\ Mine(p) /\ pc[p] # "off" /\ pc[p] = "aggregating"
      /\ pc \in [Provers -> Pcs] /\ proof \in [Provers -> RangeSet] /\ mid[p] \in Nat
      /\ rows \subseteq RowSet /\ Apart(rows) /\ \A s \in rows : s.from <= s.to
      /\ UNCHANGED <<chainVars, sendVars>>
      /\ h0 \in RangeSet /\ Proper(h0) /\ Locked(rows, h0)
  BY ChannelMine, Zenon DEF TypeInv, Safe, SenderInv, ProverInv, Proper, AggregatedProof,
     Holding, RowOK, GoroutineTypes, SenderTypes, QuietInv, MonitoredInv, SentInv,
     HeldLocked
<1>h. \A h \in Others(p) : Disjoint(h0, h) /\ h \in RangeSet /\ Proper(h)
  BY <1>0, HeldApart, OthersProper, Zenon DEF Holding
<1>m. \A s \in rows : Within(s, h0) =>
        \/ s.from = h0.from /\ s.to = mid[p]
        \/ s.from = mid[p] + 1 /\ s.to = h0.to
  BY <1>0, Zenon DEF Safe, ProverInv, SentDisjoint, OwnInv
<1>1. CASE /\ rows' = Without(rows, h0.from, h0.to) \cup {Row(h0.from, h0.to, h0.from, TRUE)}
           /\ Goto(p, "tryFinal") /\ UNCHANGED proof
  <2> DEFINE n == Row(h0.from, h0.to, h0.from, TRUE)
             W == Without(rows, h0.from, h0.to)
  <2>1. /\ n \in RowSet /\ n.from = h0.from /\ n.to = h0.to /\ n.gen = n.from
        /\ h0.from \in Nat /\ h0.to \in Nat /\ h0.from <= h0.to
        /\ rows' = W \cup {n} /\ proof'[p] = h0 /\ pc'[p] = "tryFinal"
    BY <1>0, <1>1, Zenon DEF Row, RowSet, RangeSet, Proper, Goto
  <2> HIDE DEF n
  <2>2. W \subseteq rows /\ \A s \in W : ~Within(s, h0)
    BY <1>0, <2>1, Zenon DEF Without, Within, RowSet
  <2> HIDE DEF W, h0
  <2>3. \A s \in W : Disjoint(s, h0)
    BY <1>0, <2>2, Zenon DEF Locked
  <2>4. \A s \in W : Disjoint(s, n) /\ Disjoint(n, s)
    BY <2>1, <2>3, Zenon DEF Disjoint
  <2>5. rows' \subseteq RowSet /\ Apart(rows')
    BY <1>0, <2>1, <2>2, <2>4, Zenon DEF Apart
  <2>6. Locked(rows', h0)
    BY <2>1, <2>3 DEF Locked, Within
  <2>7. \E s \in rows : s.from <= h0.from
    <3>1. PICK s \in rows : h0.from \in s.from .. s.to
      BY <1>0, <2>1 DEF Locked
    <3> QED BY <1>0, <3>1 DEF RowSet
  <2>8. \A u \in rows' : \E t \in rows : t.from <= u.from
    BY <1>0, <2>1, <2>2, <2>7 DEF RowSet
  <2>9. \A h \in Others(p) : Locked(rows, h) => Locked(rows', h)
    <3> TAKE h \in Others(p)
    <3> HAVE Locked(rows, h)
    <3>1. Locked(W, h)
      BY <1>0, <1>h, <2>1, WithoutLocked, Zenon DEF Disjoint, W
    <3>2. Disjoint(n, h)
      BY <1>h, <2>1, Zenon DEF Disjoint
    <3> QED BY <2>1, <3>1, <3>2, AddLocked, Zenon
  <2>10. \A h \in Others(p) : ~Within(n, h)
    BY <1>h, <2>1 DEF Disjoint, Within, RangeSet
  <2>11. \A h \in Others(p) : \A s \in rows' : Within(s, h) =>
           \E t \in rows : t.from = s.from /\ t.to = s.to
    BY <2>1, <2>2, <2>10, Zenon
  <2>12. OwnInv(p)'
    BY <2>1, Zenon DEF OwnInv
  <2>13. \A u \in rows' : u.gen = u.from \/ (u \in rows /\ ~Within(u, h0))
    BY <2>1, <2>2, Zenon
  <2> QED BY <1>0, <1>h, <2>1, <2>5, <2>6, <2>8, <2>9, <2>11, <2>12, <2>13, ProverStep,
             Zenon DEF Mine, h0
<1>2. CASE rows' = UnlockProofs(p) /\ Return(p, "generate")
  <2> DEFINE a == Range2(h0.from, mid[p])
             b == Range2(mid[p] + 1, h0.to)
             V == Updated(rows, a, 0)
  <2>1. /\ a.from = h0.from /\ a.to = mid[p] /\ b.from = mid[p] + 1 /\ b.to = h0.to
        /\ h0.from \in Nat /\ h0.to \in Nat /\ h0.from <= h0.to
        /\ rows' = Updated(V, b, 0) /\ pc'[p] = "generate"
    BY <1>0, <1>2, Zenon DEF UnlockProofs, Return, Goto, Range2, RangeSet, Proper
  <2> HIDE DEF a, b, V, h0
  <2>2. mid[p] <= h0.to /\ h0.from <= mid[p] + 1
    <3>1. PICK s \in rows : h0.from \in s.from .. s.to
      BY <1>0, <2>1 DEF Locked
    <3>2. s.from \in Nat /\ s.to \in Nat /\ Within(s, h0)
      BY <1>0, <2>1, <3>1 DEF Locked, Disjoint, RowSet
    <3> QED BY <1>0, <1>m, <2>1, <3>1, <3>2 DEF Within
  <2>3. V \subseteq RowSet /\ Apart(V) /\ \A t \in V : t.from <= t.to
    BY <1>0, UpdatedRows, UpdatedApart DEF V
  <2>4. rows' \subseteq RowSet /\ Apart(rows')
    BY <2>1, <2>3, UpdatedRows, UpdatedApart, Zenon
  <2>5. \A u \in rows' :
          \E t \in rows :
            /\ t.from = u.from /\ t.to = u.to
            /\ \/ u.gen = 0
               \/ u = t /\ ~(t.from = a.from /\ t.to = a.to) /\ ~(t.from = b.from /\ t.to = b.to)
    <3>1. \A v \in V : \E t \in rows :
            /\ t.from = v.from /\ t.to = v.to
            /\ v.gen = 0 \/ (v = t /\ ~(t.from = a.from /\ t.to = a.to))
      BY <1>0, UpdatedRows DEF V
    <3>2. \A u \in rows' : \E v \in V :
            /\ v.from = u.from /\ v.to = u.to
            /\ u.gen = 0 \/ (u = v /\ ~(v.from = b.from /\ v.to = b.to))
      BY <2>1, <2>3, UpdatedRows
    <3> TAKE u \in rows'
    <3>3. PICK v \in V : /\ v.from = u.from /\ v.to = u.to
                         /\ u.gen = 0 \/ (u = v /\ ~(v.from = b.from /\ v.to = b.to))
      BY <3>2, Zenon
    <3>4. PICK t \in rows : /\ t.from = v.from /\ t.to = v.to
                            /\ v.gen = 0 \/ (v = t /\ ~(t.from = a.from /\ t.to = a.to))
      BY <3>1, Zenon
    <3> WITNESS t \in rows
    <3> QED BY <3>3, <3>4, Zenon
  <2>6. \A u \in rows' : \E t \in rows : t.from <= u.from
    BY <1>0, <2>5 DEF RowSet
  <2>7. \A h \in Others(p) : Locked(rows, h) => Locked(rows', h)
    <3> TAKE h \in Others(p)
    <3> HAVE Locked(rows, h)
    <3>1. Disjoint(a, h) /\ Disjoint(b, h)
      BY <1>0, <1>h, <2>1, <2>2 DEF Disjoint, RangeSet
    <3>2. Locked(V, h)
      BY <1>0, <3>1, UpdatedLocked, Zenon DEF V
    <3> QED BY <2>1, <2>3, <3>1, <3>2, UpdatedLocked, Zenon
  <2>8. OwnInv(p)' /\ ~Holding(p)'
    BY <2>1, Zenon DEF OwnInv, Holding
  <2>9. \A u \in rows' : u.gen = 0 \/ (u \in rows /\ ~Within(u, h0))
    BY <1>m, <2>1, <2>5, Zenon
  <2> QED BY <1>0, <2>4, <2>5, <2>6, <2>7, <2>8, <2>9, ProverStep, Zenon DEF Mine, h0
<1> QED BY <1>1, <1>2, Zenon DEF AggregatedProof

LEMMA SafeGenerate ==
  ASSUME TypeInv, Safe, NEW p \in Provers, Channel(p),
         LockBatchToProve(p) \/ BatchProof(p) \/ StoreProof(p)
  PROVE  Safe'
<1>0. /\ Mine(p) /\ pc[p] # "off"
      /\ pc \in [Provers -> Pcs] /\ proof \in [Provers -> RangeSet]
      /\ rows \subseteq RowSet /\ Apart(rows) /\ \A s \in rows : s.from <= s.to
      /\ verified \in Nat /\ virtual \in Nat
      /\ UNCHANGED <<chainVars, sendVars>>
  <2>1. UNCHANGED <<chainVars, sendVars>>
    BY Zenon DEF LockBatchToProve, BatchProof, StoreProof
  <2> QED BY <2>1, ChannelMine DEF TypeInv, Safe, SenderInv, Proper, ChainTypes, RowOK,
             GoroutineTypes
<1>1. CASE LockBatchToProve(p)
  <2>0. pc[p] = "generate"
    BY <1>1, Zenon DEF LockBatchToProve
  <2>1. CASE Goto(p, "final") /\ UNCHANGED <<rows, proof>>
    <3>1. pc'[p] = "final"
      BY <1>0, <2>1, Zenon DEF Goto
    <3>2. OwnInv(p)' /\ ~Holding(p)'
      BY <3>1, Zenon DEF OwnInv, Holding
    <3> QED BY <1>0, <2>0, <2>1, <3>2, KeepStep, Zenon
  <2>2. CASE \E b \in ToProve :
               /\ rows' = rows \cup {Row(b, b, b, FALSE)}
               /\ proof' = [proof EXCEPT ![p] = Range2(b, b)]
               /\ Goto(p, "generating")
    <3>2. PICK b \in ToProve :
               /\ rows' = rows \cup {Row(b, b, b, FALSE)}
               /\ proof' = [proof EXCEPT ![p] = Range2(b, b)]
               /\ Goto(p, "generating")
      BY <2>2, Zenon
    <3> DEFINE n == Row(b, b, b, FALSE)
               h0 == Range2(b, b)
    <3>3. b \in Nat /\ b > verified /\ ~Covered(b)
      BY <1>0, <3>2 DEF ToProve
    <3>4. /\ n \in RowSet /\ n.from = b /\ n.to = b /\ n.gen = b
          /\ h0.from = b /\ h0.to = b
          /\ rows' = rows \cup {n} /\ proof'[p] = h0 /\ pc'[p] = "generating"
      BY <1>0, <3>2, <3>3, Zenon DEF Row, RowSet, Range2, Goto
    <3> HIDE DEF n, h0
    <3>5. \A s \in rows : Disjoint(s, n) /\ Disjoint(n, s) /\ Disjoint(s, h0)
      BY <1>0, <3>3, <3>4 DEF Covered, Disjoint, RowSet
    <3>6. rows' \subseteq RowSet /\ Apart(rows')
      BY <1>0, <3>4, <3>5, Zenon DEF Apart
    <3>7. Locked(rows', h0)
      BY <3>3, <3>4, <3>5 DEF Locked, Within
    <3>8. \A u \in rows' : (\E t \in rows : t.from <= u.from) \/ u.from > verified
      BY <1>0, <3>3, <3>4 DEF RowSet
    <3>9. \A h \in Others(p) : Disjoint(n, h) /\ Disjoint(h0, h) /\ ~Within(n, h)
      <4> TAKE h \in Others(p)
      <4>1. h \in RangeSet
        BY OthersProper, Zenon
      <4> QED BY <3>2, <3>3, <3>4, <4>1, FreeBatch DEF Disjoint, Within, RangeSet
    <3>10. \A h \in Others(p) : Locked(rows, h) => Locked(rows', h)
      BY <3>4, <3>9, AddLocked, Zenon
    <3>11. \A h \in Others(p) : \A s \in rows' : Within(s, h) =>
             \E t \in rows : t.from = s.from /\ t.to = s.to
      BY <3>4, <3>9, Zenon
    <3>12. OwnInv(p)'
      BY <3>4, Zenon DEF OwnInv
    <3>13. \A u \in rows' : u.gen = u.from \/ u \in rows
      BY <3>4, Zenon
    <3> QED BY <1>0, <2>0, <3>4, <3>6, <3>7, <3>8, <3>9, <3>10, <3>11, <3>12, <3>13,
               ProverStep, Zenon DEF Mine
  <2> QED BY <1>1, <2>1, <2>2, Zenon DEF LockBatchToProve
<1>2. CASE BatchProof(p)
  <2>0. pc[p] = "generating" /\ Holding(p)
    BY <1>2, Zenon DEF BatchProof, Holding
  <2>1. CASE Goto(p, "tryFinal") /\ UNCHANGED <<rows, proof>>
    <3>1. pc'[p] = "tryFinal"
      BY <1>0, <2>1, Zenon DEF Goto
    <3>2. OwnInv(p)'
      BY <3>1, Zenon DEF OwnInv
    <3> QED BY <1>0, <2>0, <2>1, <3>2, KeepStep, Zenon
  <2>2. CASE rows' = Without(rows, proof[p].from, proof[p].to) /\ Return(p, "final")
    <3> DEFINE h0 == proof[p]
    <3>1. pc'[p] = "final" /\ rows' = Without(rows, h0.from, h0.to)
      BY <1>0, <2>2, Zenon DEF Return, Goto
    <3>2. OwnInv(p)' /\ ~Holding(p)'
      BY <3>1, Zenon DEF OwnInv, Holding
    <3>3. h0 \in RangeSet /\ \A h \in Others(p) : Disjoint(h0, h) /\ h \in RangeSet
      BY <1>0, <2>0, HeldApart, OthersProper, Zenon
    <3> HIDE DEF h0
    <3>4. rows' \subseteq rows
      BY <3>1, Zenon DEF Without
    <3>5. rows' \subseteq RowSet /\ Apart(rows') /\ \A u \in rows' : \E t \in rows : t.from <= u.from
      BY <1>0, <3>4 DEF Apart, RowSet
    <3>6. \A h \in Others(p) : Locked(rows, h) => Locked(rows', h)
      BY <1>0, <3>1, <3>3, WithoutLocked, Zenon DEF Disjoint, RangeSet
    <3> QED BY <1>0, <2>0, <3>2, <3>4, <3>5, <3>6, ProverStep, Zenon DEF Mine
  <2> QED BY <1>2, <2>1, <2>2, Zenon DEF BatchProof
<1>3. CASE StoreProof(p)
  <2>1. /\ pc[p] = "store" /\ Holding(p) /\ pc'[p] = "final"
        /\ rows' = Updated(rows, proof[p], 0)
    BY <1>0, <1>3, Zenon DEF StoreProof, Holding, Return, Goto
  <2>2. ~Holding(p)'
    BY <2>1, Zenon DEF Holding
  <2> QED BY <1>0, <2>1, <2>2, ReleaseStep, Zenon
<1> QED BY <1>1, <1>2, <1>3, Zenon

\* The sender takes the final proof: no tx is monitored, so the proof starts at
\* the next batch of L1.
LEMMA SafeSend ==
  ASSUME TypeInv, Safe, NEW p \in Provers, Channel(p), SendFinalProof(p)
  PROVE  Safe'
<1>0. /\ pc[p] = "send" /\ sendPc = "idle" /\ sent' = proof[p] /\ sendPc' = "start"
      /\ UNCHANGED <<virtual, verified, ethVerified, rows, monitored>>
      /\ pc'[p] \in {"final", "aggregate"} /\ Holding(p)
      /\ Mine(p) /\ verified \in Nat /\ ethVerified \in Nat
      /\ proof[p] \in RangeSet
  BY ChannelMine, Zenon DEF SendFinalProof, Return, Goto, chainVars, Holding, TypeInv,
     ChainTypes, GoroutineTypes
<1>1. monitored = {} /\ verified = ethVerified
  BY <1>0, Zenon DEF Safe, SenderInv, QuietInv, MonitoredInv, SentInv
<1>2. /\ Locked(rows, proof[p]) /\ proof[p].from <= verified + 1
      /\ proof[p].from \in From /\ proof[p].to \in To /\ proof[p].from > verified
  BY <1>0, HeldIsAhead, Zenon DEF Safe, ProverInv, HeldLocked, OwnInv
<1>3. proof[p].from = ethVerified + 1
  BY <1>0, <1>1, <1>2 DEF RangeSet
<1>4. SenderInv'
  BY <1>0, <1>1, <1>2, <1>3, Zenon DEF Safe, SenderInv, QuietInv, MonitoredInv, SentInv
<1>5. ~Holding(p)' /\ \A q \in Provers : q # p =>
        /\ Holding(q)' <=> Holding(q)
        /\ pc'[q] = pc[q] /\ proof'[q] = proof[q] /\ mid'[q] = mid[q]
        /\ lastVerified'[q] = lastVerified[q]
  BY <1>0, Zenon DEF Holding, Mine
<1>6. ProverInv'
  <2>1. \A q \in Provers : Holding(q)' => Disjoint(proof'[q], sent')
    BY <1>0, <1>5, Zenon DEF Safe, ProverInv, HeldDisjoint
  <2>2. \A q \in Provers : Holding(q)' => Locked(rows', proof'[q])
    BY <1>0, <1>5, Zenon DEF Safe, ProverInv, HeldLocked, SentDisjoint
  <2>3. \A q, o \in Provers :
          q # o /\ Holding(q)' /\ Holding(o)' => Disjoint(proof'[q], proof'[o])
    BY <1>5, Zenon DEF Safe, ProverInv, HeldDisjoint
  <2>4. \A q \in Provers : OwnInv(q)'
    BY <1>0, <1>5 DEF Safe, ProverInv, OwnInv
  <2> QED BY <1>0, <2>1, <2>2, <2>3, <2>4, Zenon DEF ProverInv, HeldLocked, HeldDisjoint,
             SentDisjoint
<1>7. StampInv'
  BY <1>0, <1>5, Zenon DEF Safe, StampInv
<1> QED BY <1>4, <1>6, <1>7, Zenon DEF Safe
-----------------------------------------------------------------------------
(* The steps of the sender, of the chain and of the cleanup.               *)

\* A step of another goroutine that leaves the locks of the provers in place.
LEMMA ProversKept ==
  ASSUME TypeInv, Safe, UNCHANGED proverVars, verified' \in Nat, verified <= verified',
         sendPc' = "boot" <=> sendPc = "boot", Sending' => Sending /\ sent' = sent,
         \A p \in Provers : Holding(p) /\ Locked(rows, proof[p]) => Locked(rows', proof[p]),
         \A s \in rows' : \E t \in rows : t.from = s.from /\ t.to = s.to,
         \A s \in rows' : s \in rows \/ s.gen = 0
  PROVE  ProverInv' /\ StampInv'
<1>0. /\ UNCHANGED <<pc, proof, mid, fresh, lastVerified>>
      /\ \A p \in Provers : Holding(p)' <=> Holding(p)
      /\ verified \in Nat /\ proof \in [Provers -> RangeSet] /\ lastVerified \in [Provers -> Nat]
  BY Zenon DEF proverVars, Holding, TypeInv, ChainTypes, GoroutineTypes
<1>1. \A p \in Provers : Holding(p)' => Locked(rows', proof'[p])
  BY <1>0, Zenon DEF Safe, ProverInv, HeldLocked
<1>2. \A p, q \in Provers :
        p # q /\ Holding(p)' /\ Holding(q)' => Disjoint(proof'[p], proof'[q])
  BY <1>0, Zenon DEF Safe, ProverInv, HeldDisjoint
<1>3. Sending' => \A p \in Provers : Holding(p)' => Disjoint(proof'[p], sent')
  BY <1>0, Zenon DEF Safe, ProverInv, SentDisjoint
<1>4. \A p \in Provers : OwnInv(p)'
  <2> TAKE p \in Provers
  <2>1. OwnInv(p)
    BY Zenon DEF Safe, ProverInv, HeldLocked
  <2> QED BY <1>0, <2>1 DEF OwnInv, Within, RangeSet
<1>5. ProverInv'
  <2>1. sendPc' = "boot" => \A p \in Provers : pc'[p] = "off"
    BY <1>0, Zenon DEF Safe, ProverInv
  <2> QED BY <1>1, <1>2, <1>3, <1>4, <2>1, Zenon DEF ProverInv, HeldLocked, HeldDisjoint,
             SentDisjoint
<1>6. StampInv'
  BY <1>0, Zenon DEF Safe, StampInv, Within
<1> QED BY <1>5, <1>6, Zenon

LEMMA SafeSender ==
  ASSUME TypeInv, Safe, Sender
  PROVE  Safe'
<1>0. /\ verified \in Nat /\ ethVerified \in Nat /\ rows \subseteq RowSet
      /\ \A s \in rows : s.from <= s.to
  BY Zenon DEF TypeInv, Proper, ChainTypes, RowOK
<1>1. CASE StartProofVerification
  <2>1. /\ sendPc = "start" /\ sendPc' = "add"
        /\ UNCHANGED <<virtual, verified, ethVerified, rows, proverVars, sent, monitored>>
    BY <1>1, Zenon DEF StartProofVerification, chainVars
  <2>2. SenderInv'
    BY <2>1, Zenon DEF Safe, SenderInv, QuietInv, MonitoredInv, SentInv
  <2> QED BY <1>0, <2>1, <2>2, ProversKept DEF Safe, Sending
<1>2. CASE AddToBeMonitored
  <2>1. /\ sendPc = "add" /\ sendPc' = "wait" /\ monitored' = monitored \cup {sent}
        /\ UNCHANGED <<virtual, verified, ethVerified, rows, proverVars, sent>>
    BY <1>2, Zenon DEF AddToBeMonitored, chainVars
  <2>2. /\ monitored = {} /\ verified = ethVerified /\ \A r \in rows : r.from > ethVerified
        /\ sent.from = ethVerified + 1 /\ Locked(rows, sent) /\ Apart(rows)
    BY <2>1, Zenon DEF Safe, SenderInv, QuietInv, MonitoredInv, SentInv
  <2>3. \A r \in rows : sent.from <= r.from
    BY <1>0, <2>2 DEF RowSet
  <2>4. SenderInv'
    BY <1>0, <2>1, <2>2, <2>3 DEF SenderInv, QuietInv, MonitoredInv, SentInv
  <2> QED BY <1>0, <2>1, <2>4, ProversKept DEF Safe, Sending
<1>3. CASE AddFails
  <2>1. /\ sendPc = "add" /\ sendPc' = "idle" /\ rows' = Updated(rows, sent, 0)
        /\ UNCHANGED <<virtual, verified, ethVerified, proverVars, monitored>>
    BY <1>3, Zenon DEF AddFails, chainVars
  <2>2. /\ monitored = {} /\ verified = ethVerified /\ \A r \in rows : r.from > ethVerified
        /\ Apart(rows)
    BY <2>1, Zenon DEF Safe, SenderInv, QuietInv, MonitoredInv
  <2>3. /\ Apart(rows')
        /\ \A s \in rows' : \E t \in rows : t.from = s.from /\ t.to = s.to
        /\ \A s \in rows' : s \in rows \/ s.gen = 0
    BY <1>0, <2>1, <2>2, UpdatedRows, UpdatedApart
  <2>4. SenderInv'
    BY <2>1, <2>2, <2>3, Zenon DEF SenderInv, QuietInv, MonitoredInv, SentInv
  <2>5. \A p \in Provers : Holding(p) /\ Locked(rows, proof[p]) => Locked(rows', proof[p])
    <3> TAKE p \in Provers
    <3> HAVE Holding(p) /\ Locked(rows, proof[p])
    <3>1. Disjoint(sent, proof[p])
      BY <2>1, Zenon DEF Safe, ProverInv, Sending, Disjoint, SentDisjoint
    <3> QED BY <1>0, <2>1, <3>1, UpdatedLocked, Zenon
  <2> QED BY <1>0, <2>1, <2>3, <2>4, <2>5, ProversKept DEF Safe, Sending
<1>4. CASE GetBatchFails \/ EndProofVerification
  <2>1. /\ sendPc \in {"add", "wait"} /\ monitored = {} /\ sendPc' = "idle"
        /\ UNCHANGED <<virtual, verified, ethVerified, rows, proverVars, monitored>>
    BY <1>4, Zenon DEF GetBatchFails, EndProofVerification, chainVars, Safe, SenderInv,
       MonitoredInv
  <2>2. SenderInv'
    BY <2>1, Zenon DEF Safe, SenderInv, QuietInv, MonitoredInv, SentInv
  <2> QED BY <1>0, <2>1, <2>2, ProversKept DEF Safe, Sending
<1>5. CASE HandleMonitoredTxResult
  <2>1. PICK m \in monitored :
          /\ ethVerified >= m.to /\ verified >= ethVerified
          /\ monitored' = monitored \ {m} /\ rows' = {r \in rows : r.to > m.to}
    BY <1>5, Zenon DEF HandleMonitoredTxResult
  <2>2. UNCHANGED <<virtual, verified, ethVerified, proverVars, sendPc, sent>>
    BY <1>5, Zenon DEF HandleMonitoredTxResult, chainVars
  <2>3. /\ monitored' = {} /\ sendPc \in {"wait", "boot"} /\ (sendPc = "wait" => sent = m)
        /\ Locked(rows, m) /\ Apart(rows) /\ (\A r \in rows : m.from <= r.from)
        /\ ethVerified \in {m.from - 1, m.to} /\ verified \in {m.from - 1, m.to}
        /\ m \in RangeSet /\ Proper(m)
    BY <2>1, Zenon DEF Safe, SenderInv, TypeInv, SenderTypes, MonitoredInv
  <2>4. ethVerified = m.to /\ verified = m.to
    BY <2>1, <2>3 DEF RangeSet, Proper
  <2>5. rows' \subseteq rows /\ \A r \in rows : r \in rows' <=> r.from > m.to
    BY <1>0, <2>1, <2>3 DEF Locked, Disjoint, Within, RowSet, RangeSet
  <2>6. SenderInv'
    BY <2>2, <2>3, <2>4, <2>5, Zenon DEF SenderInv, Apart, QuietInv, MonitoredInv,
       SentInv
  <2>7. \A p \in Provers : Holding(p) /\ Locked(rows, proof[p]) => Locked(rows', proof[p])
    <3> TAKE p \in Provers
    <3> HAVE Holding(p) /\ Locked(rows, proof[p])
    <3>1. sendPc = "wait"
      BY <2>3, Zenon DEF Safe, ProverInv, Holding, HeldLocked
    <3>2. Disjoint(proof[p], m) /\ proof[p] \in RangeSet /\ Proper(proof[p])
      BY <2>3, <3>1, Zenon DEF Safe, ProverInv, Sending, TypeInv, RowOK, GoroutineTypes,
         SentDisjoint
    <3>3. \A s \in rows : Within(s, proof[p]) => s \in rows'
      BY <1>0, <2>3, <2>5, <3>2 DEF Within, Disjoint, RowSet, RangeSet
    <3>4. ASSUME NEW b \in proof[p].from .. proof[p].to
          PROVE  \E s \in rows' : b \in s.from .. s.to
      <4>1. PICK s \in rows : b \in s.from .. s.to
        BY Zenon DEF Locked
      <4>2. Within(s, proof[p])
        BY <1>0, <3>2, <4>1 DEF Locked, Disjoint, RowSet, RangeSet
      <4> QED BY <3>3, <4>1, <4>2, Zenon
    <3> QED BY <2>5, <3>4, Zenon DEF Locked
  <2> QED BY <1>0, <2>2, <2>5, <2>6, <2>7, ProversKept DEF Safe, Sending
<1>6. CASE Start
  <2>1. /\ sendPc' = "idle" /\ rows' = {r \in rows : Unlocked(r)} /\ monitored = {}
        /\ pc' = [p \in Provers |-> "final"]
        /\ UNCHANGED <<virtual, verified, ethVerified, monitored>>
    BY <1>6, Zenon DEF Start, chainVars
  <2>2. \A p \in Provers : pc'[p] = "final"
    BY <2>1, Zenon
  <2>3. rows' \subseteq rows /\ \A r \in rows' : r.gen = 0
    BY <2>1, Zenon DEF Unlocked
  <2>4. SenderInv'
    BY <2>1, <2>3, Zenon DEF Safe, SenderInv, Apart, QuietInv, MonitoredInv, SentInv
  <2>5. ProverInv'
    BY <2>1, <2>2, Zenon DEF ProverInv, Holding, HeldLocked, HeldDisjoint, SentDisjoint,
       OwnInv
  <2>6. StampInv'
    BY <2>3, Zenon DEF StampInv
  <2> QED BY <2>4, <2>5, <2>6, Zenon DEF Safe
<1> QED BY <1>1, <1>2, <1>3, <1>4, <1>5, <1>6, Zenon DEF Sender

LEMMA SafeChain ==
  ASSUME TypeInv, TypeInv', Safe, Chain \/ VerifyTimeReached
  PROVE  Safe'
<1>0. /\ verified \in Nat /\ ethVerified \in Nat /\ verified' \in Nat
      /\ verified <= ethVerified
  BY Zenon DEF TypeInv, ChainTypes
<1>1. CASE SyncSequence \/ VerifyTimeReached
  <2>1. UNCHANGED <<verified, ethVerified, rows, proverVars, sendPc, sent, monitored>>
    BY <1>1, Zenon DEF SyncSequence, VerifyTimeReached, chainVars, sendVars
  <2>2. SenderInv'
    BY <2>1, Zenon DEF Safe, SenderInv, QuietInv, MonitoredInv, SentInv
  <2> QED BY <1>0, <2>1, <2>2, ProversKept DEF Safe, Sending
<1>2. CASE MineVerification
  <2>1. /\ \E m \in monitored : ethVerified' = m.to
        /\ UNCHANGED <<verified, rows, proverVars, sendPc, sent, monitored>>
    BY <1>2, Zenon DEF MineVerification, sendVars
  <2>2. SenderInv'
    BY <2>1, Zenon DEF Safe, SenderInv, QuietInv, MonitoredInv, SentInv
  <2> QED BY <1>0, <2>1, <2>2, ProversKept DEF Safe, Sending
<1>3. CASE SyncVerification
  <2>1. /\ verified < ethVerified /\ verified' = ethVerified
        /\ UNCHANGED <<ethVerified, rows, proverVars, sendPc, sent, monitored>>
    BY <1>3, Zenon DEF SyncVerification, sendVars
  <2>2. SenderInv'
    BY <1>0, <2>1, Zenon DEF Safe, SenderInv, QuietInv, MonitoredInv, SentInv
  <2> QED BY <1>0, <2>1, <2>2, ProversKept, Zenon DEF Safe, Sending
<1> QED BY <1>1, <1>2, <1>3, Zenon DEF Chain

\* A stale lock that nobody holds bears a stamp that no held lock bears.
LEMMA SafeCleanup ==
  ASSUME TypeInv, Safe, CleanupLockedProofs, cleanups' = cleanups
  PROVE  Safe'
<1>0. /\ verified \in Nat /\ rows \subseteq RowSet /\ \A s \in rows : s.from <= s.to
      /\ cleanups \in Nat /\ sendPc # "boot"
      /\ UNCHANGED <<virtual, verified, ethVerified, proverVars, sendPc, sent, monitored>>
  BY Zenon DEF TypeInv, Proper, CleanupLockedProofs, chainVars, sendVars, ChainTypes,
     RowOK
<1>1. PICK r \in rows : r.gen # 0 /\ ~Held(r) /\ rows' = {s \in rows : s.gen # r.gen}
  BY <1>0 DEF CleanupLockedProofs, Unlocked
<1>2. r.gen = r.from
  <2>1. ASSUME NEW p \in Provers, pc[p] = "aggregating", Within(r, proof[p]) PROVE FALSE
    BY <1>1, <2>1, Zenon DEF Held, Busy, Holding, Within
  <2> QED BY <1>0, <1>1, <2>1, Zenon DEF Safe, StampInv
<1>3. ASSUME NEW h \in Busy, h \in RangeSet, Proper(h), Locked(rows, h)
      PROVE  Locked(rows', h)
  <2>1. h.from # r.gen
    <3> SUFFICES ASSUME h.from = r.from PROVE FALSE
      BY <1>2, Zenon
    <3>1. Within(r, h)
      BY <1>0, <1>3 DEF Locked, Disjoint, RowSet, RangeSet, Proper
    <3> QED BY <1>1, <3>1, Zenon DEF Held, Within
  <2>2. \A s \in rows : ~Disjoint(s, h) => s \in rows'
    BY <1>1, <1>3, <2>1, Zenon DEF Locked
  <2>3. ASSUME NEW b \in h.from .. h.to PROVE \E s \in rows' : b \in s.from .. s.to
    <3>1. PICK s \in rows : b \in s.from .. s.to
      BY <1>3, Zenon DEF Locked
    <3>2. ~Disjoint(s, h)
      BY <1>0, <1>3, <3>1 DEF Disjoint, RowSet, RangeSet
    <3> QED BY <2>2, <3>1, <3>2, Zenon
  <2> QED BY <1>1, <1>3, <2>3, Zenon DEF Locked
<1>4. rows' \subseteq rows
  BY <1>1, Zenon
<1>5. \A p \in Provers : Holding(p) /\ Locked(rows, proof[p]) => Locked(rows', proof[p])
  BY <1>3, Zenon DEF Busy, TypeInv, RowOK, GoroutineTypes
<1>6. Sending /\ Locked(rows, sent) => Locked(rows', sent)
  BY <1>3, Zenon DEF Busy, TypeInv, Sending, SenderTypes
<1>7. SenderInv'
  BY <1>0, <1>4, <1>6, Zenon DEF Safe, SenderInv, Apart, Sending, QuietInv, MonitoredInv,
     SentInv
<1> QED BY <1>0, <1>4, <1>5, <1>7, ProversKept DEF Safe, Sending
-----------------------------------------------------------------------------
(* The theorems.                                                           *)

LEMMA SafeRestart ==
  ASSUME TypeInv, Safe, Restart
  PROVE  Safe'
<1>1. /\ pc' = Idle /\ sendPc' = "boot"
      /\ UNCHANGED <<virtual, verified, ethVerified, rows, monitored>>
  BY Zenon DEF Restart, chainVars
<1>2. \A p \in Provers : pc'[p] = "off"
  BY <1>1, Zenon DEF Idle
<1>3. SenderInv'
  BY <1>1, Zenon DEF Safe, SenderInv, QuietInv, MonitoredInv, SentInv
<1>4. ProverInv'
  BY <1>1, <1>2, Zenon DEF ProverInv, Holding, HeldLocked, HeldDisjoint, SentDisjoint,
     OwnInv
<1> QED BY <1>1, <1>3, <1>4, Zenon DEF Safe, StampInv

LEMMA Initially == Init => IInv
<1> SUFFICES ASSUME Init PROVE IInv
  OBVIOUS
<1>0. /\ virtual = 0 /\ verified = 0 /\ ethVerified = 0 /\ rows = {} /\ monitored = {}
      /\ sendPc = "boot" /\ sent = NoProof /\ cleanups = 0
      /\ pc = [p \in Provers |-> "off"] /\ proof = [p \in Provers |-> NoProof]
      /\ mid = [p \in Provers |-> 0] /\ fresh = [p \in Provers |-> FALSE]
      /\ lastVerified = [p \in Provers |-> 0]
  BY Zenon DEF Init, Idle
<1>1. NoProof \in RangeSet /\ NumBatches \in Nat
  BY ConstantsAssumption, Zenon DEF NoProof, Range2, RangeSet
<1>2. \A p \in Provers : ~Holding(p) /\ pc[p] = "off" /\ proof[p] = NoProof
  BY <1>0, Zenon DEF Holding
<1>3. TypeInv
  BY <1>0, <1>1, <1>2 DEF TypeInv, Pcs, OtherPcs, Sending, ChainTypes, RowOK,
     GoroutineTypes, SenderTypes
<1>4. SenderInv /\ ProverInv /\ StampInv
  BY <1>0, <1>2, Zenon DEF SenderInv, ProverInv, StampInv, Apart, QuietInv, MonitoredInv,
     SentInv, HeldLocked, HeldDisjoint, SentDisjoint, OwnInv
<1> QED BY <1>3, <1>4, Zenon DEF IInv

LEMMA Preserved == IInv /\ [Next]_vars => IInv'
<1> SUFFICES ASSUME IInv, [Next]_vars PROVE IInv'
  OBVIOUS
<1>0. TypeInv /\ TypeInv'
  BY TypeStep, Zenon DEF IInv
<1>1. cleanups \in Nat /\ cleanups' \in Nat
  BY <1>0, Zenon DEF TypeInv, ChainTypes
<1>2. CASE UNCHANGED vars
  <2>1. UNCHANGED <<virtual, verified, ethVerified, rows, pc, proof, mid, fresh, lastVerified,
                    sendPc, sent, monitored, cleanups>>
    BY <1>2, Zenon DEF vars, aggregatorVars, chainVars, proverVars, sendVars, boundVars
  <2>2. ASSUME Safe PROVE Safe'
    <3>1. SenderInv'
      BY <2>1, <2>2, Zenon DEF Safe, SenderInv, QuietInv, MonitoredInv, SentInv
    <3>2. verified \in Nat /\ verified <= verified'
      BY <1>0, <2>1 DEF TypeInv, ChainTypes
    <3> QED BY <1>0, <2>1, <2>2, <3>1, <3>2, ProversKept, Zenon DEF Safe, Sending, proverVars
  <2> QED BY <1>0, <2>1, <2>2, Zenon DEF IInv, Safe
<1>3. CASE Next
  <2> SUFFICES ASSUME cleanups' = 0 PROVE Safe'
    BY <1>0, Zenon DEF IInv, Safe
  <2>1. CASE \E p \in Provers : Channel(p)
    <3>1. PICK p \in Provers : Channel(p)
      BY <2>1, Zenon
    <3>2. cleanups' = cleanups
      BY <3>1, Zenon DEF Channel, CanVerifyProof, WaitSynced, LockProofReadyToVerify,
         ValidateEligible, BuildFinalProof, SendFinalProof, LockProofsToAggregate,
         AggregatedProof, LockBatchToProve, BatchProof, StoreProof, MayFail, boundVars
    <3>3. Safe
      BY <3>2, Zenon DEF IInv, Safe
    <3> QED BY <1>0, <3>1, <3>3, SafeFinal, SafeSend, SafeLockPair, SafeAggregated,
               SafeGenerate, Zenon DEF Channel
  <2>2. CASE Sender \/ Chain \/ VerifyTimeReached \/ Restart
    <3>1. cleanups' = cleanups
      BY <2>2, Zenon DEF Sender, StartProofVerification, AddToBeMonitored, AddFails,
         GetBatchFails, HandleMonitoredTxResult, EndProofVerification, Start, Chain,
         SyncSequence, MineVerification, SyncVerification, VerifyTimeReached, Restart,
         MayFail, boundVars
    <3>2. Safe
      BY <3>1, Zenon DEF IInv, Safe
    <3> QED BY <1>0, <2>2, <3>2, SafeSender, SafeChain, SafeRestart, Zenon
  <2>3. CASE CleanupLockedProofs
    <3>1. cleanups' = cleanups \/ cleanups' = cleanups + 1
      BY <2>3, Zenon DEF CleanupLockedProofs
    <3>2. cleanups' = cleanups
      BY <1>1, <3>1
    <3>3. Safe
      BY <3>2, Zenon DEF IInv, Safe
    <3> QED BY <1>0, <2>3, <3>2, <3>3, SafeCleanup, Zenon
  <2> QED BY <1>3, <2>1, <2>2, <2>3, Zenon DEF Next
<1> QED BY <1>2, <1>3, Zenon

LEMMA Invariant == Spec => []IInv
<1> QED BY Initially, Preserved, PTL DEF Spec

LEMMA TypesFollow == TypeInv => TypeOK
<1> SUFFICES ASSUME TypeInv PROVE TypeOK
  OBVIOUS
<1>0. /\ NumBatches \in Nat /\ virtual \in 0 .. NumBatches
      /\ verified \in Nat /\ ethVerified \in Nat /\ verified <= ethVerified /\ ethVerified <= virtual
  BY ConstantsAssumption, Zenon DEF TypeInv, ChainTypes
<1>1. ASSUME NEW r \in RangeSet, r = NoProof \/ Proper(r)
      PROVE  r \in Ranges
  <2>1. r = Range2(r.from, r.to)
    BY Zenon DEF RangeSet, Range2
  <2>2. r.from \in 0 .. NumBatches /\ r.to \in 0 .. NumBatches
    BY <1>0, <1>1 DEF RangeSet, NoProof, Range2, Proper
  <2> QED BY <2>1, <2>2 DEF Ranges
<1>2. proof \in [Provers -> Ranges]
  BY <1>1, Zenon DEF TypeInv, GoroutineTypes
<1>3. sent \in Ranges /\ monitored \subseteq Ranges
  BY <1>1, Zenon DEF TypeInv, SenderTypes
<1>4. \A r \in rows : /\ r.from \in 1 .. r.to /\ r.to \in 1 .. NumBatches
                      /\ Unlocked(r) => r.done
  BY <1>0 DEF TypeInv, RowSet, Proper, Unlocked, ChainTypes, RowOK
<1> QED BY <1>0, <1>2, <1>3, <1>4 DEF TypeOK

\* state.proof: as long as CleanupLockedProofs deletes no lock under its holder,
\* no two rows share a batch, for any number of provers and any sequences,
\* whatever proofs and sends fail and however often the aggregator restarts.
THEOREM RowsStayDisjoint == Spec => []RowsDisjoint
<1>1. IInv => RowsDisjoint
  BY TypesFollow, Zenon DEF IInv, SenderInv, Apart, RowsDisjoint
<1> QED BY Invariant, <1>1, PTL

\* getAndLockProofReadyToVerify, getAndLockProofsToAggregate and
\* getAndLockBatchToProve: what one prover or sendFinalProof has in its hand no
\* other has, with the lock (generating_since) as the only exclusion between calls.
THEOREM LocksExclude == Spec => []NoDoubleWork
<1>1. IInv => NoDoubleWork
  BY Zenon DEF IInv, ProverInv, Sending, NoDoubleWork, HeldDisjoint, SentDisjoint
<1> QED BY Invariant, <1>1, PTL

\* sendFinalProof: the proof given to the eth tx manager starts at the batch after
\* the last one verified on L1 and consists of whole sequences, although
\* canVerifyProof and the last verified batch were read long before.
THEOREM FinalProofsInOrder == Spec => []FinalProofIsNext
<1>1. IInv => FinalProofIsNext
  BY Zenon DEF IInv, SenderInv, FinalProofIsNext, SentInv
<1> QED BY Invariant, <1>1, PTL
=============================================================================
