------------------------- MODULE ForcedBatchesProofs -------------------------
(***************************************************************************)
(* Forced batches enter the state once each and in order, and none that    *)
(* the manager sent is forgotten: for any forced batches, any finality and *)
(* any number of executor failures and restarts.                           *)
(***************************************************************************)
EXTENDS ForcedBatches, FiniteSetTheorems, WellFoundedInduction, TLAPS

K == Len(BlockNumber)

BatchSet == [forced : 0 .. K, closed : BOOLEAN, l1 : Nat, stored : BOOLEAN]

TypeInv ==
  /\ deployment \in Deployments
  /\ l1Block \in 0 .. MaxL1Block
  /\ batches \in Seq(BatchSet) /\ batches # <<>>
  /\ toSend \in Seq(Forced) /\ lastSent \in 0 .. K /\ received \in 0 .. K
  /\ nextForcedBatches \in Seq(Forced)
  /\ pc \in {"run", "forced", "open", "down"}
  /\ last \in Nat /\ next \in Nat /\ pos \in Nat

-----------------------------------------------------------------------------
(* The inductive invariant.                                                *)

\* The batches are closed but for a WIP batch at the end, ...
ClosedButWIP(bs) ==
  \A i \in 1 .. Len(bs) :
    /\ bs[i].forced # 0 => bs[i].closed
    /\ bs[i].closed \/ i = Len(bs)

\* ... and hold the forced batches 1, 2, ... in this order.
InOrder(bs) ==
  \A j \in 1 .. Len(bs) : bs[j].forced # 0 =>
    /\ \A i \in 1 .. j - 1 : bs[i].forced < bs[j].forced
    /\ \A n \in 1 .. bs[j].forced - 1 : \E i \in 1 .. j - 1 : bs[i].forced = n

Sorted(s) == \A i, j \in 1 .. Len(s) : i < j => s[i] <= s[j]

BatchInv == ClosedButWIP(batches) /\ InOrder(batches) /\ (LastBatch.closed <=> pc # "run")

\* The manager sends the forced batches one after the other.
ManagerInv ==
  /\ \A i \in 1 .. Len(toSend) : toSend[i] = lastSent + i
  /\ received \in {0, lastSent}

\* What was sent is in the state, in the list or in the listener's hand.
Covered ==
  \A n \in 1 .. lastSent :
    n <= LastTrusted \/ n \in Range(nextForcedBatches) \/ n = received
ListInv ==
  /\ Sorted(nextForcedBatches)
  /\ \A i \in 1 .. Len(nextForcedBatches) : nextForcedBatches[i] <= lastSent
  /\ Covered

\* processForcedBatches is past the part of the list that is in the state; a new
\* WIP batch can be opened unless the last batch was a forced one with txs.
LoopInv ==
  /\ pc = "forced" =>
       /\ next = LastTrusted + 1 /\ last = Len(batches)
       /\ pos \in 1 .. Len(nextForcedBatches) + 1
       /\ \A i \in 1 .. pos - 1 : nextForcedBatches[i] < next
  /\ pc = "open" => last = Len(batches) \/ LastBatch.forced \in WithTxs
  /\ pc = "down" => LastBatch.forced \in WithTxs

IInv == TypeInv /\ BatchInv /\ ManagerInv /\ ListInv /\ LoopInv

-----------------------------------------------------------------------------
(* Bounded sets of numbers.                                                *)

\* A set of numbers has a least element.
LEMMA LeastOf ==
  ASSUME NEW S, S \subseteq Nat, S # {}
  PROVE  \E m \in S : \A y \in S : m <= y
<1>1. PICK m \in S : \A y \in S : ~(<<y, m>> \in OpToRel(<, Nat))
  BY WFMin, NatLessThanWellFounded, Zenon
<1>2. \A y \in S : y \in Nat /\ m \in Nat /\ ~(y < m)
  BY <1>1, Zenon DEF OpToRel
<1>3. \A y \in S : m <= y
  BY <1>2
<1> QED BY <1>3, Zenon

\* A bounded one has a greatest element.
LEMMA GreatestOf ==
  ASSUME NEW n \in Nat, NEW S, S \subseteq 0 .. n, S # {}
  PROVE  \E m \in S : \A y \in S : y <= m
<1> DEFINE T == {n - x : x \in S}
<1>1. \A x \in S : n - x \in Nat
  OBVIOUS
<1>2. T \subseteq Nat /\ T # {}
  BY <1>1, Zenon
<1>3. PICK m \in T : \A y \in T : m <= y
  BY <1>2, LeastOf, Zenon
<1>4. PICK x \in S : m = n - x
  BY Zenon
<1>5. \A y \in S : m <= n - y
  BY <1>3, Zenon
<1>6. \A y \in S : y <= x
  BY <1>4, <1>5
<1> QED BY <1>6, Zenon

\* The elements of a sequence with one appended.
LEMMA AppendElements ==
  ASSUME NEW S, NEW q \in Seq(S), NEW b \in S
  PROVE  /\ Append(q, b) \in Seq(S) /\ Append(q, b) # <<>>
         /\ Len(Append(q, b)) = Len(q) + 1 /\ Append(q, b)[Len(q) + 1] = b
         /\ \A i \in 1 .. Len(q) : Append(q, b)[i] = q[i]
OBVIOUS

\* The forced batches are numbered from 1.
LEMMA ForcedIs == K \in Nat /\ Forced = 1 .. K /\ \A n \in Forced : BlockNumber[n] \in Nat
BY ConstantsAssumption DEF K, Forced

-----------------------------------------------------------------------------
(* GetLastTrustedForcedBatchNumber.                                        *)

\* The columns of a batch.
LEMMA Columns ==
  ASSUME NEW bs \in Seq(BatchSet), NEW i \in 1 .. Len(bs)
  PROVE  bs[i] \in BatchSet /\ bs[i].forced \in 0 .. K /\ bs[i].closed \in BOOLEAN
<1>1. bs[i] \in BatchSet
  OBVIOUS
<1> QED BY <1>1, Zenon DEF BatchSet

\* It is the greatest of the numbers of the batches.
LEMMA LastForcedIs ==
  ASSUME NEW bs \in Seq(BatchSet), bs # <<>>
  PROVE  /\ LastForced(bs) \in 0 .. K
         /\ \E i \in 1 .. Len(bs) : bs[i].forced = LastForced(bs)
         /\ \A i \in 1 .. Len(bs) : bs[i].forced <= LastForced(bs)
<1> DEFINE held == {bs[i].forced : i \in DOMAIN bs}
<1>0. DOMAIN bs = 1 .. Len(bs) /\ 1 \in 1 .. Len(bs)
  OBVIOUS
<1>1. \A i \in 1 .. Len(bs) : bs[i].forced \in 0 .. K
  BY Columns, Zenon
<1>2. held \subseteq 0 .. K /\ held # {}
  BY <1>0, <1>1, Zenon
<1>3. \E m \in held : \A y \in held : y <= m
  BY <1>2, GreatestOf, ForcedIs, Zenon
<1>4. LastForced(bs) = CHOOSE n \in held : \A m \in held : m <= n
  BY Zenon DEF LastForced
<1>5. LastForced(bs) \in held /\ \A m \in held : m <= LastForced(bs)
  <2> HIDE DEF held
  <2> QED BY <1>3, <1>4, Zenon
<1> QED BY <1>0, <1>2, <1>5, Zenon

\* A number that some batch has and none exceeds is it.
LEMMA LastForcedUnique ==
  ASSUME NEW bs \in Seq(BatchSet), bs # <<>>, NEW m \in 0 .. K,
         \E i \in 1 .. Len(bs) : bs[i].forced = m,
         \A i \in 1 .. Len(bs) : bs[i].forced <= m
  PROVE  LastForced(bs) = m
<1>1. LastForced(bs) <= m /\ m <= LastForced(bs)
  BY LastForcedIs, Zenon
<1> QED BY <1>1, LastForcedIs

\* A WIP batch does not change it, ...
LEMMA LastForcedWIP ==
  ASSUME NEW bs \in Seq(BatchSet), bs # <<>>
  PROVE  /\ Append(bs, WIPBatch) \in Seq(BatchSet) /\ Append(bs, WIPBatch) # <<>>
         /\ LastForced(Append(bs, WIPBatch)) = LastForced(bs)
<1> DEFINE c == Append(bs, WIPBatch)
<1>1. WIPBatch \in BatchSet /\ WIPBatch.forced = 0
  BY ForcedIs DEF WIPBatch, Batch, BatchSet
<1>2. /\ c \in Seq(BatchSet) /\ c # <<>> /\ Len(c) = Len(bs) + 1
      /\ c[Len(bs) + 1] = WIPBatch /\ \A i \in 1 .. Len(bs) : c[i] = bs[i]
  BY <1>1
<1> HIDE DEF c
<1>3. PICK i \in 1 .. Len(bs) : bs[i].forced = LastForced(bs)
  BY LastForcedIs, Zenon
<1>4. i \in 1 .. Len(c) /\ c[i].forced = LastForced(bs)
  BY <1>2, <1>3
<1>5. \A j \in 1 .. Len(c) : c[j].forced <= LastForced(bs)
  <2>1. LastForced(bs) \in Nat /\ \A j \in 1 .. Len(bs) : bs[j].forced <= LastForced(bs)
    BY LastForcedIs
  <2>2. \A j \in 1 .. Len(c) : j \in 1 .. Len(bs) \/ j = Len(bs) + 1
    BY <1>2
  <2> QED BY <1>1, <1>2, <2>1, <2>2
<1>6. LastForced(c) = LastForced(bs)
  BY <1>2, <1>4, <1>5, LastForcedIs, LastForcedUnique, Zenon
<1> QED BY <1>2, <1>6, Zenon DEF c

\* ... nor does closing a batch.
LEMMA LastForcedClose ==
  ASSUME NEW bs \in Seq(BatchSet), bs # <<>>, NEW x \in BatchSet,
         x.forced = bs[Len(bs)].forced, x.closed = TRUE,
         NEW c \in Seq(BatchSet), Len(c) = Len(bs), c[Len(bs)] = x,
         \A i \in 1 .. Len(bs) - 1 : c[i] = bs[i]
  PROVE  /\ c # <<>>
         /\ \A i \in 1 .. Len(bs) : c[i].forced = bs[i].forced
         /\ \A i \in 1 .. Len(bs) : bs[i].closed \/ i = Len(bs) => c[i].closed
         /\ LastForced(c) = LastForced(bs)
<1>3. c # <<>>
  OBVIOUS
<1>4. c[Len(bs)].forced = bs[Len(bs)].forced /\ c[Len(bs)].closed = TRUE
  BY <1>3, Zenon
<1>5. \A i \in 1 .. Len(bs) : bs[i].closed \in BOOLEAN
  BY Columns, Zenon
<1>6. \A i \in 1 .. Len(bs) :
        /\ c[i].forced = bs[i].forced
        /\ bs[i].closed \/ i = Len(bs) => c[i].closed
  <2> TAKE i \in 1 .. Len(bs)
  <2>1. CASE i = Len(bs)
    BY <1>4, <2>1, Zenon
  <2>2. CASE i # Len(bs)
    <3>0. i \in 1 .. Len(bs) - 1
      BY <2>2
    <3>1. c[i] = bs[i]
      BY <1>3, <3>0, Zenon
    <3> QED BY <1>5, <2>2, <3>1, Zenon
  <2> QED BY <2>1, <2>2, Zenon
<1>7. LastForced(c) = LastForced(bs)
  <2>1. LastForced(bs) \in 0 .. K
    BY LastForcedIs, Zenon
  <2>2. \A i \in 1 .. Len(c) : c[i].forced <= LastForced(bs)
    BY <1>3, <1>6, LastForcedIs, Zenon
  <2>3. PICK k \in 1 .. Len(bs) : bs[k].forced = LastForced(bs)
    BY LastForcedIs, Zenon
  <2>4. k \in 1 .. Len(c) /\ c[k].forced = LastForced(bs)
    BY <1>3, <1>6, <2>3, Zenon
  <2> QED BY <1>3, <2>1, <2>2, <2>4, LastForcedUnique, Zenon
<1> QED BY <1>3, <1>6, <1>7, Zenon

\* The next forced batch takes its place.
LEMMA LastForcedNext ==
  ASSUME NEW bs \in Seq(BatchSet), bs # <<>>, NEW b \in BatchSet,
         b.forced = LastForced(bs) + 1
  PROVE  /\ Append(bs, b) \in Seq(BatchSet) /\ Append(bs, b) # <<>>
         /\ LastForced(Append(bs, b)) = b.forced
<1> DEFINE c == Append(bs, b)
<1>1. /\ c \in Seq(BatchSet) /\ c # <<>> /\ Len(c) = Len(bs) + 1
      /\ c[Len(bs) + 1] = b /\ \A i \in 1 .. Len(bs) : c[i] = bs[i]
  OBVIOUS
<1> HIDE DEF c
<1>2. b.forced \in 0 .. K
  BY Zenon DEF BatchSet
<1>3. Len(bs) + 1 \in 1 .. Len(c) /\ c[Len(bs) + 1].forced = b.forced
  BY <1>1
<1>4. \A j \in 1 .. Len(c) : c[j].forced <= b.forced
  BY <1>1, <1>2, LastForcedIs
<1>5. LastForced(c) = b.forced
  BY <1>1, <1>2, <1>3, <1>4, LastForcedUnique, Zenon
<1> QED BY <1>1, <1>5, Zenon DEF c

\* Closing the last batch, opening a WIP batch and adding the next forced batch
\* keep the order.
LEMMA OrderKept ==
  ASSUME NEW bs \in Seq(BatchSet), bs # <<>>, InOrder(bs)
  PROVE  /\ \A x \in BatchSet :
              x.forced = bs[Len(bs)].forced => InOrder([bs EXCEPT ![Len(bs)] = x])
         /\ InOrder(Append(bs, WIPBatch))
         /\ \A b \in BatchSet : b.forced = LastForced(bs) + 1 => InOrder(Append(bs, b))
<1>1. ASSUME NEW c, Len(c) = Len(bs), \A i \in 1 .. Len(bs) : c[i].forced = bs[i].forced
      PROVE  InOrder(c)
  <2> SUFFICES ASSUME NEW j \in 1 .. Len(bs), c[j].forced # 0
               PROVE  /\ \A i \in 1 .. j - 1 : c[i].forced < c[j].forced
                      /\ \A n \in 1 .. c[j].forced - 1 : \E i \in 1 .. j - 1 : c[i].forced = n
    BY <1>1, Zenon DEF InOrder
  <2>1. 1 .. j - 1 \subseteq 1 .. Len(bs)
    OBVIOUS
  <2>2. c[j].forced = bs[j].forced /\ \A i \in 1 .. j - 1 : c[i].forced = bs[i].forced
    BY <1>1, <2>1, Zenon
  <2>3. /\ \A i \in 1 .. j - 1 : bs[i].forced < bs[j].forced
        /\ \A n \in 1 .. bs[j].forced - 1 : \E i \in 1 .. j - 1 : bs[i].forced = n
    BY <2>2, Zenon DEF InOrder
  <2> QED BY <2>2, <2>3, Zenon
<1>2. ASSUME NEW x \in BatchSet, x.forced = bs[Len(bs)].forced
      PROVE  InOrder([bs EXCEPT ![Len(bs)] = x])
  <2> DEFINE c == [bs EXCEPT ![Len(bs)] = x]
  <2>1. Len(c) = Len(bs) /\ c[Len(bs)] = x /\ \A i \in 1 .. Len(bs) - 1 : c[i] = bs[i]
    OBVIOUS
  <2> HIDE DEF c
  <2>2. \A i \in 1 .. Len(bs) : i = Len(bs) \/ i \in 1 .. Len(bs) - 1
    OBVIOUS
  <2>3. \A i \in 1 .. Len(bs) : c[i].forced = bs[i].forced
    BY <1>2, <2>1, <2>2, Zenon
  <2> QED BY <1>1, <2>1, <2>3, Zenon DEF c
<1>3. ASSUME NEW b \in BatchSet,
             b.forced = 0 \/ b.forced = LastForced(bs) + 1
      PROVE  InOrder(Append(bs, b))
  <2> DEFINE c == Append(bs, b)
  <2>1. /\ Len(c) = Len(bs) + 1 /\ Len(bs) \in Nat
        /\ c[Len(bs) + 1] = b /\ \A i \in 1 .. Len(bs) : c[i] = bs[i]
    OBVIOUS
  <2> HIDE DEF c
  <2> SUFFICES ASSUME NEW j \in 1 .. Len(c), c[j].forced # 0
               PROVE  /\ \A i \in 1 .. j - 1 : c[i].forced < c[j].forced
                      /\ \A n \in 1 .. c[j].forced - 1 : \E i \in 1 .. j - 1 : c[i].forced = n
    BY Zenon DEF InOrder, c
  <2>2. 1 .. j - 1 \subseteq 1 .. Len(bs)
    BY <2>1
  <2>3. CASE j \in 1 .. Len(bs)
    <3>1. c[j] = bs[j] /\ \A i \in 1 .. j - 1 : c[i] = bs[i]
      BY <2>1, <2>2, <2>3, Zenon
    <3>2. /\ \A i \in 1 .. j - 1 : bs[i].forced < bs[j].forced
          /\ \A n \in 1 .. bs[j].forced - 1 : \E i \in 1 .. j - 1 : bs[i].forced = n
      BY <2>3, <3>1, Zenon DEF InOrder
    <3> QED BY <3>1, <3>2, Zenon
  <2>4. CASE j = Len(bs) + 1
    <3>1. c[j] = b /\ b.forced = LastForced(bs) + 1 /\ 1 .. j - 1 = 1 .. Len(bs)
      BY <1>3, <2>1, <2>4
    <3>2. /\ LastForced(bs) \in Nat
          /\ \A i \in 1 .. Len(bs) : bs[i].forced \in Nat /\ bs[i].forced <= LastForced(bs)
      BY LastForcedIs, Columns
    <3>3. \A i \in 1 .. j - 1 : c[i].forced < c[j].forced
      BY <2>1, <3>1, <3>2
    <3>4. ASSUME NEW n \in 1 .. c[j].forced - 1 PROVE \E i \in 1 .. j - 1 : c[i].forced = n
      <4>1. PICK k \in 1 .. Len(bs) : bs[k].forced = LastForced(bs)
        BY LastForcedIs, Zenon
      <4>2. n \in 1 .. LastForced(bs)
        BY <3>1, <3>2, <3>4
      <4>3. CASE n = LastForced(bs)
        BY <2>1, <3>1, <4>1, <4>3, Zenon
      <4>4. CASE n # LastForced(bs)
        <5>1. n \in 1 .. bs[k].forced - 1 /\ bs[k].forced # 0
          BY <3>2, <4>1, <4>2, <4>4
        <5>2. PICK i \in 1 .. k - 1 : bs[i].forced = n
          BY <5>1, Zenon DEF InOrder
        <5>3. i \in 1 .. Len(bs)
          BY <2>1, <5>2
        <5> QED BY <2>1, <3>1, <5>2, <5>3, Zenon
      <4> QED BY <4>3, <4>4, Zenon
    <3> QED BY <3>3, <3>4, Zenon
  <2> QED BY <2>1, <2>3, <2>4
<1>4. WIPBatch \in BatchSet /\ WIPBatch.forced = 0
  BY ForcedIs DEF WIPBatch, Batch, BatchSet
<1> QED BY <1>2, <1>3, <1>4, Zenon

-----------------------------------------------------------------------------
(* GetForcedBatchesSince.                                                  *)

\* An ascending sequence of the numbers of an interval counts them.
LEMMA AscendingIs ==
  ASSUME NEW a \in Nat, NEW c \in Nat, NEW s \in [1 .. c -> a + 1 .. a + c],
         \A i, j \in 1 .. c : i < j => s[i] < s[j]
  PROVE  \A i \in 1 .. c : s[i] = a + i
<1>1. \A i \in 1 .. c : s[i] \in Nat /\ a + 1 <= s[i] /\ s[i] <= a + c
  OBVIOUS
<1>2. \A i \in 1 .. c : s[i] >= a + i
  <2> DEFINE low == {i \in 1 .. c : s[i] < a + i}
  <2>1. low \subseteq Nat
    OBVIOUS
  <2>2. SUFFICES ASSUME low # {} PROVE FALSE
    BY <1>1
  <2>3. PICK m \in low : \A y \in low : m <= y
    BY <2>1, <2>2, LeastOf, Zenon
  <2>4. m \in 1 .. c /\ s[m] < a + m
    BY Zenon
  <2>5. m # 1
    BY <1>1, <2>4
  <2>6. m - 1 \in 1 .. c /\ m - 1 < m /\ ~(m - 1 \in low)
    BY <2>3, <2>4, <2>5
  <2>7. s[m - 1] >= a + (m - 1) /\ s[m - 1] < s[m]
    BY <1>1, <2>4, <2>6
  <2> QED BY <1>1, <2>4, <2>6, <2>7
<1>3. \A i \in 1 .. c : s[i] <= a + i
  <2> DEFINE high == {i \in 1 .. c : s[i] > a + i}
  <2>1. high \subseteq 0 .. c
    OBVIOUS
  <2>2. SUFFICES ASSUME high # {} PROVE FALSE
    BY <1>1
  <2>3. PICK m \in high : \A y \in high : y <= m
    BY <2>1, <2>2, GreatestOf, Zenon
  <2>4. m \in 1 .. c /\ s[m] > a + m
    BY Zenon
  <2>5. m # c
    BY <1>1, <2>4
  <2>6. m + 1 \in 1 .. c /\ m < m + 1 /\ ~(m + 1 \in high)
    BY <2>3, <2>4, <2>5
  <2>7. s[m + 1] <= a + (m + 1) /\ s[m] < s[m + 1]
    BY <1>1, <2>4, <2>6
  <2> QED BY <1>1, <2>4, <2>6, <2>7
<1> TAKE i \in 1 .. c
<1>4. s[i] \in Nat /\ s[i] >= a + i /\ s[i] <= a + i
  BY <1>1, <1>2, <1>3, Zenon
<1> QED BY <1>4

\* The forced batches since n that are final are n + 1, n + 2, ...
LEMMA SinceIs ==
  ASSUME NEW n \in 0 .. K, l1Block \in Nat
  PROVE  /\ ForcedBatchesSince(n) \in Seq(Forced)
         /\ \A i \in 1 .. Len(ForcedBatchesSince(n)) : ForcedBatchesSince(n)[i] = n + i
<1> DEFINE found == {m \in Forced : m > n /\ BlockNumber[m] <= MaxBlockNumber}
<1>1. PICK c \in Nat : found = n + 1 .. n + c /\ n + c <= K
  <2>1. CASE found = {}
    <3>1. found = n + 1 .. n + 0 /\ n + 0 <= K
      BY <2>1, ForcedIs
    <3> QED BY <3>1, Zenon
  <2>2. CASE found # {}
    <3>1. found \subseteq 0 .. K
      BY ForcedIs
    <3>2. PICK t \in found : \A y \in found : y <= t
      BY <2>2, <3>1, ForcedIs, GreatestOf, Zenon
    <3>3. t \in Forced /\ t > n /\ BlockNumber[t] <= MaxBlockNumber
      BY Zenon
    <3>4. MaxBlockNumber \in Nat
      BY ConstantsAssumption DEF MaxBlockNumber
    <3>5. ASSUME NEW m \in n + 1 .. t PROVE m \in found
      <4>1. m \in Forced /\ m > n /\ (m < t \/ m = t)
        BY <3>3, <3>5, ForcedIs
      <4>2. BlockNumber[m] <= BlockNumber[t]
        BY <3>3, <4>1, ForcedIs, ConstantsAssumption
      <4>3. BlockNumber[m] <= MaxBlockNumber
        BY <3>3, <3>4, <4>1, <4>2, ForcedIs
      <4> QED BY <4>1, <4>3, Zenon
    <3>6. \A m \in found : m \in n + 1 .. t
      BY <3>2, <3>3, ForcedIs
    <3> HIDE DEF found
    <3>7. found = n + 1 .. t
      BY <3>5, <3>6, Zenon
    <3>8. t = n + (t - n) /\ t <= K /\ t - n \in Nat
      BY <3>3, ForcedIs
    <3> QED BY <3>7, <3>8, Zenon
  <2> QED BY <2>1, <2>2, Zenon
<1>2. Cardinality(found) = c
  <2>1. n + 1 \in Int /\ n + c \in Int /\ (IF n + 1 > n + c THEN 0 ELSE (n + c) - (n + 1) + 1) = c
    BY ForcedIs
  <2> QED BY <1>1, <2>1, FS_Interval, Zenon
<1> DEFINE s == ForcedBatchesSince(n)
           Asc(f) == \A i, j \in DOMAIN f : i < j => f[i] < f[j]
<1>3. s = CHOOSE f \in [1 .. c -> found] : Asc(f)
  BY <1>2, Zenon DEF ForcedBatchesSince
<1>4. \E f \in [1 .. c -> found] : Asc(f)
  <2> DEFINE f == [i \in 1 .. c |-> n + i]
  <2>1. \A i \in 1 .. c : n + i \in n + 1 .. n + c
    BY ForcedIs
  <2>2. f \in [1 .. c -> found]
    BY <1>1, <2>1, Zenon
  <2>3. Asc(f)
    BY ForcedIs
  <2> QED BY <2>2, <2>3, Zenon
<1> HIDE DEF s
<1>5. s \in [1 .. c -> found] /\ Asc(s)
  <2> HIDE DEF found, Asc
  <2> QED BY <1>3, <1>4, Zenon
<1>6. \A i \in 1 .. c : s[i] = n + i
  <2>0. n \in Nat
    BY ForcedIs
  <2>1. s \in [1 .. c -> n + 1 .. n + c]
    BY <1>1, <1>5, Zenon
  <2>2. \A i, j \in 1 .. c : i < j => s[i] < s[j]
    BY <1>5, Zenon
  <2> QED BY <2>0, <2>1, <2>2, AscendingIs, Zenon
<1>7. s \in Seq(Forced) /\ Len(s) = c
  BY <1>1, <1>5, ForcedIs
<1> QED BY <1>6, <1>7, Zenon DEF s

-----------------------------------------------------------------------------
(* sortForcedBatches.                                                      *)

\* A permutation that sorts the list with r appended: r goes before the first
\* element that is greater.
LEMMA InsertionSorts ==
  ASSUME NEW s \in Seq(Nat), Sorted(s), NEW r \in Nat, NEW N, N = Len(s) + 1,
         NEW q, q = Append(s, r)
  PROVE  \E p \in Bijection(1 .. N, 1 .. N) : \A i, j \in 1 .. N : i < j => q[p[i]] <= q[p[j]]
<1>0. /\ N \in Nat /\ N >= 1 /\ q[N] = r /\ \A i \in 1 .. N - 1 : q[i] = s[i] /\ s[i] \in Nat
      /\ 1 .. Len(s) = 1 .. N - 1
  OBVIOUS
<1> DEFINE above == {i \in 1 .. N : i = N \/ s[i] > r}
<1>1. above \subseteq Nat /\ N \in above
  BY <1>0
<1>2. PICK k \in above : \A y \in above : k <= y
  BY <1>1, LeastOf, Zenon
<1>3. /\ k \in 1 .. N
      /\ \A i \in 1 .. k - 1 : i \in 1 .. N - 1 /\ s[i] <= r
      /\ \A i \in k .. N - 1 : i \in 1 .. N - 1 /\ s[i] > r
  <2>1. k \in 1 .. N /\ (k = N \/ s[k] > r)
    BY Zenon
  <2>2. ASSUME NEW i \in 1 .. k - 1 PROVE i \in 1 .. N - 1 /\ s[i] <= r
    <3>1. i \in 1 .. N - 1 /\ i \in 1 .. N /\ ~(k <= i) /\ i # N
      BY <1>0, <2>1, <2>2
    <3>2. ~(i \in above)
      BY <1>2, <3>1, Zenon
    <3> QED BY <1>0, <3>1, <3>2
  <2>3. ASSUME NEW i \in k .. N - 1 PROVE i \in 1 .. N - 1 /\ s[i] > r
    <3>1. i \in 1 .. N - 1 /\ k \in 1 .. N - 1 /\ s[k] > r /\ (k < i \/ k = i)
      BY <1>0, <2>1, <2>3
    <3>2. s[k] <= s[i]
      BY <1>0, <3>1 DEF Sorted
    <3> QED BY <1>0, <3>1, <3>2
  <2> QED BY <2>1, <2>2, <2>3, Zenon
<1> HIDE DEF above
<1> DEFINE p == [i \in 1 .. N |-> IF i < k THEN i ELSE IF i = k THEN N ELSE i - 1]
<1>4. \A i \in 1 .. N : /\ i < k => p[i] = i
                        /\ i = k => p[i] = N
                        /\ i > k => p[i] = i - 1
  BY <1>0, <1>3
<1>5. p \in [1 .. N -> 1 .. N]
  BY <1>0, <1>3
<1> HIDE DEF p
<1>6. \A i, j \in 1 .. N : p[i] = p[j] => i = j
  BY <1>0, <1>3, <1>4
<1>7. \A t \in 1 .. N : \E i \in 1 .. N : p[i] = t
  <2> TAKE t \in 1 .. N
  <2>1. CASE t < k
    BY <1>4, <2>1, Zenon
  <2>2. CASE t = N
    BY <1>3, <1>4, <2>2, Zenon
  <2>3. CASE t >= k /\ t # N
    <3>1. t + 1 \in 1 .. N /\ t + 1 > k /\ (t + 1) - 1 = t
      BY <1>0, <1>3, <2>3
    <3> QED BY <1>4, <3>1, Zenon
  <2> QED BY <1>3, <2>1, <2>2, <2>3
<1>8. p \in Bijection(1 .. N, 1 .. N)
  <2>1. DOMAIN p = 1 .. N
    BY <1>5, Zenon
  <2> QED BY <1>5, <1>6, <1>7, <2>1, Zenon DEF Bijection, Injection, Surjection, IsInjective
<1>9. \A i \in 1 .. N : /\ i < k => q[p[i]] = s[i] /\ q[p[i]] <= r
                        /\ i = k => q[p[i]] = r
                        /\ i > k => q[p[i]] = s[i - 1] /\ q[p[i]] > r
  <2> TAKE i \in 1 .. N
  <2>1. CASE i < k
    BY <1>0, <1>3, <1>4, <2>1
  <2>2. CASE i = k
    BY <1>0, <1>4, <2>2
  <2>3. CASE i > k
    <3>1. i - 1 \in k .. N - 1 /\ p[i] = i - 1
      BY <1>3, <1>4, <2>3
    <3> QED BY <1>0, <1>3, <2>3, <3>1
  <2> QED BY <1>3, <2>1, <2>2, <2>3, Zenon
<1> DEFINE v(i) == q[p[i]]
<1>10. \A i \in 1 .. N :
         /\ i < k => i \in 1 .. N - 1 /\ v(i) = s[i] /\ v(i) \in Nat /\ v(i) <= r
         /\ i = k => v(i) = r
         /\ i > k => i - 1 \in 1 .. N - 1 /\ v(i) = s[i - 1] /\ v(i) \in Nat /\ r < v(i)
  <2>1. \A i \in 1 .. N : i < k => i \in 1 .. N - 1
    BY <1>3
  <2>2. \A i \in 1 .. N : i > k => i - 1 \in 1 .. N - 1
    BY <1>3
  <2>3. \A i \in 1 .. N : i > k => r < v(i)
    BY <1>9, Zenon
  <2> QED BY <1>0, <1>9, <2>1, <2>2, <2>3, Zenon
<1> HIDE DEF v
<1>11. ASSUME NEW i \in 1 .. N, NEW j \in 1 .. N, i < j PROVE v(i) <= v(j)
  <2>1. CASE j < k
    <3>1. i < k
      BY <1>3, <1>11, <2>1
    <3>2. s[i] <= s[j]
      BY <1>0, <1>10, <1>11, <2>1, <3>1, Zenon DEF Sorted
    <3> QED BY <1>10, <2>1, <3>1, <3>2, Zenon
  <2>2. CASE j = k
    <3>1. i < k
      BY <1>11, <2>2, Zenon
    <3> QED BY <1>10, <2>2, <3>1, Zenon
  <2>3. CASE j > k /\ i < k
    <3>1. v(i) \in Nat /\ v(i) <= r /\ v(j) \in Nat /\ r < v(j)
      BY <1>10, <2>3, Zenon
    <3> QED BY <3>1
  <2>4. CASE j > k /\ i = k
    <3>1. v(i) = r /\ v(j) \in Nat /\ r < v(j)
      BY <1>10, <2>4, Zenon
    <3> QED BY <3>1
  <2>5. CASE i > k
    <3>1. j > k /\ i - 1 < j - 1
      BY <1>3, <1>11, <2>5
    <3>2. s[i - 1] <= s[j - 1]
      BY <1>0, <1>10, <2>5, <3>1, Zenon DEF Sorted
    <3> QED BY <1>10, <2>5, <3>1, <3>2, Zenon
  <2> QED BY <1>3, <1>11, <2>1, <2>2, <2>3, <2>4, <2>5
<1> QED BY <1>8, <1>11, Zenon DEF v

\* Sorting the sorted list with r appended gives the sorted list with r.
LEMMA SortIs ==
  ASSUME NEW s \in Seq(Forced), Sorted(s), NEW r \in Forced
  PROVE  LET t == SortForcedBatches(Append(s, r))
         IN  /\ t \in Seq(Forced) /\ Sorted(t)
             /\ \A m : m \in Range(t) <=> m \in Range(s) \/ m = r
             /\ \A i \in 1 .. Len(t) : t[i] \in Range(s) \cup {r}
<1> DEFINE q == Append(s, r)
           N == Len(s) + 1
           P(p) == \A i, j \in 1 .. N : i < j => q[p[i]] <= q[p[j]]
           p == CHOOSE p \in Bijection(1 .. N, 1 .. N) : P(p)
           t == SortForcedBatches(q)
<1>1. /\ q \in Seq(Forced) /\ DOMAIN q = 1 .. N /\ q[N] = r /\ N \in 1 .. N
      /\ \A i \in 1 .. N - 1 : q[i] = s[i] /\ i \in 1 .. N
      /\ DOMAIN s = 1 .. N - 1 /\ N \in Nat
  OBVIOUS
<1>2. s \in Seq(Nat) /\ r \in Nat
  BY ForcedIs
<1>3. \E f \in Bijection(1 .. N, 1 .. N) : P(f)
  BY <1>2, InsertionSorts, Zenon
<1>4. t = [i \in 1 .. N |-> q[p[i]]]
  <2>1. t = LET g == CHOOSE g \in Bijection(1 .. N, 1 .. N) :
                        \A i, j \in 1 .. N : i < j => q[g[i]] <= q[g[j]]
            IN  [i \in 1 .. N |-> q[g[i]]]
    BY <1>1 DEF SortForcedBatches
  <2> QED BY <2>1, Zenon
<1> HIDE DEF P, q, t
<1>5. p \in Bijection(1 .. N, 1 .. N) /\ P(p)
  BY <1>3, Zenon
<1> HIDE DEF p, N
<1>6. p \in [1 .. N -> 1 .. N] /\ \A k \in 1 .. N : \E i \in 1 .. N : p[i] = k
  BY <1>5, Zenon DEF Bijection, Injection, Surjection
<1>7. \A i \in 1 .. N : q[p[i]] \in Forced
  <2>1. \A k \in 1 .. N : q[k] \in Forced
    BY <1>1
  <2>2. \A i \in 1 .. N : p[i] \in 1 .. N
    BY <1>6, Zenon
  <2> QED BY <2>1, <2>2, Zenon
<1>8. t \in Seq(Forced) /\ Len(t) = N /\ DOMAIN t = 1 .. N /\ \A i \in 1 .. N : t[i] = q[p[i]]
  BY <1>1, <1>4, <1>7
<1>9. Sorted(t)
  BY <1>5, <1>8, Zenon DEF Sorted, P
<1>10. \A i \in 1 .. N : q[i] \in Range(s) \cup {r}
  <2>1. \A i \in 1 .. N : i = N \/ i \in 1 .. N - 1
    BY <1>1
  <2> QED BY <1>1, <2>1, Zenon DEF Range
<1>11. \A m : m \in Range(s) \/ m = r => \E i \in 1 .. N : q[i] = m
  BY <1>1, Zenon DEF Range
<1>12. \A i \in 1 .. N : t[i] \in Range(s) \cup {r}
  BY <1>6, <1>8, <1>10, Zenon
<1>13. ASSUME NEW m, m \in Range(s) \/ m = r PROVE m \in Range(t)
  <2>1. PICK k \in 1 .. N : q[k] = m
    BY <1>11, <1>13, Zenon
  <2>2. PICK i \in 1 .. N : p[i] = k
    BY <1>6, Zenon
  <2> QED BY <1>8, <2>1, <2>2, Zenon DEF Range
<1>14. ASSUME NEW m \in Range(t) PROVE m \in Range(s) \/ m = r
  BY <1>8, <1>12, <1>14, Zenon DEF Range
<1> QED BY <1>8, <1>9, <1>12, <1>13, <1>14, Zenon DEF t, q

-----------------------------------------------------------------------------
(* Every action keeps the invariant.                                       *)

\* What a step leaves alone keeps its invariant.
LEMMA PartsKept ==
  /\ BatchInv /\ UNCHANGED <<batches, pc>> => BatchInv'
  /\ ManagerInv /\ UNCHANGED <<toSend, lastSent, received>> => ManagerInv'
  /\ ListInv /\ UNCHANGED <<batches, lastSent, nextForcedBatches, received>> => ListInv'
  /\ LoopInv /\ UNCHANGED <<deployment, batches, nextForcedBatches, pc, last, next, pos>>
       => LoopInv'
<1>1. BatchInv /\ UNCHANGED <<batches, pc>> => BatchInv'
  BY Zenon DEF BatchInv, LastBatch
<1>2. ManagerInv /\ UNCHANGED <<toSend, lastSent, received>> => ManagerInv'
  BY Zenon DEF ManagerInv
<1>3. ListInv /\ UNCHANGED <<batches, lastSent, nextForcedBatches, received>> => ListInv'
  BY Zenon DEF ListInv, Covered, LastTrusted
<1>4. LoopInv /\ UNCHANGED <<deployment, batches, nextForcedBatches, pc, last, next, pos>>
        => LoopInv'
  BY Zenon DEF LoopInv, LastTrusted, LastBatch, WithTxs
<1> QED BY <1>1, <1>2, <1>3, <1>4, Zenon

\* The number of the last forced batch of the state, and the length of the state.
LEMMA StateFacts ==
  ASSUME TypeInv
  PROVE  /\ LastTrusted \in 0 .. K /\ K \in Nat /\ Forced = 1 .. K
         /\ Len(batches) \in Nat /\ Len(batches) \in 1 .. Len(batches)
<1>1. LastTrusted \in 0 .. K
  BY LastForcedIs, Zenon DEF TypeInv, LastTrusted
<1>2. Len(batches) \in Nat /\ Len(batches) \in 1 .. Len(batches)
  BY DEF TypeInv
<1> QED BY <1>1, <1>2, ForcedIs, Zenon

\* What was sent stays covered when the state gains a forced batch.
LEMMA ListStep ==
  ASSUME TypeInv, TypeInv', ListInv, LastTrusted' >= LastTrusted,
         UNCHANGED <<lastSent, nextForcedBatches, received>>
  PROVE  ListInv'
<1>1. LastTrusted \in Nat /\ LastTrusted' \in Nat
  <2>1. LastTrusted' \in 0 .. K
    BY LastForcedIs, Zenon DEF TypeInv, LastTrusted
  <2> QED BY <2>1, StateFacts
<1>2. Covered'
  BY <1>1 DEF ListInv, Covered
<1> QED BY <1>2, Zenon DEF ListInv

LEMMA SyncKeeps ==
  ASSUME IInv, SyncL1Block, UNCHANGED deployment
  PROVE  IInv'
<1>1. UNCHANGED <<batches, toSend, lastSent, received, nextForcedBatches, pc, last, next, pos>>
  BY Zenon DEF SyncL1Block, managerVars, listVars, loopVars
<1>2. l1Block' \in 0 .. MaxL1Block
  BY ConstantsAssumption DEF IInv, TypeInv, SyncL1Block
<1>3. TypeInv'
  BY <1>1, <1>2, Zenon DEF IInv, TypeInv
<1> QED BY <1>1, <1>3, PartsKept, Zenon DEF IInv

LEMMA CheckKeeps ==
  ASSUME IInv, CheckForcedBatches, UNCHANGED deployment
  PROVE  IInv'
<1> DEFINE since == IF lastSent = 0 THEN LastTrusted ELSE lastSent
<1>1. UNCHANGED <<l1Block, batches, received, nextForcedBatches, pc, last, next, pos>>
  BY Zenon DEF CheckForcedBatches, listVars, loopVars
<1>2. lastSent' = since /\ toSend' = ForcedBatchesSince(since)
  BY Zenon DEF CheckForcedBatches
<1>3. since \in 0 .. K /\ l1Block \in Nat
  BY StateFacts DEF IInv, TypeInv
<1>4. toSend' \in Seq(Forced) /\ \A i \in 1 .. Len(toSend') : toSend'[i] = lastSent' + i
  BY <1>2, <1>3, SinceIs, Zenon
<1>5. TypeInv'
  BY <1>1, <1>2, <1>3, <1>4, Zenon DEF IInv, TypeInv
<1>6. lastSent = 0 => received = 0 /\ Len(nextForcedBatches) = 0
  BY StateFacts DEF IInv, TypeInv, ManagerInv, ListInv
<1>7. ManagerInv'
  BY <1>1, <1>2, <1>4, <1>6, Zenon DEF IInv, ManagerInv
<1>8. ListInv'
  <2>1. CASE lastSent = 0
    <3>1. \A i \in 1 .. Len(nextForcedBatches) : FALSE
      BY <1>6, <2>1
    <3>2. \A n \in 1 .. lastSent' : n <= LastTrusted
      BY <1>2, <2>1, StateFacts DEF IInv
    <3>3. LastTrusted' = LastTrusted
      BY <1>1, Zenon DEF LastTrusted
    <3> QED BY <1>1, <3>1, <3>2, <3>3, Zenon DEF IInv, ListInv, Covered
  <2>2. CASE lastSent # 0
    BY <1>1, <1>2, <2>2, PartsKept, Zenon DEF IInv
  <2> QED BY <2>1, <2>2, Zenon
<1> QED BY <1>1, <1>5, <1>7, <1>8, PartsKept, Zenon DEF IInv

LEMMA SendKeeps ==
  ASSUME IInv, SendForcedBatch, UNCHANGED deployment
  PROVE  IInv'
<1>1. UNCHANGED <<l1Block, batches, nextForcedBatches, pc, last, next, pos>>
  BY Zenon DEF SendForcedBatch, listVars, loopVars
<1>2. /\ toSend # <<>> /\ received = 0 /\ received' = Head(toSend)
      /\ lastSent' = Head(toSend) /\ toSend' = Tail(toSend)
  BY Zenon DEF SendForcedBatch
<1>3. /\ Head(toSend) \in Forced /\ toSend' \in Seq(Forced)
      /\ Head(toSend) = toSend[1] /\ 1 \in 1 .. Len(toSend)
      /\ \A i \in 1 .. Len(toSend') : toSend'[i] = toSend[i + 1] /\ i + 1 \in 1 .. Len(toSend)
  BY <1>2 DEF IInv, TypeInv
<1>4. lastSent \in Nat /\ lastSent' = lastSent + 1 /\ lastSent' \in 0 .. K
  BY <1>2, <1>3, StateFacts DEF IInv, TypeInv, ManagerInv
<1>5. TypeInv'
  BY <1>1, <1>2, <1>3, <1>4, Zenon DEF IInv, TypeInv
<1>6. ManagerInv'
  <2>1. \A i \in 1 .. Len(toSend') : toSend'[i] = lastSent' + i
    BY <1>3, <1>4 DEF IInv, ManagerInv
  <2> QED BY <1>2, <2>1, Zenon DEF ManagerInv
<1>7. ListInv'
  <2>1. \A n \in 1 .. lastSent' : (n \in 1 .. lastSent /\ n # 0) \/ n = received'
    BY <1>2, <1>4
  <2>2. Covered'
    BY <1>1, <1>2, <2>1, Zenon DEF IInv, ListInv, Covered, LastTrusted
  <2>3. \A i \in 1 .. Len(nextForcedBatches) : nextForcedBatches[i] <= lastSent'
    BY <1>4, StateFacts DEF IInv, TypeInv, ListInv
  <2> QED BY <1>1, <2>2, <2>3, Zenon DEF IInv, ListInv
<1> QED BY <1>1, <1>5, <1>6, <1>7, PartsKept, Zenon DEF IInv

LEMMA ListenKeeps ==
  ASSUME IInv, ListenForClosingSignals, UNCHANGED deployment
  PROVE  IInv'
<1>1. /\ UNCHANGED <<l1Block, batches, toSend, lastSent, pc, last, next, pos>>
      /\ received # 0 /\ pc # "forced" /\ received' = 0
      /\ nextForcedBatches' = SortForcedBatches(Append(nextForcedBatches, received))
  BY Zenon DEF ListenForClosingSignals, managerVars, loopVars, Locked
<1>2. received \in Forced /\ received = lastSent
  BY <1>1, StateFacts DEF IInv, TypeInv, ManagerInv
<1>3. /\ nextForcedBatches' \in Seq(Forced) /\ Sorted(nextForcedBatches')
      /\ \A m : m \in Range(nextForcedBatches') <=> m \in Range(nextForcedBatches) \/ m = received
      /\ \A i \in 1 .. Len(nextForcedBatches') :
           nextForcedBatches'[i] \in Range(nextForcedBatches) \cup {received}
  BY <1>1, <1>2, SortIs, Zenon DEF IInv, TypeInv, ListInv
<1>4. 0 \in 0 .. K
  BY ForcedIs
<1>5. TypeInv'
  BY <1>1, <1>3, <1>4, Zenon DEF IInv, TypeInv
<1>6. ManagerInv'
  BY <1>1, Zenon DEF IInv, ManagerInv
<1>7. ListInv'
  <2>1. DOMAIN nextForcedBatches = 1 .. Len(nextForcedBatches) /\ lastSent <= lastSent
    BY StateFacts DEF IInv, TypeInv
  <2>2. \A m \in Range(nextForcedBatches) : m <= lastSent
    BY <2>1, Zenon DEF IInv, ListInv, Range
  <2>3. \A i \in 1 .. Len(nextForcedBatches') : nextForcedBatches'[i] <= lastSent
    BY <1>2, <1>3, <2>1, <2>2, Zenon
  <2>4. Covered'
    BY <1>1, <1>3, Zenon DEF IInv, ListInv, Covered, LastTrusted
  <2> QED BY <1>1, <1>3, <2>3, <2>4, Zenon DEF ListInv
<1>8. LoopInv'
  BY <1>1, Zenon DEF IInv, LoopInv, LastBatch, WithTxs
<1> QED BY <1>1, <1>5, <1>6, <1>7, <1>8, PartsKept, Zenon DEF IInv

\* A batch is appended to a state whose batches are all closed.
LEMMA AppendBatch ==
  ASSUME TypeInv, ClosedButWIP(batches), LastBatch.closed, NEW b \in BatchSet,
         b.forced # 0 => b.closed, batches' = Append(batches, b)
  PROVE  /\ ClosedButWIP(batches') /\ LastBatch' = b /\ Len(batches') = Len(batches) + 1
         /\ batches' \in Seq(BatchSet) /\ batches' # <<>>
<1> DEFINE c == Append(batches, b)
<1>1. /\ c \in Seq(BatchSet) /\ c # <<>> /\ Len(c) = Len(batches) + 1 /\ c[Len(c)] = b
      /\ \A i \in 1 .. Len(c) : i = Len(c) \/ (i \in 1 .. Len(batches) /\ c[i] = batches[i])
  <2>1. batches \in Seq(BatchSet)
    BY Zenon DEF TypeInv
  <2>2. /\ c \in Seq(BatchSet) /\ c # <<>> /\ Len(c) = Len(batches) + 1
        /\ c[Len(batches) + 1] = b /\ \A i \in 1 .. Len(batches) : c[i] = batches[i]
    BY <2>1, AppendElements, Zenon
  <2>3. \A i \in 1 .. Len(batches) + 1 : i = Len(batches) + 1 \/ i \in 1 .. Len(batches)
    BY StateFacts
  <2>4. \A i \in 1 .. Len(batches) + 1 :
          i = Len(batches) + 1 \/ (i \in 1 .. Len(batches) /\ c[i] = batches[i])
    BY <2>2, <2>3, Zenon
  <2> HIDE DEF c
  <2> QED BY <2>2, <2>4, Zenon
<1> HIDE DEF c
<1>2. \A i \in 1 .. Len(batches) : batches[i].closed
  BY Zenon DEF ClosedButWIP, LastBatch
<1>3. ClosedButWIP(c)
  BY <1>1, <1>2, Zenon DEF ClosedButWIP
<1>4. batches' = c
  BY Zenon DEF c
<1>5. LastBatch' = b
  BY <1>1, <1>4, Zenon DEF LastBatch
<1> QED BY <1>1, <1>3, <1>4, <1>5, Zenon

\* A new WIP batch.
LEMMA AppendWIPBatch ==
  ASSUME TypeInv, BatchInv, LastBatch.closed, batches' = Append(batches, WIPBatch),
         pc' = "run"
  PROVE  /\ BatchInv' /\ LastTrusted' = LastTrusted
         /\ batches' \in Seq(BatchSet) /\ batches' # <<>>
<1>0. WIPBatch \in BatchSet /\ WIPBatch.forced = 0
  BY ForcedIs DEF WIPBatch, Batch, BatchSet
<1>1. WIPBatch \in BatchSet /\ WIPBatch.forced = 0 /\ ~WIPBatch.closed
  BY <1>0, Zenon DEF WIPBatch, Batch
<1>2. /\ ClosedButWIP(batches') /\ LastBatch' = WIPBatch
      /\ batches' \in Seq(BatchSet) /\ batches' # <<>>
  BY <1>1, AppendBatch, Zenon DEF BatchInv
<1>3. InOrder(batches')
  BY OrderKept, Zenon DEF TypeInv, BatchInv
<1>4. LastTrusted' = LastTrusted
  BY LastForcedWIP, Zenon DEF TypeInv, LastTrusted
<1> QED BY <1>1, <1>2, <1>3, <1>4, Zenon DEF BatchInv

LEMMA CloseKeeps ==
  ASSUME IInv, CloseBatch, UNCHANGED deployment
  PROVE  IInv'
<1>1. /\ UNCHANGED <<l1Block, toSend, lastSent, received, nextForcedBatches>>
      /\ batches' = [batches EXCEPT ![Len(batches)].closed = TRUE]
      /\ last' = Len(batches) /\ next' = LastTrusted + 1 /\ pos' = 1
      /\ pc' \in {"forced", "open"}
  BY Zenon DEF CloseBatch, managerVars
<1> DEFINE x == [LastBatch EXCEPT !.closed = TRUE]
<1>2. batches' = [batches EXCEPT ![Len(batches)] = x]
  BY <1>1, Zenon DEF LastBatch
<1>3. LastBatch \in BatchSet
  BY StateFacts, Columns, Zenon DEF IInv, TypeInv, LastBatch
<1>4. x \in BatchSet /\ x.forced = LastBatch.forced /\ x.closed = TRUE
  BY <1>3, Zenon DEF BatchSet
<1> HIDE DEF x
<1>5. /\ batches' \in Seq(BatchSet) /\ batches' # <<>> /\ Len(batches') = Len(batches)
      /\ \A i \in 1 .. Len(batches) : batches'[i].forced = batches[i].forced
      /\ \A i \in 1 .. Len(batches) :
           batches[i].closed \/ i = Len(batches) => batches'[i].closed
      /\ LastTrusted' = LastTrusted
  <2>1. batches \in Seq(BatchSet) /\ batches # <<>> /\ x.forced = batches[Len(batches)].forced
    BY <1>4, Zenon DEF IInv, TypeInv, LastBatch
  <2>2. /\ batches' \in Seq(BatchSet) /\ Len(batches') = Len(batches)
        /\ batches'[Len(batches)] = x
        /\ \A i \in 1 .. Len(batches) - 1 : batches'[i] = batches[i]
    BY <1>2, <1>4, <2>1
  <2>3. /\ batches' # <<>>
        /\ \A i \in 1 .. Len(batches) : batches'[i].forced = batches[i].forced
        /\ \A i \in 1 .. Len(batches) :
             batches[i].closed \/ i = Len(batches) => batches'[i].closed
        /\ LastForced(batches') = LastForced(batches)
    BY <1>4, <2>1, <2>2, LastForcedClose, Zenon
  <2> QED BY <2>2, <2>3, Zenon DEF LastTrusted
<1>6. TypeInv'
  <2>1. last' \in Nat /\ next' \in Nat /\ pos' \in Nat
    BY <1>1, StateFacts DEF IInv
  <2> QED BY <1>1, <1>5, <2>1, Zenon DEF IInv, TypeInv
<1>7. BatchInv'
  <2>1. ClosedButWIP(batches')
    BY <1>5, Zenon DEF IInv, BatchInv, ClosedButWIP
  <2>2. InOrder(batches')
    BY <1>2, <1>4, OrderKept, Zenon DEF IInv, TypeInv, BatchInv, LastBatch
  <2>3. LastBatch'.closed /\ pc' # "run"
    BY <1>1, <1>5, StateFacts, Zenon DEF IInv, LastBatch
  <2> QED BY <2>1, <2>2, <2>3, Zenon DEF BatchInv
<1>8. ManagerInv'
  BY <1>1, PartsKept, Zenon DEF IInv
<1>9. ListInv'
  <2>1. LastTrusted' >= LastTrusted
    BY <1>5, StateFacts DEF IInv
  <2> QED BY <1>1, <1>6, <2>1, ListStep, Zenon DEF IInv
<1>10. LoopInv'
  <2>1. pos' \in 1 .. Len(nextForcedBatches') + 1 /\ \A i \in 1 .. pos' - 1 : FALSE
    BY <1>1, <1>6 DEF TypeInv
  <2>2. pc' # "down"
    BY <1>1, Zenon
  <2> QED BY <1>1, <1>5, <2>1, <2>2, Zenon DEF LoopInv
<1> QED BY <1>6, <1>7, <1>8, <1>9, <1>10, Zenon DEF IInv

LEMMA SkipKeeps ==
  ASSUME IInv, SkipProcessed, UNCHANGED deployment
  PROVE  IInv'
<1>1. /\ UNCHANGED <<l1Block, batches, toSend, lastSent, received, nextForcedBatches, pc, last,
                     next>>
      /\ pc = "forced" /\ pos <= Len(nextForcedBatches) /\ nextForcedBatches[pos] < next
      /\ pos' = pos + 1
  BY Zenon DEF SkipProcessed, managerVars, listVars, Pending
<1>2. /\ pos' \in Nat /\ pos' \in 1 .. Len(nextForcedBatches) + 1
      /\ \A i \in 1 .. pos' - 1 : nextForcedBatches[i] < next
  BY <1>1 DEF IInv, TypeInv, LoopInv
<1>3. TypeInv'
  BY <1>1, <1>2, Zenon DEF IInv, TypeInv
<1>4. LoopInv'
  BY <1>1, <1>2, Zenon DEF IInv, LoopInv, LastTrusted
<1> QED BY <1>1, <1>3, <1>4, PartsKept, Zenon DEF IInv

\* What is sent follows, so the list has no gap: the forced batch to process is
\* the one at this place of the list.
LEMMA NoGap ==
  ASSUME IInv, pc = "forced", pos <= Len(nextForcedBatches), nextForcedBatches[pos] >= next
  PROVE  /\ nextForcedBatches[pos] = next /\ ToProcess = next /\ next \in Forced
         /\ next = LastTrusted + 1 /\ last = Len(batches)
         /\ pos \in 1 .. Len(nextForcedBatches)
         /\ \A i \in 1 .. pos - 1 : nextForcedBatches[i] < next
<1>1. /\ next = LastTrusted + 1 /\ last = Len(batches)
      /\ pos \in 1 .. Len(nextForcedBatches) + 1
      /\ \A i \in 1 .. pos - 1 : nextForcedBatches[i] < next
  BY Zenon DEF IInv, LoopInv
<1>2. pos \in 1 .. Len(nextForcedBatches)
  BY <1>1 DEF IInv, TypeInv
<1>3. \A i \in 1 .. Len(nextForcedBatches) : nextForcedBatches[i] \in Forced
  BY DEF IInv, TypeInv
<1>4. LastTrusted \in Nat /\ K \in Nat /\ Forced = 1 .. K /\ lastSent \in Nat
  BY StateFacts DEF IInv, TypeInv
<1>5. nextForcedBatches[pos] \in Nat /\ nextForcedBatches[pos] <= lastSent /\ next \in Forced
  BY <1>1, <1>2, <1>3, <1>4 DEF IInv, ListInv
<1>6. ASSUME nextForcedBatches[pos] > next PROVE FALSE
  <2>1. next \in 1 .. lastSent /\ ~(next <= LastTrusted)
    BY <1>1, <1>4, <1>5, <1>6
  <2>2. next # received
    BY <1>1, <1>4, <1>5, <1>6 DEF IInv, ManagerInv
  <2>3. next \in Range(nextForcedBatches)
    BY <2>1, <2>2, Zenon DEF IInv, ListInv, Covered
  <2>4. DOMAIN nextForcedBatches = 1 .. Len(nextForcedBatches)
    BY DEF IInv, TypeInv
  <2>5. PICK i \in 1 .. Len(nextForcedBatches) : nextForcedBatches[i] = next
    BY <2>3, <2>4, Zenon DEF Range
  <2>6. CASE i < pos
    <3>1. i \in 1 .. pos - 1
      BY <1>2, <2>6
    <3>2. next < next
      BY <1>1, <2>5, <3>1, Zenon
    <3> QED BY <1>1, <1>4, <3>2
  <2>7. CASE pos <= i
    <3>1. pos = i \/ pos < i
      BY <1>2, <2>7
    <3>2. nextForcedBatches[pos] = next \/ nextForcedBatches[pos] <= next
      BY <1>2, <2>5, <3>1, Zenon DEF IInv, ListInv, Sorted
    <3> QED BY <1>1, <1>4, <1>5, <1>6, <3>2
  <2> QED BY <1>2, <2>6, <2>7
<1>7. nextForcedBatches[pos] = next
  BY <1>1, <1>4, <1>5, <1>6
<1> QED BY <1>1, <1>2, <1>5, <1>7, Zenon DEF ToProcess

LEMMA ProcessKeeps ==
  ASSUME IInv, ProcessForcedBatch, UNCHANGED deployment
  PROVE  IInv'
<1> DEFINE b == Batch(next, next, next \notin WithTxs)
<1>1. pc = "forced" /\ pos <= Len(nextForcedBatches) /\ nextForcedBatches[pos] >= next
  BY Zenon DEF ProcessForcedBatch, Pending
<1>2. /\ nextForcedBatches[pos] = next /\ ToProcess = next /\ next \in Forced
      /\ next = LastTrusted + 1 /\ last = Len(batches)
      /\ pos \in 1 .. Len(nextForcedBatches)
      /\ \A i \in 1 .. pos - 1 : nextForcedBatches[i] < next
  BY <1>1, NoGap, Zenon
<1>3. /\ UNCHANGED <<l1Block, toSend, lastSent, received, nextForcedBatches>>
      /\ batches' = Append(batches, b)
  BY <1>2, Zenon DEF ProcessForcedBatch, managerVars, listVars, L1BlockOf
<1>4. \/ next \in WithTxs /\ pc' = "open" /\ UNCHANGED <<last, next, pos>>
      \/ pc' = "forced" /\ last' = last + 1 /\ next' = next + 1 /\ pos' = pos + 1
  BY <1>1, <1>2, Zenon DEF ProcessForcedBatch
<1>5. b \in BatchSet /\ b.forced = next /\ b.forced # 0 /\ b.closed
  <2>1. next \in 0 .. K /\ next \in Nat /\ next # 0
    BY <1>2, ForcedIs
  <2> QED BY <2>1, Zenon DEF Batch, BatchSet
<1> HIDE DEF b
<1>6. LastBatch.closed
  BY <1>1, Zenon DEF IInv, BatchInv
<1>7. /\ ClosedButWIP(batches') /\ LastBatch' = b /\ Len(batches') = Len(batches) + 1
      /\ batches' \in Seq(BatchSet) /\ batches' # <<>>
  BY <1>3, <1>5, <1>6, AppendBatch, Zenon DEF IInv, BatchInv
<1>8. b.forced = LastForced(batches) + 1
  BY <1>2, <1>5, Zenon DEF LastTrusted
<1>9. LastTrusted' = next
  BY <1>3, <1>5, <1>8, LastForcedNext, Zenon DEF IInv, TypeInv, LastTrusted
<1>10. InOrder(batches')
  BY <1>3, <1>5, <1>8, OrderKept, Zenon DEF IInv, TypeInv, BatchInv
<1>11. TypeInv'
  <2>1. pos \in Nat /\ last \in Nat /\ next \in Nat
    BY Zenon DEF IInv, TypeInv
  <2>2. pos' \in Nat /\ last' \in Nat /\ next' \in Nat
    BY <1>4, <2>1
  <2> QED BY <1>3, <1>4, <1>7, <2>2, Zenon DEF IInv, TypeInv
<1>12. BatchInv'
  BY <1>4, <1>5, <1>7, <1>10, Zenon DEF BatchInv
<1>13. ListInv'
  <2>1. LastTrusted' >= LastTrusted
    BY <1>2, <1>9, StateFacts DEF IInv
  <2> QED BY <1>3, <1>11, <2>1, ListStep, Zenon DEF IInv
<1>14. LoopInv'
  <2>1. CASE next \in WithTxs /\ pc' = "open"
    <3>1. LastBatch'.forced \in WithTxs'
      BY <1>5, <1>7, <2>1, Zenon DEF WithTxs
    <3> QED BY <2>1, <3>1, Zenon DEF LoopInv
  <2>2. CASE pc' = "forced" /\ last' = last + 1 /\ next' = next + 1 /\ pos' = pos + 1
    <3>1. pos' \in 1 .. Len(nextForcedBatches) + 1
      BY <1>2, <2>2 DEF IInv, TypeInv
    <3>2. \A i \in 1 .. pos' - 1 : nextForcedBatches[i] < next'
      <4>1. \A i \in 1 .. pos' - 1 : i \in 1 .. Len(nextForcedBatches) /\ (i = pos \/ i \in 1 .. pos - 1)
        BY <1>2, <2>2
      <4>2. \A i \in 1 .. Len(nextForcedBatches) : nextForcedBatches[i] \in Nat
        BY ForcedIs DEF IInv, TypeInv
      <4>3. next \in Nat
        BY Zenon DEF IInv, TypeInv
      <4> QED BY <1>2, <2>2, <4>1, <4>2, <4>3
    <3>3. next' = LastTrusted' + 1 /\ last' = Len(batches')
      BY <1>2, <1>7, <1>9, <2>2, Zenon
    <3> QED BY <1>3, <2>2, <3>1, <3>2, <3>3, Zenon DEF LoopInv
  <2> QED BY <1>4, <2>1, <2>2, Zenon
<1> QED BY <1>3, <1>11, <1>12, <1>13, <1>14, PartsKept, Zenon DEF IInv

LEMMA FailsKeeps ==
  ASSUME IInv, ProcessForcedBatchFails, UNCHANGED deployment
  PROVE  IInv'
<1>1. /\ UNCHANGED <<l1Block, batches, toSend, lastSent, received, nextForcedBatches, last, next,
                     pos>>
      /\ pc = "forced" /\ pc' = "open"
  BY Zenon DEF ProcessForcedBatchFails, managerVars, listVars
<1>2. TypeInv'
  BY <1>1, Zenon DEF IInv, TypeInv
<1>3. BatchInv'
  BY <1>1, Zenon DEF IInv, BatchInv, LastBatch
<1>4. LoopInv'
  BY <1>1, Zenon DEF IInv, LoopInv
<1> QED BY <1>1, <1>2, <1>3, <1>4, PartsKept, Zenon DEF IInv

\* The list is cleared when all of it is in the state.
LEMMA ProcessedKeeps ==
  ASSUME IInv, ForcedBatchesProcessed, UNCHANGED deployment
  PROVE  IInv'
<1>1. /\ UNCHANGED <<l1Block, batches, toSend, lastSent, received, last, next, pos>>
      /\ pc = "forced" /\ ~(pos <= Len(nextForcedBatches))
      /\ pc' = "open" /\ nextForcedBatches' = <<>>
  BY Zenon DEF ForcedBatchesProcessed, managerVars, Pending
<1>2. nextForcedBatches' \in Seq(Forced) /\ \A i \in 1 .. Len(nextForcedBatches') : FALSE
  BY <1>1
<1>3. TypeInv'
  BY <1>1, <1>2, Zenon DEF IInv, TypeInv
<1>4. BatchInv'
  BY <1>1, Zenon DEF IInv, BatchInv, LastBatch
<1>5. LoopInv'
  BY <1>1, Zenon DEF IInv, LoopInv
<1>6. ListInv'
  <2>1. /\ next = LastTrusted + 1 /\ LastTrusted \in Nat
        /\ \A i \in 1 .. pos - 1 : nextForcedBatches[i] < next
    BY <1>1, StateFacts DEF IInv, LoopInv
  <2>2. DOMAIN nextForcedBatches = 1 .. Len(nextForcedBatches)
    BY DEF IInv, TypeInv
  <2>3. \A i \in 1 .. Len(nextForcedBatches) : i \in 1 .. pos - 1 /\ nextForcedBatches[i] \in Nat
    BY <1>1, ForcedIs DEF IInv, TypeInv
  <2>4. \A i \in 1 .. Len(nextForcedBatches) : nextForcedBatches[i] <= LastTrusted
    BY <2>1, <2>3
  <2>5. \A n \in Range(nextForcedBatches) : n <= LastTrusted
    BY <2>2, <2>4, Zenon DEF Range
  <2>6. Covered'
    BY <1>1, <2>5, Zenon DEF IInv, ListInv, Covered, LastTrusted
  <2> QED BY <1>2, <2>6, Zenon DEF ListInv, Sorted
<1> QED BY <1>1, <1>3, <1>4, <1>5, <1>6, PartsKept, Zenon DEF IInv

LEMMA OpenKeeps ==
  ASSUME IInv, OpenNewWIPBatch, UNCHANGED deployment
  PROVE  IInv'
<1>1. /\ UNCHANGED <<l1Block, toSend, lastSent, received, nextForcedBatches, last, next, pos>>
      /\ pc = "open"
  BY Zenon DEF OpenNewWIPBatch, managerVars, listVars
<1>2. CASE last = Len(batches)
  <2>1. batches' = Append(batches, WIPBatch) /\ pc' = "run"
    BY <1>2, Zenon DEF OpenNewWIPBatch
  <2>2. LastBatch.closed
    BY <1>1, Zenon DEF IInv, BatchInv
  <2>3. /\ BatchInv' /\ LastTrusted' = LastTrusted
        /\ batches' \in Seq(BatchSet) /\ batches' # <<>>
    BY <2>1, <2>2, AppendWIPBatch, Zenon DEF IInv
  <2>4. TypeInv'
    BY <1>1, <2>1, <2>3, Zenon DEF IInv, TypeInv
  <2>5. LastTrusted' >= LastTrusted
    BY <2>3, StateFacts DEF IInv
  <2>6. ListInv'
    BY <1>1, <2>4, <2>5, ListStep, Zenon DEF IInv
  <2>7. LoopInv'
    BY <2>1, Zenon DEF LoopInv
  <2> QED BY <1>1, <2>3, <2>4, <2>6, <2>7, PartsKept, Zenon DEF IInv
<1>3. CASE last # Len(batches)
  <2>1. batches' = batches /\ pc' = "down"
    BY <1>3, Zenon DEF OpenNewWIPBatch
  <2>2. TypeInv'
    BY <1>1, <2>1, Zenon DEF IInv, TypeInv
  <2>3. BatchInv'
    BY <1>1, <2>1, Zenon DEF IInv, BatchInv, LastBatch
  <2>4. LoopInv'
    BY <1>1, <1>3, <2>1, Zenon DEF IInv, LoopInv, LastBatch, WithTxs
  <2> QED BY <1>1, <2>1, <2>2, <2>3, <2>4, PartsKept, Zenon DEF IInv
<1> QED BY <1>2, <1>3, Zenon

\* After a restart the manager starts from the state again.
LEMMA RestartKeeps ==
  ASSUME IInv, Restart, UNCHANGED deployment
  PROVE  IInv'
<1>1. /\ UNCHANGED l1Block /\ toSend' = <<>> /\ lastSent' = 0 /\ received' = 0
      /\ nextForcedBatches' = <<>> /\ pc' = "run" /\ last' = 0 /\ next' = 0 /\ pos' = 1
      /\ batches' = IF LastBatch.closed THEN Append(batches, WIPBatch) ELSE batches
  BY Zenon DEF Restart
<1>2. BatchInv' /\ batches' \in Seq(BatchSet) /\ batches' # <<>>
  <2>1. CASE LastBatch.closed
    BY <1>1, <2>1, AppendWIPBatch, Zenon DEF IInv
  <2>2. CASE ~LastBatch.closed
    BY <1>1, <2>2, Zenon DEF IInv, TypeInv, BatchInv, LastBatch
  <2> QED BY <2>1, <2>2, Zenon
<1>3. /\ toSend' \in Seq(Forced) /\ nextForcedBatches' \in Seq(Forced)
      /\ \A i \in 1 .. Len(toSend') : FALSE
      /\ \A i \in 1 .. Len(nextForcedBatches') : FALSE
      /\ 0 \in 0 .. K /\ 0 \in Nat /\ 1 \in Nat /\ \A n \in 1 .. 0 : FALSE
  BY <1>1, ForcedIs
<1>4. TypeInv'
  BY <1>1, <1>2, <1>3, Zenon DEF IInv, TypeInv
<1>5. ManagerInv' /\ LoopInv'
  BY <1>1, <1>3, Zenon DEF ManagerInv, LoopInv
<1>6. ListInv'
  BY <1>1, <1>3, Zenon DEF ListInv, Sorted, Covered
<1> QED BY <1>2, <1>4, <1>5, <1>6, Zenon DEF IInv

-----------------------------------------------------------------------------
(* The theorems.                                                           *)

LEMMA Initially == Init => IInv
<1> SUFFICES ASSUME Init PROVE IInv
  OBVIOUS
<1>1. WIPBatch \in BatchSet /\ WIPBatch.forced = 0
  BY ForcedIs DEF WIPBatch, Batch, BatchSet
<1>2. ~WIPBatch.closed
  BY Zenon DEF WIPBatch, Batch
<1>3. /\ batches \in Seq(BatchSet) /\ batches # <<>> /\ Len(batches) = 1 /\ batches[1] = WIPBatch
      /\ \A i \in 1 .. Len(batches) : i = 1
  BY <1>1 DEF Init
<1>4. /\ toSend \in Seq(Forced) /\ nextForcedBatches \in Seq(Forced)
      /\ \A i \in 1 .. Len(toSend) : FALSE
      /\ \A i \in 1 .. Len(nextForcedBatches) : FALSE
      /\ 0 \in 0 .. K /\ 0 \in Nat /\ 1 \in Nat /\ (\A n \in 1 .. 0 : FALSE)
      /\ l1Block \in 0 .. MaxL1Block
  BY ForcedIs, ConstantsAssumption DEF Init
<1>5. TypeInv
  BY <1>3, <1>4, Zenon DEF Init, TypeInv
<1>6. BatchInv
  BY <1>1, <1>2, <1>3, Zenon DEF Init, BatchInv, ClosedButWIP, InOrder, LastBatch
<1>7. ManagerInv /\ LoopInv
  BY <1>4, Zenon DEF Init, ManagerInv, LoopInv
<1>8. ListInv
  BY <1>4, Zenon DEF Init, ListInv, Sorted, Covered
<1> QED BY <1>5, <1>6, <1>7, <1>8, Zenon DEF IInv

LEMMA Preserved == IInv /\ [Next]_vars => IInv'
<1> SUFFICES ASSUME IInv, [Next]_vars PROVE IInv'
  OBVIOUS
<1>1. CASE UNCHANGED vars
  <2>1. UNCHANGED <<deployment, l1Block, batches, toSend, lastSent, received, nextForcedBatches,
                    pc, last, next, pos>>
    BY <1>1, Zenon DEF vars, sequencerVars, managerVars, listVars, loopVars
  <2>2. TypeInv'
    BY <2>1, Zenon DEF IInv, TypeInv
  <2> QED BY <2>1, <2>2, PartsKept, Zenon DEF IInv
<1>2. ASSUME Next PROVE IInv'
  <2>1. UNCHANGED deployment
    BY <1>2, Zenon DEF Next
  <2>2. ForcedBatchDeadline \/ OtherReasonToClose => CloseBatch
    BY Zenon DEF ForcedBatchDeadline, OtherReasonToClose
  <2> QED BY <1>2, <2>1, <2>2, SyncKeeps, CheckKeeps, SendKeeps, ListenKeeps, CloseKeeps,
             SkipKeeps, ProcessKeeps, FailsKeeps, ProcessedKeeps, OpenKeeps, RestartKeeps,
             Zenon DEF Next, Manager, Loop
<1> QED BY <1>1, <1>2, Zenon

LEMMA Invariant == Spec => []IInv
BY Initially, Preserved, PTL DEF Spec

\* Forced batches enter the trusted state once each and in the order of their
\* numbers (processForcedBatches), for every list of forced batches and whatever
\* the executor refuses and wherever the sequencer restarts.
THEOREM ForcedEnterInOrder == Spec => []ForcedInOrder
<1>1. IInv => ForcedInOrder
  <2> SUFFICES ASSUME IInv PROVE ForcedInOrder
    OBVIOUS
  <2>1. DOMAIN batches = 1 .. Len(batches)
    BY DEF IInv, TypeInv
  <2>2. \A i \in 1 .. Len(nextForcedBatches) - 1 :
          nextForcedBatches[i] <= nextForcedBatches[i + 1]
    <3>1. \A i \in 1 .. Len(nextForcedBatches) - 1 :
            i \in 1 .. Len(nextForcedBatches) /\ i + 1 \in 1 .. Len(nextForcedBatches) /\ i < i + 1
      BY DEF IInv, TypeInv
    <3> QED BY <3>1, Zenon DEF IInv, ListInv, Sorted
  <2>3. received \in Forced \cup {0} /\ lastSent \in Forced \cup {0}
    BY ForcedIs DEF IInv, TypeInv
  <2>4. TypeOK
    BY <2>1, <2>2, <2>3, Zenon DEF IInv, TypeInv, BatchInv, ClosedButWIP, TypeOK
  <2> QED BY <2>1, <2>4, Zenon DEF IInv, BatchInv, InOrder, ForcedInOrder
<1> QED BY <1>1, Invariant, PTL

\* A forced batch the manager has sent is never forgotten: it is in the state, in
\* nextForcedBatches or in the listener's hand; and the finalizer stops only when a
\* forced batch with txs was processed last (checkForcedBatches,
\* listenForClosingSignals, processForcedBatches).
THEOREM NoForcedBatchLost == Spec => []NoneLost
<1>1. IInv => NoneLost
  BY Zenon DEF IInv, ListInv, Covered, LoopInv, NoneLost
<1> QED BY <1>1, Invariant, PTL
=============================================================================
