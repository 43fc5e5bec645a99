---------------------------- MODULE WorkerProofs ----------------------------
(***************************************************************************)
(* The worker's queues and list agree and follow the executor, for any     *)
(* accounts, any transactions and any interleaving of the sequencer's      *)
(* goroutines.                                                             *)
(***************************************************************************)
EXTENDS Worker, TLAPS

-----------------------------------------------------------------------------
(* The inductive invariant.                                                *)

\* loadFromPool and the finalizer have one tx at a time, and a queue that is about
\* to be created does not exist.
LocalInv ==
  /\ \A t, u \in addTx : t = u
  /\ \A t, u \in finTx : t = u
  /\ addPc \in {"read", "install"} => \E t \in addTx : From[t] \notin found
  /\ storePc = "commit" => toStore # <<>>
  /\ expiries = 0 => expired = {}

\* Everything under way was submitted.
UnderWay == InWorker \cup InPipeline \cup finTx \cup addTx \cup expired
KnownInv == \A t \in UnderWay : status[t] # "none"

\* t is WIP in the pool, or about to be.
Entered(t) == t \in wip \/ (t \in addTx /\ addPc \in {"added", "mark"})

\* Without failing calls, what is in the worker is not loaded again.
LoadedOnce ==
  ~ExecErrors => \A t \in InWorker : Entered(t) \/ status[t] # "pending"

-----------------------------------------------------------------------------
(* Numbers and sequences.                                                  *)

\* Min of a set that has a least element is that element.
LEMMA MinIs ==
  ASSUME NEW S, S \subseteq Nat, NEW m \in S, \A y \in S : m <= y
  PROVE  Min(S) = m
<1>1. Min(S) \in S /\ \A y \in S : Min(S) <= y
  BY Zenon DEF Min
<1>2. Min(S) \in Nat /\ m \in Nat /\ Min(S) <= m /\ m <= Min(S)
  BY <1>1, Zenon
<1> QED BY <1>2

\* The elements of a sequence.
LEMMA Elements ==
  ASSUME NEW S, NEW s \in Seq(S)
  PROVE  /\ \A i \in 1 .. Len(s) : s[i] \in S
         /\ Range(s) = {s[i] : i \in 1 .. Len(s)} /\ Range(s) \subseteq S
<1>1. DOMAIN s = 1 .. Len(s) /\ \A i \in 1 .. Len(s) : s[i] \in S
  OBVIOUS
<1> QED BY <1>1, Zenon DEF Range

\* Equal elements, equal sequences.
LEMMA SameElements ==
  ASSUME NEW S, NEW s \in Seq(S), NEW t \in Seq(S),
         Len(s) = Len(t), \A i \in 1 .. Len(s) : s[i] = t[i]
  PROVE  s = t
OBVIOUS

\* The elements of a concatenation.
LEMMA Concatenation ==
  ASSUME NEW S, NEW s \in Seq(S), NEW t \in Seq(S)
  PROVE  /\ s \o t \in Seq(S) /\ Len(s \o t) = Len(s) + Len(t)
         /\ \A i \in 1 .. Len(s) + Len(t) :
              (s \o t)[i] = IF i <= Len(s) THEN s[i] ELSE t[i - Len(s)]
         /\ Range(s \o t) = Range(s) \cup Range(t)
<1> DEFINE r == s \o t
<1>1. /\ r \in Seq(S) /\ Len(r) = Len(s) + Len(t) /\ Len(s) \in Nat /\ Len(t) \in Nat
      /\ \A i \in 1 .. Len(s) + Len(t) : r[i] = IF i <= Len(s) THEN s[i] ELSE t[i - Len(s)]
  OBVIOUS
<1> HIDE DEF r
<1>2. /\ \A i \in 1 .. Len(s) : i \in 1 .. Len(r) /\ r[i] = s[i]
      /\ \A i \in 1 .. Len(t) : i + Len(s) \in 1 .. Len(r) /\ r[i + Len(s)] = t[i]
      /\ \A i \in 1 .. Len(r) : (i \in 1 .. Len(s) /\ r[i] = s[i])
                                \/ (i - Len(s) \in 1 .. Len(t) /\ r[i] = t[i - Len(s)])
  <2>1. \A i \in 1 .. Len(s) : i \in 1 .. Len(r) /\ r[i] = s[i]
    BY <1>1
  <2>2. \A i \in 1 .. Len(t) : i + Len(s) \in 1 .. Len(r) /\ r[i + Len(s)] = t[i]
    <3> TAKE i \in 1 .. Len(t)
    <3>1. /\ i + Len(s) \in 1 .. Len(s) + Len(t) /\ ~(i + Len(s) <= Len(s))
          /\ (i + Len(s)) - Len(s) = i
      BY <1>1
    <3> QED BY <1>1, <3>1, Zenon
  <2>3. ASSUME NEW i \in 1 .. Len(r)
        PROVE  (i \in 1 .. Len(s) /\ r[i] = s[i])
               \/ (i - Len(s) \in 1 .. Len(t) /\ r[i] = t[i - Len(s)])
    <3>1. CASE i <= Len(s)
      BY <1>1, <3>1
    <3>2. CASE ~(i <= Len(s))
      <4>1. i \in 1 .. Len(s) + Len(t) /\ i - Len(s) \in 1 .. Len(t)
        BY <1>1, <3>2
      <4> QED BY <1>1, <3>2, <4>1, Zenon
    <3> QED BY <3>1, <3>2, Zenon
  <2> QED BY <2>1, <2>2, <2>3, Zenon
<1>3. /\ Range(r) = {r[i] : i \in 1 .. Len(r)} /\ Range(s) = {s[i] : i \in 1 .. Len(s)}
      /\ Range(t) = {t[i] : i \in 1 .. Len(t)}
  BY <1>1, Elements, Zenon
<1>4. Range(r) = Range(s) \cup Range(t)
  BY <1>2, <1>3, Zenon
<1> QED BY <1>1, <1>4, Zenon DEF r

\* Append as a concatenation, and the order of concatenations.
LEMMA AppendIs ==
  ASSUME NEW S, NEW s \in Seq(S), NEW x \in S
  PROVE  Append(s, x) = s \o <<x>>
OBVIOUS

LEMMA ConcatThree ==
  ASSUME NEW S, NEW s \in Seq(S), NEW t \in Seq(S), NEW u \in Seq(S)
  PROVE  (s \o t) \o u = s \o (t \o u)
OBVIOUS

\* s with e inserted at i, and without its element at i.
InsertAt(s, i, e) == SubSeq(s, 1, i - 1) \o <<e>> \o SubSeq(s, i, Len(s))
RemoveAt(s, i) == SubSeq(s, 1, i - 1) \o SubSeq(s, i + 1, Len(s))

\* InsertAt, element by element.
LEMMA InsertedElements ==
  ASSUME NEW S, NEW s \in Seq(S), NEW i \in 1 .. Len(s) + 1, NEW e \in S
  PROVE  /\ InsertAt(s, i, e) \in Seq(S) /\ Len(InsertAt(s, i, e)) = Len(s) + 1
         /\ InsertAt(s, i, e)[i] = e
         /\ \A j \in 1 .. i - 1 : InsertAt(s, i, e)[j] = s[j]
         /\ \A j \in i + 1 .. Len(s) + 1 : InsertAt(s, i, e)[j] = s[j - 1]
<1> DEFINE left == SubSeq(s, 1, i - 1)
           right == SubSeq(s, i, Len(s))
           mid == left \o <<e>>
<1>1. /\ left \in Seq(S) /\ Len(left) = i - 1
      /\ \A j \in 1 .. i - 1 : left[j] = s[j]
  OBVIOUS
<1>2. /\ right \in Seq(S) /\ Len(right) = Len(s) - i + 1
      /\ \A j \in 1 .. Len(s) - i + 1 : right[j] = s[i + j - 1]
  OBVIOUS
<1>3. /\ <<e>> \in Seq(S) /\ Len(<<e>>) = 1 /\ <<e>>[1] = e
  OBVIOUS
<1> HIDE DEF left, right
<1>4. /\ mid \in Seq(S) /\ Len(mid) = i /\ mid[i] = e
      /\ \A j \in 1 .. i - 1 : mid[j] = s[j]
  BY <1>1, <1>3
<1>5. InsertAt(s, i, e) = mid \o right
  BY Zenon DEF InsertAt, left, right
<1> HIDE DEF mid
<1>6. /\ mid \o right \in Seq(S) /\ Len(mid \o right) = Len(mid) + Len(right)
      /\ \A j \in 1 .. Len(mid) + Len(right) :
           (mid \o right)[j] = IF j <= Len(mid) THEN mid[j] ELSE right[j - Len(mid)]
  BY <1>2, <1>4, Concatenation, Zenon
<1> QED BY <1>2, <1>4, <1>5, <1>6

\* RemoveAt, element by element.
LEMMA RemovedElements ==
  ASSUME NEW S, NEW s \in Seq(S), NEW i \in 1 .. Len(s)
  PROVE  /\ RemoveAt(s, i) \in Seq(S) /\ Len(RemoveAt(s, i)) = Len(s) - 1
         /\ \A j \in 1 .. i - 1 : RemoveAt(s, i)[j] = s[j]
         /\ \A j \in i .. Len(s) - 1 : RemoveAt(s, i)[j] = s[j + 1]
<1> DEFINE left == SubSeq(s, 1, i - 1)
           right == SubSeq(s, i + 1, Len(s))
<1>1. /\ left \in Seq(S) /\ Len(left) = i - 1
      /\ \A j \in 1 .. i - 1 : left[j] = s[j]
  OBVIOUS
<1>2. /\ right \in Seq(S) /\ Len(right) = Len(s) - i
      /\ \A j \in 1 .. Len(s) - i : right[j] = s[i + j]
  OBVIOUS
<1>3. RemoveAt(s, i) = left \o right
  BY Zenon DEF RemoveAt
<1> HIDE DEF left, right
<1>4. /\ left \o right \in Seq(S) /\ Len(left \o right) = Len(left) + Len(right)
      /\ \A j \in 1 .. Len(left) + Len(right) :
           (left \o right)[j] = IF j <= Len(left) THEN left[j] ELSE right[j - Len(left)]
  BY <1>1, <1>2, Concatenation, Zenon
<1> QED BY <1>1, <1>2, <1>3, <1>4

-----------------------------------------------------------------------------
(* txSortedList.                                                           *)

\* The txs of s before k have at least the price p, the others have less.
Cut(s, k, p) ==
  /\ k \in 1 .. Len(s) + 1
  /\ \A i \in 1 .. k - 1 : GasPrice[s[i]] >= p
  /\ \A i \in k .. Len(s) : GasPrice[s[i]] < p

\* s lists the txs of R, each once, by descending gas price; so it can be cut at
\* every price, which is what the search of add relies on.
ListIs(s, R) ==
  /\ s \in Seq(Txs) /\ Range(s) = R
  /\ \A p \in Nat : \E k \in 1 .. Len(s) + 1 : Cut(s, k, p)
  /\ \A i, j \in 1 .. Len(s) :
       i < j => s[i] # s[j] /\ GasPrice[s[i]] >= GasPrice[s[j]]

\* Gas prices are numbers.
LEMMA Prices == \A t \in Txs : GasPrice[t] \in Nat /\ Nonce[t] \in Nat /\ Cost[t] \in Nat
BY ConstantsAssumption

\* r is s with e inserted at i.
IsInserted(r, s, i, e) ==
  /\ r \in Seq(Txs) /\ Len(r) = Len(s) + 1 /\ r[i] = e
  /\ \A j \in 1 .. i - 1 : r[j] = s[j]
  /\ \A j \in i + 1 .. Len(s) + 1 : r[j] = s[j - 1]

LEMMA InsertedTx ==
  \A s \in Seq(Txs), t \in Txs : \A i \in 1 .. Len(s) + 1 : IsInserted(InsertAt(s, i, t), s, i, t)
<1> TAKE s \in Seq(Txs), t \in Txs
<1> TAKE i \in 1 .. Len(s) + 1
<1> DEFINE r == InsertAt(s, i, t)
<1>1. /\ r \in Seq(Txs) /\ Len(r) = Len(s) + 1 /\ r[i] = t
      /\ \A j \in 1 .. i - 1 : r[j] = s[j]
      /\ \A j \in i + 1 .. Len(s) + 1 : r[j] = s[j - 1]
  BY InsertedElements, SMTT(30)
<1> QED BY <1>1, Zenon DEF IsInserted

\* add inserts a tx that is not in the list at its place.
LEMMA ListAddIs ==
  ASSUME NEW R, NEW s, ListIs(s, R), NEW t \in Txs
  PROVE  ListIs(ListAdd(s, t), R \cup {t})
<1> DEFINE lower == {i \in 1 .. Len(s) : GasPrice[t] > GasPrice[s[i]]}
           at == IF lower = {} THEN Len(s) + 1 ELSE Min(lower)
           r == InsertAt(s, at, t)
<1>1. /\ s \in Seq(Txs) /\ Range(s) = R /\ DOMAIN s = 1 .. Len(s) /\ Len(s) \in Nat
      /\ \A i \in 1 .. Len(s) : s[i] \in Txs /\ GasPrice[s[i]] \in Nat
  <2>1. s \in Seq(Txs) /\ Range(s) = R
    BY Zenon DEF ListIs
  <2>2. DOMAIN s = 1 .. Len(s) /\ Len(s) \in Nat
    BY <2>1
  <2> QED BY <2>1, <2>2, Elements, Prices, Zenon
<1>2. Range(s) = {s[i] : i \in 1 .. Len(s)}
  BY <1>1, Zenon DEF Range
<1>3. CASE \E i \in 1 .. Len(s) : s[i] = t
  <2>1. ListAdd(s, t) = s
    BY <1>3, Zenon DEF ListAdd
  <2>2. R \cup {t} = R
    BY <1>1, <1>2, <1>3, Zenon
  <2> QED BY <2>1, <2>2, Zenon
<1>4. CASE ~ \E i \in 1 .. Len(s) : s[i] = t
  <2>1. ListAdd(s, t) = r
    BY <1>4, Zenon DEF ListAdd, InsertAt
  <2>0. PICK c \in 1 .. Len(s) + 1 : Cut(s, c, GasPrice[t])
    BY Prices, Zenon DEF ListIs
  <2>2. /\ at \in 1 .. Len(s) + 1
        /\ \A i \in 1 .. at - 1 : GasPrice[s[i]] >= GasPrice[t]
        /\ \A i \in at .. Len(s) : GasPrice[s[i]] < GasPrice[t]
    <3>0. /\ \A i \in 1 .. c - 1 : GasPrice[s[i]] >= GasPrice[t]
          /\ \A i \in c .. Len(s) : GasPrice[s[i]] < GasPrice[t]
      BY <2>0, Zenon DEF Cut
    <3>1. lower = c .. Len(s)
      BY <3>0, <1>1, Prices
    <3>2. at = c
      <4>1. CASE c = Len(s) + 1
        <5>1. lower = {}
          BY <3>1, <4>1, <1>1
        <5> QED BY <4>1, <5>1, Zenon
      <4>2. CASE c # Len(s) + 1
        <5>1. c \in lower /\ lower \subseteq Nat /\ \A i \in lower : c <= i
          BY <3>1, <4>2, <1>1
        <5>2. Min(lower) = c /\ lower # {}
          BY <5>1, MinIs, Zenon
        <5> QED BY <5>2, Zenon
      <4> QED BY <4>1, <4>2, Zenon
    <3> HIDE DEF at
    <3> QED BY <3>0, <3>2, Zenon
  <2> HIDE DEF at
  <2>3. /\ r \in Seq(Txs) /\ Len(r) = Len(s) + 1 /\ r[at] = t
        /\ \A j \in 1 .. at - 1 : r[j] = s[j]
        /\ \A j \in at + 1 .. Len(s) + 1 : r[j] = s[j - 1]
    <3>1. s \in Seq(Txs) /\ at \in 1 .. Len(s) + 1
      BY <1>1, <2>2, Zenon
    <3>2. IsInserted(r, s, at, t)
      BY <3>1, InsertedTx, Zenon
    <3> QED BY <3>2, Zenon DEF IsInserted
  <2> HIDE DEF r
  <2>4. DOMAIN r = 1 .. Len(s) + 1
    BY <2>3
  <2>5. Range(r) = R \cup {t}
    <3>1. \A j \in 1 .. Len(s) + 1 : r[j] = t \/ \E i \in 1 .. Len(s) : r[j] = s[i]
      <4> TAKE j \in 1 .. Len(s) + 1
      <4>1. CASE j < at
        <5>1. j \in 1 .. Len(s) /\ r[j] = s[j]
          BY <4>1, <2>2, <2>3, <1>1
        <5> QED BY <5>1, Zenon
      <4>2. CASE j = at
        BY <4>2, <2>3, Zenon
      <4>3. CASE j > at
        <5>1. j - 1 \in 1 .. Len(s) /\ r[j] = s[j - 1]
          BY <4>3, <2>2, <2>3, <1>1
        <5> QED BY <5>1, Zenon
      <4> QED BY <4>1, <4>2, <4>3, <2>2
    <3>2. \A i \in 1 .. Len(s) : \E j \in 1 .. Len(s) + 1 : r[j] = s[i]
      <4> TAKE i \in 1 .. Len(s)
      <4>1. CASE i < at
        <5>1. i \in 1 .. Len(s) + 1 /\ r[i] = s[i]
          BY <4>1, <2>2, <2>3, <1>1
        <5> QED BY <5>1, Zenon
      <4>2. CASE i >= at
        <5>1. i + 1 \in 1 .. Len(s) + 1 /\ r[i + 1] = s[i]
          BY <4>2, <2>2, <2>3, <1>1
        <5> QED BY <5>1, Zenon
      <4> QED BY <4>1, <4>2, <2>2
    <3>3. Range(r) = {r[j] : j \in 1 .. Len(s) + 1}
      BY <2>4, Zenon DEF Range
    <3>4. \A x \in Range(r) : x \in R \cup {t}
      BY <3>1, <3>3, <1>1, <1>2, Zenon
    <3>5. \A x \in R : x \in Range(r)
      BY <3>2, <3>3, <1>1, <1>2, Zenon
    <3>6. t \in Range(r)
      BY <3>3, <2>2, <2>3
    <3> QED BY <3>4, <3>5, <3>6, Zenon
  <2>6. ASSUME NEW i \in 1 .. Len(r), NEW j \in 1 .. Len(r), i < j
        PROVE  r[i] # r[j] /\ GasPrice[r[i]] >= GasPrice[r[j]]
    <3>0. \A k, l \in 1 .. Len(s) :
            k < l => s[k] # s[l] /\ GasPrice[s[k]] >= GasPrice[s[l]]
      BY Zenon DEF ListIs
    <3>1. CASE j < at
      <4>1. i \in 1 .. Len(s) /\ j \in 1 .. Len(s) /\ r[i] = s[i] /\ r[j] = s[j]
        BY <3>1, <2>6, <2>2, <2>3, <1>1
      <4> QED BY <4>1, <3>0, <2>6, Zenon
    <3>2. CASE j = at
      BY <1>4, <3>2, <2>6, <2>2, <2>3, <1>1
    <3>3. CASE j > at /\ i < at
      <4>1. /\ i \in 1 .. Len(s) /\ j - 1 \in 1 .. Len(s) /\ i < j - 1
            /\ r[i] = s[i] /\ r[j] = s[j - 1]
        BY <3>3, <2>6, <2>2, <2>3, <1>1
      <4> QED BY <4>1, <3>0, Zenon
    <3>4. CASE i = at
      <4>1. j - 1 \in at .. Len(s) /\ j - 1 \in 1 .. Len(s) /\ r[i] = t /\ r[j] = s[j - 1]
        BY <3>4, <2>6, <2>2, <2>3, <1>1
      <4>2. GasPrice[t] \in Nat /\ GasPrice[s[j - 1]] \in Nat /\ GasPrice[s[j - 1]] < GasPrice[t]
        BY <4>1, <2>2, <1>1, Prices, Zenon
      <4>3. GasPrice[t] >= GasPrice[s[j - 1]]
        BY <4>2
      <4> QED BY <1>4, <4>1, <4>3, Zenon
    <3>5. CASE i > at
      <4>1. /\ i - 1 \in 1 .. Len(s) /\ j - 1 \in 1 .. Len(s) /\ i - 1 < j - 1
            /\ r[i] = s[i - 1] /\ r[j] = s[j - 1]
        BY <3>5, <2>6, <2>2, <2>3, <1>1
      <4> QED BY <4>1, <3>0, Zenon
    <3> QED BY <3>1, <3>2, <3>3, <3>4, <3>5, <2>2, <2>3, <1>1
  <2>7. ASSUME NEW p \in Nat
        PROVE  \E k \in 1 .. Len(r) + 1 : Cut(r, k, p)
    <3>1. PICK k \in 1 .. Len(s) + 1 : Cut(s, k, p)
      BY Zenon DEF ListIs
    <3>2. /\ \A i \in 1 .. k - 1 : GasPrice[s[i]] >= p
          /\ \A i \in k .. Len(s) : GasPrice[s[i]] < p
      BY <3>1, Zenon DEF Cut
    <3>3. GasPrice[t] \in Nat
      BY Prices, Zenon
    <3>4. CASE p <= GasPrice[t]
      <4>1. at <= k
        BY <2>2, <3>2, <3>3, <3>4, <1>1
      <4>2. k + 1 \in 1 .. Len(r) + 1
        BY <2>3, <1>1
      <4>3. \A i \in 1 .. (k + 1) - 1 : GasPrice[r[i]] >= p
        <5> TAKE i \in 1 .. (k + 1) - 1
        <5>1. CASE i < at
          BY <5>1, <2>2, <2>3, <3>2, <4>1, <1>1
        <5>2. CASE i = at
          BY <5>2, <2>3, <3>4, Zenon
        <5>3. CASE i > at
          <6>1. i - 1 \in 1 .. k - 1 /\ r[i] = s[i - 1]
            BY <5>3, <2>2, <2>3, <1>1
          <6> QED BY <6>1, <3>2, Zenon
        <5> QED BY <5>1, <5>2, <5>3, <2>2
      <4>4. \A i \in k + 1 .. Len(r) : GasPrice[r[i]] < p
        <5> TAKE i \in k + 1 .. Len(r)
        <5>1. i - 1 \in k .. Len(s) /\ r[i] = s[i - 1]
          BY <2>2, <2>3, <4>1, <1>1
        <5> QED BY <5>1, <3>2, Zenon
      <4> QED BY <4>2, <4>3, <4>4, Zenon DEF Cut
    <3>5. CASE ~(p <= GasPrice[t])
      <4>1. k <= at
        BY <2>2, <3>2, <3>3, <3>5, <1>1
      <4>2. k \in 1 .. Len(r) + 1
        BY <2>3, <1>1
      <4>3. \A i \in 1 .. k - 1 : GasPrice[r[i]] >= p
        <5> TAKE i \in 1 .. k - 1
        <5>1. r[i] = s[i]
          BY <2>2, <2>3, <4>1, <1>1
        <5> QED BY <5>1, <3>2, Zenon
      <4>4. \A i \in k .. Len(r) : GasPrice[r[i]] < p
        <5> TAKE i \in k .. Len(r)
        <5>1. CASE i < at
          <6>1. i \in k .. Len(s) /\ r[i] = s[i]
            BY <5>1, <2>2, <2>3, <1>1
          <6> QED BY <6>1, <3>2, Zenon
        <5>2. CASE i = at
          <6>1. r[i] = t
            BY <5>2, <2>3, Zenon
          <6> QED BY <6>1, <3>3, <3>5
        <5>3. CASE i > at
          <6>1. i - 1 \in k .. Len(s) /\ r[i] = s[i - 1]
            BY <5>3, <2>2, <2>3, <4>1, <1>1
          <6> QED BY <6>1, <3>2, Zenon
        <5> QED BY <5>1, <5>2, <5>3, <2>2, <1>1
      <4> QED BY <4>2, <4>3, <4>4, Zenon DEF Cut
    <3> QED BY <3>4, <3>5, Zenon
  <2> QED BY <2>1, <2>3, <2>5, <2>6, <2>7, Zenon DEF ListIs
<1> QED BY <1>3, <1>4, Zenon

\* delete finds a tx of the list: no tx before it has a lower gas price.
LEMMA ListDeleteIs ==
  ASSUME NEW R, NEW s, ListIs(s, R), NEW t \in Txs
  PROVE  ListIs(ListDelete(s, t), R \ {t})
<1> DEFINE at == {i \in 1 .. Len(s) : s[i] = t /\ \A j \in 1 .. i - 1 : GasPrice[s[j]] >= GasPrice[t]}
<1>1. /\ s \in Seq(Txs) /\ Range(s) = R /\ DOMAIN s = 1 .. Len(s) /\ Len(s) \in Nat
      /\ \A i \in 1 .. Len(s) : s[i] \in Txs /\ GasPrice[s[i]] \in Nat
  <2>1. s \in Seq(Txs) /\ Range(s) = R
    BY Zenon DEF ListIs
  <2>2. DOMAIN s = 1 .. Len(s) /\ Len(s) \in Nat
    BY <2>1
  <2> QED BY <2>1, <2>2, Elements, Prices, Zenon
<1>2. Range(s) = {s[i] : i \in 1 .. Len(s)}
  BY <1>1, Zenon DEF Range
<1>0. \A k, l \in 1 .. Len(s) :
        k < l => s[k] # s[l] /\ GasPrice[s[k]] >= GasPrice[s[l]]
  BY Zenon DEF ListIs
<1>3. CASE at = {}
  <2>1. ListDelete(s, t) = s
    BY <1>3, Zenon DEF ListDelete
  <2>2. ASSUME NEW i \in 1 .. Len(s), s[i] = t
        PROVE  FALSE
    <3>1. \A j \in 1 .. i - 1 : GasPrice[s[j]] >= GasPrice[t]
      BY <1>0, <1>1, <2>2
    <3> QED BY <3>1, <2>2, <1>3, Zenon
  <2>3. R \ {t} = R
    BY <2>2, <1>1, <1>2, Zenon
  <2> QED BY <2>1, <2>3, Zenon
<1>4. CASE at # {}
  <2> DEFINE n == Min(at)
             r == RemoveAt(s, n)
  <2>1. ListDelete(s, t) = r
    BY <1>4, Zenon DEF ListDelete, RemoveAt
  <2>2. n \in at
    <3>1. PICK m \in at : TRUE
      BY <1>4, Zenon
    <3>2. at \subseteq Nat /\ \A i \in at : m <= i
      BY <1>0, <1>1, <3>1
    <3> QED BY <3>2, MinIs, Zenon
  <2> HIDE DEF n
  <2>3. n \in 1 .. Len(s) /\ s[n] = t
    BY <2>2, Zenon
  <2> HIDE DEF at
  <2>4. /\ r \in Seq(Txs) /\ Len(r) = Len(s) - 1
        /\ \A j \in 1 .. n - 1 : r[j] = s[j]
        /\ \A j \in n .. Len(s) - 1 : r[j] = s[j + 1]
    BY <1>1, <2>3, RemovedElements, Zenon
  <2> HIDE DEF r
  <2>5. DOMAIN r = 1 .. Len(s) - 1
    BY <2>4
  <2>6. Range(r) = R \ {t}
    <3>1. \A j \in 1 .. Len(s) - 1 : r[j] # t /\ \E i \in 1 .. Len(s) : r[j] = s[i]
      <4> TAKE j \in 1 .. Len(s) - 1
      <4>1. CASE j < n
        <5>1. j \in 1 .. Len(s) /\ r[j] = s[j] /\ s[j] # s[n]
          BY <4>1, <1>0, <2>3, <2>4, <1>1
        <5> QED BY <5>1, <2>3, Zenon
      <4>2. CASE j >= n
        <5>1. j + 1 \in 1 .. Len(s) /\ r[j] = s[j + 1] /\ s[j + 1] # s[n]
          BY <4>2, <1>0, <2>3, <2>4, <1>1
        <5> QED BY <5>1, <2>3, Zenon
      <4> QED BY <4>1, <4>2, <2>3
    <3>2. \A i \in 1 .. Len(s) : s[i] # t => \E j \in 1 .. Len(s) - 1 : r[j] = s[i]
      <4> TAKE i \in 1 .. Len(s)
      <4> HAVE s[i] # t
      <4>1. CASE i < n
        <5>1. i \in 1 .. Len(s) - 1 /\ r[i] = s[i]
          BY <4>1, <2>3, <2>4, <1>1
        <5> QED BY <5>1, Zenon
      <4>2. CASE i > n
        <5>1. i - 1 \in 1 .. Len(s) - 1 /\ r[i - 1] = s[i]
          BY <4>2, <2>3, <2>4, <1>1
        <5> QED BY <5>1, Zenon
      <4> QED BY <4>1, <4>2, <2>3
    <3>3. Range(r) = {r[j] : j \in 1 .. Len(s) - 1}
      BY <2>5, Zenon DEF Range
    <3>4. \A x \in Range(r) : x \in R \ {t}
      BY <3>1, <3>3, <1>1, <1>2, Zenon
    <3>5. \A x \in R \ {t} : x \in Range(r)
      BY <3>2, <3>3, <1>1, <1>2, Zenon
    <3> QED BY <3>4, <3>5, Zenon
  <2>7. ASSUME NEW i \in 1 .. Len(r), NEW j \in 1 .. Len(r), i < j
        PROVE  r[i] # r[j] /\ GasPrice[r[i]] >= GasPrice[r[j]]
    <3>1. CASE j < n
      BY <1>0, <3>1, <2>7, <2>3, <2>4, <1>1
    <3>2. CASE j >= n /\ i < n
      <4>1. /\ i \in 1 .. Len(s) /\ j + 1 \in 1 .. Len(s) /\ i < j + 1
            /\ r[i] = s[i] /\ r[j] = s[j + 1]
        BY <3>2, <2>7, <2>3, <2>4, <1>1
      <4> QED BY <4>1, <1>0, Zenon
    <3>3. CASE i >= n
      <4>1. /\ i + 1 \in 1 .. Len(s) /\ j + 1 \in 1 .. Len(s) /\ i + 1 < j + 1
            /\ r[i] = s[i + 1] /\ r[j] = s[j + 1]
        BY <3>3, <2>7, <2>3, <2>4, <1>1
      <4> QED BY <4>1, <1>0, Zenon
    <3> QED BY <3>1, <3>2, <3>3, <2>3, <2>4, <1>1
  <2>8. ASSUME NEW p \in Nat
        PROVE  \E k \in 1 .. Len(r) + 1 : Cut(r, k, p)
    <3>1. PICK k \in 1 .. Len(s) + 1 : Cut(s, k, p)
      BY Zenon DEF ListIs
    <3>2. /\ \A i \in 1 .. k - 1 : GasPrice[s[i]] >= p
          /\ \A i \in k .. Len(s) : GasPrice[s[i]] < p
      BY <3>1, Zenon DEF Cut
    <3>3. CASE n < k
      <4>1. k - 1 \in 1 .. Len(r) + 1
        BY <2>3, <2>4, <3>3, <1>1
      <4>2. \A i \in 1 .. (k - 1) - 1 : GasPrice[r[i]] >= p
        <5> TAKE i \in 1 .. (k - 1) - 1
        <5>1. (i \in 1 .. k - 1 /\ r[i] = s[i]) \/ (i + 1 \in 1 .. k - 1 /\ r[i] = s[i + 1])
          BY <2>3, <2>4, <3>3, <1>1
        <5> QED BY <5>1, <3>2, Zenon
      <4>3. \A i \in k - 1 .. Len(r) : GasPrice[r[i]] < p
        <5> TAKE i \in k - 1 .. Len(r)
        <5>1. i + 1 \in k .. Len(s) /\ r[i] = s[i + 1]
          BY <2>3, <2>4, <3>3, <1>1
        <5> QED BY <5>1, <3>2, Zenon
      <4> QED BY <4>1, <4>2, <4>3, Zenon DEF Cut
    <3>4. CASE ~(n < k)
      <4>1. k \in 1 .. Len(r) + 1
        BY <2>3, <2>4, <3>4, <1>1
      <4>2. \A i \in 1 .. k - 1 : GasPrice[r[i]] >= p
        <5> TAKE i \in 1 .. k - 1
        <5>1. r[i] = s[i]
          BY <2>3, <2>4, <3>4, <1>1
        <5> QED BY <5>1, <3>2, Zenon
      <4>3. \A i \in k .. Len(r) : GasPrice[r[i]] < p
        <5> TAKE i \in k .. Len(r)
        <5>1. (i \in k .. Len(s) /\ r[i] = s[i]) \/ (i + 1 \in k .. Len(s) /\ r[i] = s[i + 1])
          BY <2>3, <2>4, <3>4, <1>1
        <5> QED BY <5>1, <3>2, Zenon
      <4> QED BY <4>1, <4>2, <4>3, Zenon DEF Cut
    <3> QED BY <3>3, <3>4, Zenon
  <2> QED BY <2>1, <2>4, <2>6, <2>7, <2>8, Zenon DEF ListIs
<1> QED BY <1>3, <1>4, Zenon

-----------------------------------------------------------------------------
(* addrQueue.                                                              *)

\* What QueueConsistent says of the queue q of a, but for its last conjunct.
Consistent(q, a) ==
  /\ \A t \in q.readyTx : Nonce[t] = q.nonce /\ Cost[t] <= q.balance
  /\ \A t, u \in q.readyTx : t = u
  /\ \A t, u \in q.notReadyTxs : Nonce[t] = Nonce[u] => t = u
  /\ \A t \in q.notReadyTxs : Nonce[t] >= q.nonce
  /\ \A t \in q.readyTx \cup q.notReadyTxs : From[t] = a
Apart(q) == q.readyTx \cap q.notReadyTxs = {}

Held(q) == q.readyTx \cup q.notReadyTxs

\* The fields of a queue.
LEMMA Fields ==
  ASSUME NEW q \in AddrQueue
  PROVE  /\ q.nonce \in Nat /\ q.balance \in Nat
         /\ q.readyTx \subseteq Txs /\ q.notReadyTxs \subseteq Txs /\ q.pendingTxsToStore \subseteq Txs
BY Zenon DEF AddrQueue

\* A queue with other ready and not ready txs.
LEMMA WithTxs ==
  ASSUME NEW q \in AddrQueue, NEW R \in SUBSET Txs, NEW N \in SUBSET Txs
  PROVE  LET r == [q EXCEPT !.readyTx = R, !.notReadyTxs = N]
         IN /\ r \in AddrQueue /\ r.nonce = q.nonce /\ r.balance = q.balance
            /\ r.pendingTxsToStore = q.pendingTxsToStore
            /\ r.readyTx = R /\ r.notReadyTxs = N
BY Zenon DEF AddrQueue

\* addTx keeps a queue consistent; it puts t in and takes only txs with t's
\* nonce out.
LEMMA AddTxIs ==
  ASSUME NEW a, NEW q \in AddrQueue, Consistent(q, a),
         NEW t \in Txs, From[t] = a, ~AddTxDropped(q, t)
  PROVE  LET r == AddTx(q, t)
         IN /\ r \in AddrQueue /\ Consistent(r, a)
            /\ Apart(q) /\ t \notin Held(q) => Apart(r)
            /\ r.nonce = q.nonce /\ r.balance = q.balance
            /\ r.pendingTxsToStore = q.pendingTxsToStore
            /\ t \in Held(r)
            /\ \A u \in Held(r) : u \in Held(q) \/ u = t
            /\ \A u \in Held(q) : u \in Held(r) \/ Nonce[u] = Nonce[t]
            /\ \A u \in q.readyTx : Nonce[t] = q.nonce \/ u \in r.readyTx
<1>1. /\ q.nonce \in Nat /\ q.balance \in Nat
      /\ q.readyTx \subseteq Txs /\ q.notReadyTxs \subseteq Txs
  BY Fields, Zenon
<1>2. Nonce[t] \in Nat /\ Cost[t] \in Nat /\ ~(Nonce[t] < q.nonce)
  BY Prices, Zenon DEF AddTxDropped
<1>3. Nonce[t] >= q.nonce
  BY <1>1, <1>2
<1> DEFINE others == q.notReadyTxs \ SameNonce(q, t)
<1>4. CASE Nonce[t] = q.nonce /\ Cost[t] <= q.balance
  <2> DEFINE r == AddTx(q, t)
  <2>1. r = [q EXCEPT !.readyTx = {t}]
    BY <1>4, Zenon DEF AddTx
  <2>2. /\ r \in AddrQueue /\ r.nonce = q.nonce /\ r.balance = q.balance
        /\ r.pendingTxsToStore = q.pendingTxsToStore
        /\ r.readyTx = {t} /\ r.notReadyTxs = q.notReadyTxs
    BY <2>1 DEF AddrQueue
  <2> HIDE DEF r
  <2>3. Consistent(r, a)
    BY <2>2, <1>4, Zenon DEF Consistent
  <2>4. Apart(q) /\ t \notin Held(q) => Apart(r)
    BY <2>2, Zenon DEF Apart, Held
  <2>5. \A u \in Held(q) : u \in Held(r) \/ Nonce[u] = Nonce[t]
    BY <2>2, <1>4, Zenon DEF Held, Consistent
  <2> QED BY <2>2, <2>3, <2>4, <2>5, <1>4, Zenon DEF Held, r
<1>5. CASE ~(Nonce[t] = q.nonce /\ Cost[t] <= q.balance)
  <2> DEFINE r == AddTx(q, t)
             R == IF Nonce[t] = q.nonce THEN {} ELSE q.readyTx
             N == others \cup {t}
  <2>1. r = [q EXCEPT !.readyTx = R, !.notReadyTxs = N]
    BY <1>5, Zenon DEF AddTx
  <2>0. R \in SUBSET Txs /\ N \in SUBSET Txs
    BY <1>1, Zenon
  <2>a. R \subseteq q.readyTx /\ (Nonce[t] = q.nonce \/ R = q.readyTx)
    BY Zenon
  <2>b. N = others \cup {t}
    BY Zenon
  <2> HIDE DEF R, N
  <2>2. /\ r \in AddrQueue /\ r.nonce = q.nonce /\ r.balance = q.balance
        /\ r.pendingTxsToStore = q.pendingTxsToStore
        /\ r.readyTx = R /\ r.notReadyTxs = N
    BY <2>1, <2>0, Zenon DEF AddrQueue
  <2> HIDE DEF r
  <2>3. \A u \in N : u = t \/ (u \in q.notReadyTxs /\ Nonce[u] # Nonce[t])
    BY <2>b, Zenon DEF SameNonce
  <2>4. \A u \in q.notReadyTxs : u \in N \/ Nonce[u] = Nonce[t]
    BY <2>b, Zenon DEF SameNonce
  <2>5. Consistent(r, a)
    <3>1. \A u \in r.readyTx : Nonce[u] = r.nonce /\ Cost[u] <= r.balance
      BY <2>2, <2>a, Zenon DEF Consistent
    <3>2. \A u, v \in r.readyTx : u = v
      BY <2>2, <2>a, Zenon DEF Consistent
    <3>3. \A u, v \in r.notReadyTxs : Nonce[u] = Nonce[v] => u = v
      BY <2>2, <2>3, Zenon DEF Consistent
    <3>4. \A u \in r.notReadyTxs : Nonce[u] >= r.nonce
      BY <2>2, <2>3, <1>3, Zenon DEF Consistent
    <3>5. \A u \in r.readyTx \cup r.notReadyTxs : From[u] = a
      BY <2>2, <2>3, <2>a, Zenon DEF Consistent
    <3> QED BY <3>1, <3>2, <3>3, <3>4, <3>5, Zenon DEF Consistent
  <2>6. Apart(q) /\ t \notin Held(q) => Apart(r)
    BY <2>2, <2>3, <2>a, Zenon DEF Apart, Held
  <2>7. \A u \in Held(r) : u \in Held(q) \/ u = t
    BY <2>2, <2>3, <2>a, Zenon DEF Held
  <2>8. \A u \in Held(q) : u \in Held(r) \/ Nonce[u] = Nonce[t]
    BY <2>2, <2>4, <2>a, Zenon DEF Held, Consistent
  <2>9. t \in Held(r)
    BY <2>2, <2>b, Zenon DEF Held
  <2> QED BY <2>2, <2>5, <2>6, <2>7, <2>8, <2>9, <2>a, Zenon DEF r
<1> QED BY <1>4, <1>5, Zenon

\* deleteTx takes t out; of a queue whose ready tx is not among the others, for
\* good.
LEMMA DeleteTxIs ==
  ASSUME NEW a, NEW q \in AddrQueue, Consistent(q, a), NEW t \in Txs
  PROVE  LET r == DeleteTx(q, t)
         IN /\ r \in AddrQueue /\ Consistent(r, a)
            /\ Apart(q) => Apart(r) /\ t \notin Held(r)
            /\ r.nonce = q.nonce /\ r.balance = q.balance
            /\ r.pendingTxsToStore = q.pendingTxsToStore
            /\ Held(r) \subseteq Held(q)
            /\ \A u \in Held(q) : u \in Held(r) \/ u = t
            /\ r.readyTx = q.readyTx \ {t}
<1>1. /\ q.nonce \in Nat /\ q.balance \in Nat
      /\ q.readyTx \subseteq Txs /\ q.notReadyTxs \subseteq Txs
  BY Fields, Zenon
<1> DEFINE r == DeleteTx(q, t)
<1>2. /\ r \in AddrQueue /\ r.nonce = q.nonce /\ r.balance = q.balance
      /\ r.pendingTxsToStore = q.pendingTxsToStore
      /\ \/ t \in q.readyTx /\ r.readyTx = {} /\ r.notReadyTxs = q.notReadyTxs
         \/ t \notin q.readyTx /\ r.readyTx = q.readyTx /\ r.notReadyTxs = q.notReadyTxs \ {t}
  <2>1. CASE t \in q.readyTx
    <3>1. r = [q EXCEPT !.readyTx = {}]
      BY <2>1, Zenon DEF DeleteTx
    <3> QED BY <2>1, <3>1 DEF AddrQueue
  <2>2. CASE t \notin q.readyTx
    <3>1. r = [q EXCEPT !.notReadyTxs = q.notReadyTxs \ {t}]
      BY <2>2, Zenon DEF DeleteTx
    <3> QED BY <2>2, <3>1 DEF AddrQueue
  <2> QED BY <2>1, <2>2, Zenon
<1> HIDE DEF r
<1>3. \A u, v \in q.readyTx : u = v
  BY Zenon DEF Consistent
<1>4. r.readyTx = q.readyTx \ {t}
  BY <1>2, <1>3, Zenon
<1>5. r.notReadyTxs \subseteq q.notReadyTxs /\ \A u \in q.notReadyTxs : u \in r.notReadyTxs \/ u = t
  BY <1>2, Zenon
<1>6. Consistent(r, a)
  BY <1>2, <1>4, <1>5, Zenon DEF Consistent
<1>7. Apart(q) => Apart(r) /\ t \notin Held(r)
  BY <1>2, Zenon DEF Apart, Held
<1>8. Held(r) \subseteq Held(q) /\ \A u \in Held(q) : u \in Held(r) \/ u = t
  BY <1>4, <1>5, Zenon DEF Held
<1> QED BY <1>2, <1>4, <1>6, <1>7, <1>8, Zenon DEF r

\* What updateCurrentNonceBalance makes of the queue q of a: it takes out the txs
\* it returns, a ready tx that is too old or too expensive, and a tx whose nonce
\* the ready tx that is put back has too.
Updated(q, r, a, nonce, balance) ==
  /\ r \in AddrQueue /\ Consistent(r, a)
  /\ Apart(q) => Apart(r)
  /\ r.nonce = nonce /\ r.balance = balance
  /\ Held(r) \subseteq Held(q)
  /\ \A u \in Held(q) :
       \/ u \in Held(r)
       \/ u \in TooLow(q, nonce)
       \/ u \in q.readyTx /\ Nonce[u] < nonce
       \/ u \in q.readyTx /\ Nonce[u] = nonce /\ balance < Cost[u]
       \/ \E b \in q.readyTx : b # u /\ Nonce[b] = Nonce[u]

\* It keeps the queue consistent.
LEMMA UpdateIs ==
  ASSUME NEW a, NEW q \in AddrQueue, Consistent(q, a), NEW nonce \in Nat, NEW balance \in Nat
  PROVE  Updated(q, UpdateNonceBalance(q, nonce, balance), a, nonce, balance)
<1> DEFINE r == UpdateNonceBalance(q, nonce, balance)
           rest == q.notReadyTxs \ TooLow(q, nonce)
           old == {t \in q.readyTx : Nonce[t] # nonce \/ balance < Cost[t]}
           next == {t \in rest : q.readyTx \subseteq old /\ Nonce[t] = nonce /\ Cost[t] <= balance}
           back == {t \in old : Nonce[t] > nonce}
           R == (q.readyTx \ old) \cup next
           N == {t \in rest \ next : \A b \in back : Nonce[t] # Nonce[b]} \cup back
<1>1. /\ q.nonce \in Nat /\ q.balance \in Nat
      /\ q.readyTx \subseteq Txs /\ q.notReadyTxs \subseteq Txs
  BY Fields, Zenon
<1>2. R \in SUBSET Txs /\ N \in SUBSET Txs
  BY <1>1, Zenon
<1>3. r = [q EXCEPT !.nonce = nonce, !.balance = balance, !.readyTx = R, !.notReadyTxs = N]
  BY Zenon DEF UpdateNonceBalance
<1>4. \A t \in old : t \in q.readyTx /\ (Nonce[t] # nonce \/ balance < Cost[t])
  BY Zenon
<1>5. \A t \in q.readyTx : t \in old \/ (Nonce[t] = nonce /\ ~(balance < Cost[t]))
  BY Zenon
<1>6. \A t \in next : t \in rest /\ q.readyTx \subseteq old /\ Nonce[t] = nonce /\ Cost[t] <= balance
  BY Zenon
<1>7. \A t \in back : t \in old /\ Nonce[t] > nonce
  BY Zenon
<1>8. \A t \in old : t \in back \/ ~(Nonce[t] > nonce)
  BY Zenon
<1>9. \A t \in q.notReadyTxs : t \in rest \/ t \in TooLow(q, nonce)
  BY Zenon
<1>10. \A t \in rest : t \in q.notReadyTxs /\ t \notin TooLow(q, nonce)
  BY Zenon
<1>11. \A t \in R : t \in next \/ (t \in q.readyTx /\ t \notin old)
  BY Zenon
<1>12. \A t \in next : t \in R
  BY Zenon
<1>13. \A t \in q.readyTx : t \in old \/ t \in R
  BY Zenon
<1>14. \A t \in N : t \in back \/ (t \in rest /\ t \notin next /\ \A b \in back : Nonce[t] # Nonce[b])
  BY Zenon
<1>15. \A t \in back : t \in N
  BY Zenon
<1>16. \A t \in rest : t \in N \/ t \in next \/ \E b \in back : Nonce[t] = Nonce[b]
  BY Zenon
<1> HIDE DEF R, N, back, next, old, rest
<1>17. /\ r \in AddrQueue /\ r.nonce = nonce /\ r.balance = balance
       /\ r.pendingTxsToStore = q.pendingTxsToStore
       /\ r.readyTx = R /\ r.notReadyTxs = N
  BY <1>2, <1>3, Zenon DEF AddrQueue
<1> HIDE DEF r
<1>18. \A t \in q.readyTx \cup q.notReadyTxs : Nonce[t] \in Nat /\ Cost[t] \in Nat
  BY <1>1, Prices, Zenon
<1>19. \A t \in rest : Nonce[t] >= nonce
  <2> TAKE t \in rest
  <2>1. t \in q.notReadyTxs /\ ~(nonce # q.nonce /\ Nonce[t] < nonce) /\ Nonce[t] >= q.nonce
    BY <1>10, Zenon DEF TooLow, Consistent
  <2> QED BY <2>1, <1>1, <1>18
<1>20. Consistent(r, a)
  <2>1. \A t \in q.readyTx : ~(balance < Cost[t]) => Cost[t] <= balance
    BY <1>18
  <2>2. \A t \in back : Nonce[t] >= nonce
    BY <1>7, <1>4, <1>18
  <2>3. \A t \in R : Nonce[t] = nonce /\ Cost[t] <= balance
    BY <1>11, <1>6, <1>5, <2>1, Zenon
  <2>4. \A t, u \in R : t = u
    <3>1. \A t, u \in q.readyTx : t = u
      BY Zenon DEF Consistent
    <3>2. \A t, u \in q.notReadyTxs : Nonce[t] = Nonce[u] => t = u
      BY Zenon DEF Consistent
    <3>3. \A t, u \in next : t = u
      BY <3>2, <1>6, <1>10, Zenon
    <3> QED BY <3>1, <3>3, <1>11, <1>6, Zenon
  <2>5. \A t, u \in N : Nonce[t] = Nonce[u] => t = u
    <3>1. \A t, u \in q.readyTx : t = u
      BY Zenon DEF Consistent
    <3>2. \A t, u \in q.notReadyTxs : Nonce[t] = Nonce[u] => t = u
      BY Zenon DEF Consistent
    <3>3. \A t, u \in back : t = u
      BY <3>1, <1>7, <1>4, Zenon
    <3> QED BY <3>2, <3>3, <1>14, <1>10, Zenon
  <2>6. \A t \in N : Nonce[t] >= nonce
    BY <1>14, <1>19, <2>2, Zenon
  <2>7. \A t \in R \cup N : From[t] = a
    BY <1>11, <1>6, <1>14, <1>10, <1>7, <1>4, Zenon DEF Consistent
  <2> QED BY <2>3, <2>4, <2>5, <2>6, <2>7, <1>17, Zenon DEF Consistent
<1>21. Apart(q) => Apart(r)
  <2> HAVE Apart(q)
  <2>1. \A t \in q.readyTx : t \notin q.notReadyTxs
    BY Zenon DEF Apart
  <2>2. \A t \in R : t \notin N
    BY <2>1, <1>11, <1>14, <1>6, <1>10, <1>7, <1>4, Zenon
  <2> QED BY <2>2, <1>17, Zenon DEF Apart
<1>22. Held(r) \subseteq Held(q)
  BY <1>17, <1>11, <1>6, <1>14, <1>10, <1>7, <1>4, Zenon DEF Held
<1>23. ASSUME NEW u \in Held(q)
       PROVE  \/ u \in Held(r)
              \/ u \in TooLow(q, nonce)
              \/ u \in q.readyTx /\ Nonce[u] < nonce
              \/ u \in q.readyTx /\ Nonce[u] = nonce /\ balance < Cost[u]
              \/ \E b \in q.readyTx : b # u /\ Nonce[b] = Nonce[u]
  <2>1. CASE u \in q.readyTx
    <3>1. u \in R \/ u \in back \/ (~(Nonce[u] > nonce) /\ (Nonce[u] # nonce \/ balance < Cost[u]))
      BY <2>1, <1>13, <1>8, <1>4, Zenon
    <3>2. u \in R \/ u \in back => u \in Held(r)
      BY <1>15, <1>17, Zenon DEF Held
    <3>3. Nonce[u] \in Nat /\ Cost[u] \in Nat
      BY <2>1, <1>18, Zenon
    <3>4. ~(Nonce[u] > nonce) => Nonce[u] < nonce \/ Nonce[u] = nonce
      BY <3>3
    <3> QED BY <2>1, <3>1, <3>2, <3>4, Zenon
  <2>2. CASE u \in q.notReadyTxs
    <3>1. u \in TooLow(q, nonce) \/ u \in N \/ u \in next \/ \E b \in back : Nonce[u] = Nonce[b]
      BY <2>2, <1>9, <1>16, Zenon
    <3>2. u \in N \/ u \in next => u \in Held(r)
      BY <1>12, <1>17, Zenon DEF Held
    <3>3. \A b \in back : b \in q.readyTx /\ b \in Held(r)
      BY <1>7, <1>4, <1>15, <1>17, Zenon DEF Held
    <3> QED BY <3>1, <3>2, <3>3, Zenon
  <2> QED BY <2>1, <2>2, Zenon DEF Held
<1>24. Updated(q, r, a, nonce, balance)
  BY <1>17, <1>20, <1>21, <1>22, <1>23, Zenon DEF Updated
<1> QED BY <1>24, Zenon DEF r

-----------------------------------------------------------------------------
(* The worker.                                                             *)

HeldIn(Q, F) == UNION {Q[a].readyTx \cup Q[a].notReadyTxs : a \in F}

\* The queues Q of the senders F and the list S agree.
Agree(Q, S, F) ==
  /\ Q \in [Addrs -> AddrQueue] /\ F \subseteq Addrs
  /\ ListIs(S, UNION {Q[a].readyTx : a \in F})
  /\ \A a \in F : Consistent(Q[a], a)
AllApart(Q, F) == \A a \in F : Apart(Q[a])

\* A tx is in the queue of its sender.
LEMMA HeldInIs ==
  ASSUME NEW Q, NEW S, NEW F, Agree(Q, S, F)
  PROVE  \A t : t \in HeldIn(Q, F) <=> t \in Txs /\ From[t] \in F /\ t \in Held(Q[From[t]])
<1>1. \A a \in F : Q[a] \in AddrQueue
  BY Zenon DEF Agree
<1>2. \A a \in F : Held(Q[a]) \subseteq Txs
  BY <1>1, Fields, Zenon DEF Held
<1>3. \A a \in F : \A t \in Held(Q[a]) : From[t] = a
  BY Zenon DEF Agree, Consistent, Held
<1>4. \A t : t \in HeldIn(Q, F) <=> \E a \in F : t \in Held(Q[a])
  BY Zenon DEF HeldIn, Held
<1> TAKE t
<1>5. t \in HeldIn(Q, F) => t \in Txs /\ From[t] \in F /\ t \in Held(Q[From[t]])
  <2> HAVE t \in HeldIn(Q, F)
  <2>1. PICK a \in F : t \in Held(Q[a])
    BY <1>4, Zenon
  <2>2. From[t] = a /\ t \in Txs
    BY <2>1, <1>2, <1>3, Zenon
  <2> QED BY <2>1, <2>2, Zenon
<1> QED BY <1>4, <1>5, Zenon

\* The same in the next state.
LEMMA HeldInNext ==
  ASSUME Agree(queue', sorted', found')
  PROVE  \A t : t \in HeldIn(queue', found') <=> t \in Txs /\ From[t] \in found' /\ t \in Held(queue'[From[t]])
BY HeldInIs, Zenon

\* r can take the place of the queue of a: prev is what leaves the ready txs.
Fits(w, F, a, r, prev) ==
  /\ Agree(w.queue, w.sorted, F)
  /\ a \in Addrs /\ r \in AddrQueue /\ Consistent(r, a)
  /\ prev \subseteq Txs /\ \A t, u \in prev : t = u
  /\ a \notin F => prev = {}
  /\ a \in F => /\ prev \subseteq w.queue[a].readyTx
                /\ \A u \in w.queue[a].readyTx : u \in prev \/ u \in r.readyTx

\* Then the agreement is kept.
LEMMA SetQueueIs ==
  ASSUME NEW w, NEW F, NEW a, NEW r, NEW prev, Fits(w, F, a, r, prev)
  PROVE  LET v == SetQueue(w, a, r, prev)
         IN /\ v.queue = [w.queue EXCEPT ![a] = r]
            /\ Agree(v.queue, v.sorted, F \cup {a})
<1> DEFINE v == SetQueue(w, a, r, prev)
           cut == IF prev = {} THEN w.sorted ELSE ListDelete(w.sorted, CHOOSE t \in prev : TRUE)
           all == UNION {w.queue[b].readyTx : b \in F}
           Q == [w.queue EXCEPT ![a] = r]
           S == IF r.readyTx = {} THEN cut ELSE ListAdd(cut, CHOOSE t \in r.readyTx : TRUE)
<1>0. /\ Agree(w.queue, w.sorted, F)
      /\ a \in Addrs /\ r \in AddrQueue /\ Consistent(r, a)
      /\ prev \subseteq Txs /\ \A t, u \in prev : t = u
      /\ a \notin F => prev = {}
      /\ a \in F => /\ prev \subseteq w.queue[a].readyTx
                    /\ \A u \in w.queue[a].readyTx : u \in prev \/ u \in r.readyTx
  BY Zenon DEF Fits
<1>1. v.queue = Q /\ v.sorted = S
  BY DEF SetQueue
<1>2. ListIs(w.sorted, all)
  BY <1>0, Zenon DEF Agree
<1>3. ListIs(cut, all \ prev)
  <2>1. CASE prev = {}
    <3>1. cut = w.sorted
      BY <2>1, Zenon
    <3>2. all \ prev = all
      BY <2>1, Zenon
    <3> HIDE DEF all, cut
    <3> QED BY <1>2, <3>1, <3>2, Zenon
  <2>2. CASE prev # {}
    <3> DEFINE t == CHOOSE t \in prev : TRUE
    <3>1. t \in prev
      BY <2>2, Zenon
    <3>2. cut = ListDelete(w.sorted, t)
      BY <2>2, Zenon
    <3> HIDE DEF t
    <3>3. all \ prev = all \ {t} /\ t \in Txs
      BY <1>0, <3>1, Zenon
    <3> HIDE DEF all, cut
    <3>4. ListIs(ListDelete(w.sorted, t), all \ {t})
      BY <1>2, <3>3, ListDeleteIs, Zenon
    <3> QED BY <3>2, <3>3, <3>4, Zenon
  <2> QED BY <2>1, <2>2, Zenon
<1> HIDE DEF cut
<1>4. r.readyTx \subseteq Txs /\ \A t, u \in r.readyTx : t = u
  BY <1>0, Fields, Zenon DEF Consistent
<1>5. ListIs(S, (all \ prev) \cup r.readyTx)
  <2>1. CASE r.readyTx = {}
    <3>1. S = cut
      BY <2>1, Zenon
    <3>2. (all \ prev) \cup r.readyTx = all \ prev
      BY <2>1, Zenon
    <3> HIDE DEF all, S
    <3> QED BY <1>3, <3>1, <3>2, Zenon
  <2>2. CASE r.readyTx # {}
    <3> DEFINE t == CHOOSE t \in r.readyTx : TRUE
    <3>1. t \in r.readyTx
      BY <2>2, Zenon
    <3>2. S = ListAdd(cut, t)
      BY <2>2, Zenon
    <3> HIDE DEF t
    <3>3. r.readyTx = {t} /\ t \in Txs
      BY <3>1, <1>4, Zenon
    <3> HIDE DEF all, S
    <3>4. ListIs(ListAdd(cut, t), (all \ prev) \cup {t})
      BY <1>3, <3>3, ListAddIs, Zenon
    <3> QED BY <3>2, <3>3, <3>4, Zenon
  <2> QED BY <2>1, <2>2, Zenon
<1> HIDE DEF S
<1>6. w.queue \in [Addrs -> AddrQueue] /\ F \subseteq Addrs /\ \A b \in F : Consistent(w.queue[b], b)
  BY <1>0, Zenon DEF Agree
<1>7. /\ Q \in [Addrs -> AddrQueue] /\ Q[a] = r
      /\ \A b \in Addrs : b # a => Q[b] = w.queue[b]
  BY <1>0, <1>6, Zenon
<1> HIDE DEF Q
<1>8. \A b \in F \cup {a} : Consistent(Q[b], b)
  BY <1>0, <1>6, <1>7, Zenon
<1>9. (all \ prev) \cup r.readyTx = UNION {Q[b].readyTx : b \in F \cup {a}}
  <2>1. ASSUME NEW x \in (all \ prev) \cup r.readyTx
        PROVE  \E b \in F \cup {a} : x \in Q[b].readyTx
    <3>1. CASE x \in r.readyTx
      BY <3>1, <1>7, Zenon
    <3>2. CASE x \in all \ prev
      <4>1. PICK b \in F : x \in w.queue[b].readyTx /\ x \notin prev
        BY <3>2, Zenon
      <4> QED BY <1>0, <4>1, <1>6, <1>7, Zenon
    <3> QED BY <2>1, <3>1, <3>2, Zenon
  <2>2. ASSUME NEW b \in F \cup {a}, NEW x \in Q[b].readyTx
        PROVE  x \in (all \ prev) \cup r.readyTx
    <3>1. CASE b = a
      BY <3>1, <1>7, Zenon
    <3>2. CASE b # a
      <4>1. b \in F /\ x \in w.queue[b].readyTx
        BY <3>2, <1>6, <1>7, Zenon
      <4>2. \A c \in F : \A y \in w.queue[c].readyTx : From[y] = c
        BY <1>6, Zenon DEF Consistent
      <4>3. x \notin prev
        BY <1>0, <3>2, <4>1, <4>2, Zenon
      <4> QED BY <4>1, <4>3, Zenon
    <3> QED BY <3>1, <3>2, Zenon
  <2> QED BY <2>1, <2>2, Zenon
<1> HIDE DEF all
<1>10. Agree(Q, S, F \cup {a})
  BY <1>0, <1>5, <1>6, <1>7, <1>8, <1>9, Zenon DEF Agree
<1> QED BY <1>1, <1>10, Zenon DEF v, Q

\* Worker.DeleteTx.
LEMMA WorkerDeleteTxIs ==
  ASSUME NEW w, Agree(w.queue, w.sorted, found), NEW t \in Txs, From[t] \in Addrs
  PROVE  LET v == WorkerDeleteTx(w, t)
         IN /\ Agree(v.queue, v.sorted, found)
            /\ AllApart(w.queue, found) => AllApart(v.queue, found) /\ t \notin HeldIn(v.queue, found)
            /\ \A b \in Addrs : /\ v.queue[b].nonce = w.queue[b].nonce
                                /\ v.queue[b].balance = w.queue[b].balance
            /\ HeldIn(v.queue, found) \subseteq HeldIn(w.queue, found)
            /\ \A u \in HeldIn(w.queue, found) : u \in HeldIn(v.queue, found) \/ u = t
<1> DEFINE a == From[t]
           q == w.queue[a]
           r == DeleteTx(q, t)
           v == WorkerDeleteTx(w, t)
<1>1. CASE a \notin found
  <2>1. v = w
    BY <1>1, Zenon DEF WorkerDeleteTx
  <2>2. t \notin HeldIn(w.queue, found)
    BY <1>1, HeldInIs, Zenon
  <2> HIDE DEF v
  <2> QED BY <2>1, <2>2, Zenon DEF v
<1>2. CASE a \in found
  <2>1. v = SetQueue(w, a, r, q.readyTx \cap {t})
    BY <1>2, Zenon DEF WorkerDeleteTx
  <2>2. q \in AddrQueue /\ Consistent(q, a) /\ w.queue \in [Addrs -> AddrQueue]
    BY <1>2, Zenon DEF Agree
  <2> HIDE DEF a, q
  <2>3. /\ r \in AddrQueue /\ Consistent(r, a)
        /\ Apart(q) => Apart(r) /\ t \notin Held(r)
        /\ r.nonce = q.nonce /\ r.balance = q.balance
        /\ Held(r) \subseteq Held(q)
        /\ \A u \in Held(q) : u \in Held(r) \/ u = t
        /\ r.readyTx = q.readyTx \ {t}
    BY <2>2, DeleteTxIs, Zenon
  <2> HIDE DEF r
  <2>4. v.queue = [w.queue EXCEPT ![a] = r] /\ Agree(v.queue, v.sorted, found \cup {a})
    <3> DEFINE prev == q.readyTx \cap {t}
    <3>1. prev \in SUBSET Txs /\ \A x, y \in prev : x = y
      BY Zenon
    <3>2. a \in found => /\ prev \subseteq w.queue[a].readyTx
                        /\ \A u \in w.queue[a].readyTx : u \in prev \/ u \in r.readyTx
      BY <2>3, Zenon DEF q
    <3>3. a \in Addrs
      BY Zenon DEF a
    <3>4. v = SetQueue(w, a, r, prev)
      BY <2>1, Zenon
    <3>5. a \notin found => prev = {}
      BY <1>2, Zenon
    <3>6. r \in AddrQueue /\ Consistent(r, a)
      BY <2>3, Zenon
    <3> HIDE DEF v, prev
    <3>7. Fits(w, found, a, r, prev)
      BY <3>1, <3>2, <3>3, <3>5, <3>6, Zenon DEF Fits
    <3>8. /\ SetQueue(w, a, r, prev).queue = [w.queue EXCEPT ![a] = r]
          /\ Agree(SetQueue(w, a, r, prev).queue, SetQueue(w, a, r, prev).sorted, found \cup {a})
      BY <3>7, SetQueueIs, Zenon
    <3> QED BY <3>4, <3>8, Zenon
  <2> HIDE DEF v
  <2>5. found \cup {a} = found
    BY <1>2, Zenon
  <2>6. v.queue[a] = r /\ \A b \in Addrs : b # a => v.queue[b] = w.queue[b]
    BY <2>2, <2>4, Zenon DEF a
  <2>7. Agree(v.queue, v.sorted, found)
    BY <2>4, <2>5, Zenon
  <2>8. found \subseteq Addrs
    BY Zenon DEF Agree
  <2>9. \A b \in Addrs : v.queue[b].nonce = w.queue[b].nonce /\ v.queue[b].balance = w.queue[b].balance
    BY <2>3, <2>6, Zenon DEF q
  <2>10. \A u : u \in HeldIn(v.queue, found) <=> u \in Txs /\ From[u] \in found /\ u \in Held(v.queue[From[u]])
    BY <2>7, HeldInIs, Zenon
  <2>11. \A u : u \in HeldIn(w.queue, found) <=> u \in Txs /\ From[u] \in found /\ u \in Held(w.queue[From[u]])
    BY HeldInIs, Zenon
  <2>12. HeldIn(v.queue, found) \subseteq HeldIn(w.queue, found)
    BY <2>3, <2>6, <2>8, <2>10, <2>11, Zenon DEF q
  <2>13. \A u \in HeldIn(w.queue, found) : u \in HeldIn(v.queue, found) \/ u = t
    BY <2>3, <2>6, <2>8, <2>10, <2>11, Zenon DEF q
  <2>14. AllApart(w.queue, found) => AllApart(v.queue, found) /\ t \notin HeldIn(v.queue, found)
    BY <1>2, <2>3, <2>6, <2>8, <2>10, Zenon DEF q, a, AllApart
  <2> QED BY <2>7, <2>9, <2>12, <2>13, <2>14, Zenon DEF v
<1> QED BY <1>1, <1>2, Zenon

\* What applyAddressUpdate makes of the worker w.
Applied(w, v, a, nonce, balance) ==
  /\ Agree(v.queue, v.sorted, found)
  /\ AllApart(w.queue, found) => AllApart(v.queue, found)
  /\ \A b \in Addrs : b # a => v.queue[b] = w.queue[b]
  /\ a \in found => v.queue[a].nonce = nonce /\ v.queue[a].balance = balance
  /\ a \notin found => v = w
  /\ HeldIn(v.queue, found) \subseteq HeldIn(w.queue, found)
  /\ \A u \in HeldIn(w.queue, found) :
       \/ u \in HeldIn(v.queue, found)
       \/ /\ From[u] = a
          /\ \/ u \in TooLow(w.queue[a], nonce)
             \/ u \in w.queue[a].readyTx /\ Nonce[u] < nonce
             \/ u \in w.queue[a].readyTx /\ Nonce[u] = nonce /\ balance < Cost[u]
             \/ \E b \in HeldIn(w.queue, found) : b # u /\ From[b] = a /\ Nonce[b] = Nonce[u]

\* It keeps the agreement.
LEMMA ApplyAddressUpdateIs ==
  ASSUME NEW w, Agree(w.queue, w.sorted, found),
         NEW a \in Addrs, NEW nonce \in Nat, NEW balance \in Nat
  PROVE  Applied(w, ApplyAddressUpdate(w, a, nonce, balance), a, nonce, balance)
<1> DEFINE q == w.queue[a]
           r == UpdateNonceBalance(q, nonce, balance)
           v == ApplyAddressUpdate(w, a, nonce, balance)
           prev == q.readyTx \ r.readyTx
<1>1. CASE a \notin found
  <2>1. v = w
    BY <1>1, Zenon DEF ApplyAddressUpdate
  <2> HIDE DEF v
  <2>2. Applied(w, v, a, nonce, balance)
    BY <1>1, <2>1, Zenon DEF Applied
  <2> QED BY <2>2, Zenon DEF v
<1>2. CASE a \in found
  <2>1. v = SetQueue(w, a, r, prev)
    BY <1>2, Zenon DEF ApplyAddressUpdate
  <2>2. q \in AddrQueue /\ Consistent(q, a) /\ w.queue \in [Addrs -> AddrQueue] /\ found \subseteq Addrs
    BY <1>2, Zenon DEF Agree
  <2> HIDE DEF q
  <2>3. /\ r \in AddrQueue /\ Consistent(r, a)
        /\ Apart(q) => Apart(r)
        /\ r.nonce = nonce /\ r.balance = balance
        /\ Held(r) \subseteq Held(q)
        /\ \A u \in Held(q) :
             \/ u \in Held(r)
             \/ u \in TooLow(q, nonce)
             \/ u \in q.readyTx /\ Nonce[u] < nonce
             \/ u \in q.readyTx /\ Nonce[u] = nonce /\ balance < Cost[u]
             \/ \E b \in q.readyTx : b # u /\ Nonce[b] = Nonce[u]
    <3>1. Updated(q, r, a, nonce, balance)
      BY <2>2, UpdateIs, Zenon
    <3> HIDE DEF r
    <3> QED BY <3>1, Zenon DEF Updated
  <2> HIDE DEF r
  <2>4. v.queue = [w.queue EXCEPT ![a] = r] /\ Agree(v.queue, v.sorted, found)
    <3>1. prev \subseteq Txs /\ \A x, y \in prev : x = y
      BY <2>2, Fields, Zenon DEF Consistent
    <3>2. /\ prev \subseteq w.queue[a].readyTx
          /\ \A u \in w.queue[a].readyTx : u \in prev \/ u \in r.readyTx
      BY <2>3, Zenon DEF q
    <3> HIDE DEF prev
    <3>3. Fits(w, found, a, r, prev)
      BY <1>2, <2>3, <3>1, <3>2, Zenon DEF Fits
    <3>4. /\ SetQueue(w, a, r, prev).queue = [w.queue EXCEPT ![a] = r]
          /\ Agree(SetQueue(w, a, r, prev).queue, SetQueue(w, a, r, prev).sorted, found \cup {a})
      BY <3>3, SetQueueIs, Zenon
    <3>5. found \cup {a} = found
      BY <1>2, Zenon
    <3> HIDE DEF v
    <3> QED BY <2>1, <3>4, <3>5, Zenon
  <2> HIDE DEF v
  <2>5. v.queue[a] = r /\ \A b \in Addrs : b # a => v.queue[b] = w.queue[b]
    BY <2>2, <2>4, Zenon
  <2>6. \A u : u \in HeldIn(v.queue, found) <=> u \in Txs /\ From[u] \in found /\ u \in Held(v.queue[From[u]])
    BY <2>4, HeldInIs, Zenon
  <2>7. \A u : u \in HeldIn(w.queue, found) <=> u \in Txs /\ From[u] \in found /\ u \in Held(w.queue[From[u]])
    BY HeldInIs, Zenon
  <2>8. HeldIn(v.queue, found) \subseteq HeldIn(w.queue, found)
    BY <2>2, <2>3, <2>5, <2>6, <2>7, Zenon DEF q
  <2>9. AllApart(w.queue, found) => AllApart(v.queue, found)
    BY <2>2, <2>3, <2>5, Zenon DEF q, AllApart
  <2>10. ASSUME NEW u \in HeldIn(w.queue, found)
         PROVE  \/ u \in HeldIn(v.queue, found)
                \/ /\ From[u] = a
                   /\ \/ u \in TooLow(q, nonce)
                      \/ u \in q.readyTx /\ Nonce[u] < nonce
                      \/ u \in q.readyTx /\ Nonce[u] = nonce /\ balance < Cost[u]
                      \/ \E b \in HeldIn(w.queue, found) : b # u /\ From[b] = a /\ Nonce[b] = Nonce[u]
    <3>1. u \in Txs /\ From[u] \in found /\ u \in Held(w.queue[From[u]])
      BY <2>7, Zenon
    <3>2. CASE From[u] # a
      BY <3>1, <3>2, <2>2, <2>5, <2>6, Zenon
    <3>3. CASE From[u] = a
      <4>1. u \in Held(q)
        BY <3>1, <3>3, Zenon DEF q
      <4>2. u \in Held(r) => u \in HeldIn(v.queue, found)
        BY <3>1, <3>3, <2>5, <2>6, Zenon
      <4>3. ASSUME NEW b \in q.readyTx
            PROVE  b \in HeldIn(w.queue, found) /\ From[b] = a
        <5>1. b \in Held(q) /\ b \in Txs /\ From[b] = a
          BY <2>2, Fields, Zenon DEF Held, Consistent
        <5> QED BY <5>1, <1>2, <2>7, Zenon DEF q
      <4> QED BY <3>3, <4>1, <4>2, <4>3, <2>3, Zenon
    <3> QED BY <3>2, <3>3, Zenon
  <2>11. Applied(w, v, a, nonce, balance)
    BY <1>2, <2>3, <2>4, <2>5, <2>8, <2>9, <2>10, Zenon DEF Applied, q
  <2> QED BY <2>11, Zenon DEF v
<1> QED BY <1>1, <1>2, Zenon

\* The last part of AddTxTracker: r is the queue of t's sender, there or new.
LEMMA EnqueueIs ==
  ASSUME Agree(queue, sorted, found), NEW t \in Txs, NEW r \in AddrQueue,
         From[t] \in Addrs, Consistent(r, From[t]), Enqueue(t, r),
         From[t] \in found => r = queue[From[t]],
         From[t] \notin found => Held(r) = {},
         found' = found \cup {From[t]}
  PROVE  /\ Agree(queue', sorted', found')
         /\ AllApart(queue, found) /\ t \notin HeldIn(queue, found) => AllApart(queue', found')
         /\ \A b \in Addrs : b # From[t] => queue'[b] = queue[b]
         /\ queue'[From[t]].nonce = r.nonce /\ queue'[From[t]].balance = r.balance
         /\ \A u \in HeldIn(queue', found') : u \in HeldIn(queue, found) \/ u = t
         /\ \A u \in HeldIn(queue, found) :
              u \in HeldIn(queue', found') \/ (From[u] = From[t] /\ Nonce[u] = Nonce[t])
         /\ \/ addPc' = "dropped" /\ addRep' = addRep /\ HeldIn(queue', found') = HeldIn(queue, found)
            \/ /\ addPc' = "added" /\ t \in HeldIn(queue', found')
               /\ addRep' \subseteq Txs
               /\ \A u \in addRep' :
                    u # t /\ u \in HeldIn(queue, found) /\ From[u] = From[t] /\ Nonce[u] = Nonce[t]
<1> DEFINE a == From[t]
<1>0. queue \in [Addrs -> AddrQueue] /\ found \subseteq Addrs /\ found' \subseteq Addrs
  BY Zenon DEF Agree
<1>1. \A u : u \in HeldIn(queue, found) <=> u \in Txs /\ From[u] \in found /\ u \in Held(queue[From[u]])
  BY HeldInIs, Zenon
<1>2. \A u \in Held(r) : u \in HeldIn(queue, found) /\ From[u] = a
  <2>1. \A u \in Held(r) : u \in Txs /\ From[u] = a
    BY Fields, Zenon DEF Held, Consistent
  <2> QED BY <2>1, <1>1, Zenon
<1>3. CASE AddTxDropped(r, t)
  <2>1. /\ queue' = [queue EXCEPT ![a] = r] /\ addPc' = "dropped"
        /\ sorted' = sorted /\ addRep' = addRep
    BY <1>3, Zenon DEF Enqueue
  <2>2. queue'[a] = r /\ \A b \in Addrs : b # a => queue'[b] = queue[b]
    BY <2>1, <1>0, Zenon
  <2>3. queue' \in [Addrs -> AddrQueue]
    BY <2>1, <1>0, Zenon
  <2>4. \A x : (\E b \in found' : x \in queue'[b].readyTx) <=> (\E b \in found : x \in queue[b].readyTx)
    <3>1. a \notin found => r.readyTx = {}
      BY Zenon DEF Held
    <3> QED BY <3>1, <2>2, <1>0, Zenon
  <2>5. UNION {queue'[b].readyTx : b \in found'} = UNION {queue[b].readyTx : b \in found}
    BY <2>4, Zenon
  <2>6. \A b \in found' : Consistent(queue'[b], b)
    BY <2>2, <1>0, Zenon DEF Agree
  <2>7. Agree(queue', sorted', found')
    BY <2>1, <2>3, <2>5, <2>6, <1>0, Zenon DEF Agree
  <2>8. \A u : u \in HeldIn(queue', found') <=> u \in Txs /\ From[u] \in found' /\ u \in Held(queue'[From[u]])
    BY <2>7, HeldInNext, Zenon
  <2>9. HeldIn(queue', found') = HeldIn(queue, found)
    <3>1. \A u : u \in HeldIn(queue', found') <=> u \in HeldIn(queue, found)
      BY <2>2, <2>8, <1>0, <1>1, Zenon
    <3> QED BY <3>1, Zenon
  <2>10. AllApart(queue, found) => AllApart(queue', found')
    <3>1. a \notin found => Apart(r)
      BY Zenon DEF Held, Apart
    <3> QED BY <3>1, <2>2, <1>0, Zenon DEF AllApart
  <2> QED BY <2>1, <2>2, <2>7, <2>9, <2>10, Zenon
<1>4. CASE ~AddTxDropped(r, t)
  <2> DEFINE p == AddTx(r, t)
             prev == IF Nonce[t] = r.nonce THEN r.readyTx ELSE {}
  <2>1. /\ Becomes(SetQueue(Current, a, p, prev))
        /\ addPc' = "added" /\ addRep' = Replaced(r, t)
    BY <1>4, Zenon DEF Enqueue
  <2>2. /\ p \in AddrQueue /\ Consistent(p, a)
        /\ Apart(r) /\ t \notin Held(r) => Apart(p)
        /\ p.nonce = r.nonce /\ p.balance = r.balance
        /\ t \in Held(p)
        /\ \A u \in Held(p) : u \in Held(r) \/ u = t
        /\ \A u \in Held(r) : u \in Held(p) \/ Nonce[u] = Nonce[t]
        /\ \A u \in r.readyTx : Nonce[t] = r.nonce \/ u \in p.readyTx
    BY <1>4, AddTxIs, Zenon
  <2> HIDE DEF p
  <2>3. Current.queue = queue /\ Current.sorted = sorted
    BY DEF Current
  <2>4. /\ prev \subseteq r.readyTx
        /\ \A u \in r.readyTx : u \in prev \/ u \in p.readyTx
    BY <2>2, Zenon
  <2> HIDE DEF prev
  <2>5. Fits(Current, found, a, p, prev)
    <3>1. prev \subseteq Txs /\ \A x, y \in prev : x = y
      BY <2>4, Fields, Zenon DEF Consistent
    <3>2. a \notin found => prev = {}
      BY <2>4, Zenon DEF Held
    <3>3. a \in found => /\ prev \subseteq Current.queue[a].readyTx
                         /\ \A u \in Current.queue[a].readyTx : u \in prev \/ u \in p.readyTx
      BY <2>3, <2>4, Zenon
    <3> QED BY <2>2, <2>3, <3>1, <3>2, <3>3, Zenon DEF Fits
  <2>6. queue' = [queue EXCEPT ![a] = p] /\ Agree(queue', sorted', found')
    <3>1. /\ SetQueue(Current, a, p, prev).queue = [Current.queue EXCEPT ![a] = p]
          /\ Agree(SetQueue(Current, a, p, prev).queue, SetQueue(Current, a, p, prev).sorted, found \cup {a})
      BY <2>5, SetQueueIs, Zenon
    <3> QED BY <2>1, <2>3, <3>1, Zenon DEF Becomes
  <2>7. queue'[a] = p /\ \A b \in Addrs : b # a => queue'[b] = queue[b]
    BY <2>6, <1>0, Zenon
  <2>8. \A u : u \in HeldIn(queue', found') <=> u \in Txs /\ From[u] \in found' /\ u \in Held(queue'[From[u]])
    BY <2>6, HeldInNext, Zenon
  <2>9. \A u \in HeldIn(queue', found') : u \in HeldIn(queue, found) \/ u = t
    BY <2>2, <2>7, <2>8, <1>0, <1>1, <1>2, Zenon
  <2>10. \A u \in HeldIn(queue, found) : u \in HeldIn(queue', found') \/ (From[u] = a /\ Nonce[u] = Nonce[t])
    BY <2>2, <2>7, <2>8, <1>0, <1>1, Zenon
  <2>11. t \in HeldIn(queue', found')
    BY <2>2, <2>7, <2>8, Zenon
  <2>12. \A u \in addRep' : u # t /\ u \in Held(r) /\ Nonce[u] = Nonce[t]
    BY <2>1, Zenon DEF Replaced, Rivals, SameNonce, Held, Consistent
  <2>13. \A u \in addRep' : /\ u \in Txs
                            /\ u # t /\ u \in HeldIn(queue, found) /\ From[u] = a /\ Nonce[u] = Nonce[t]
    BY <2>12, <1>1, <1>2, Zenon
  <2>14. AllApart(queue, found) /\ t \notin HeldIn(queue, found) => AllApart(queue', found')
    <3> HAVE AllApart(queue, found) /\ t \notin HeldIn(queue, found)
    <3>1. t \notin Held(r)
      BY <1>2, Zenon
    <3>2. Apart(r)
      <4>1. CASE a \in found
        BY <4>1, Zenon DEF AllApart
      <4>2. CASE a \notin found
        BY <4>2, Zenon DEF Held, Apart
      <4> QED BY <4>1, <4>2, Zenon
    <3>3. Apart(p)
      BY <3>1, <3>2, <2>2, Zenon
    <3>4. \A b \in found' : Apart(queue'[b])
      BY <3>3, <2>7, <1>0, Zenon DEF AllApart
    <3> QED BY <3>4, Zenon DEF AllApart
  <2> QED BY <2>1, <2>2, <2>6, <2>7, <2>9, <2>10, <2>11, <2>13, <2>14, Zenon
<1> QED BY <1>3, <1>4, Zenon

-----------------------------------------------------------------------------
(* The L2 blocks on their way to the database.                             *)

\* Oldest first.
Blocks == toStore \o toProcess

\* A block moves from one list to the other.
LEMMA MoveBlock ==
  ASSUME NEW S, NEW p \in Seq(S), NEW q \in Seq(S), p # <<>>
  PROVE  Append(q, Head(p)) \o Tail(p) = q \o p
<1>1. /\ Head(p) \in S /\ Head(p) = p[1] /\ Tail(p) \in Seq(S) /\ Len(Tail(p)) = Len(p) - 1
      /\ \A i \in 1 .. Len(p) - 1 : Tail(p)[i] = p[i + 1]
      /\ Len(p) \in Nat /\ Len(p) > 0
  OBVIOUS
<1> DEFINE a == Append(q, Head(p))
<1>2. /\ a \in Seq(S) /\ Len(a) = Len(q) + 1 /\ a[Len(q) + 1] = p[1]
      /\ \A i \in 1 .. Len(q) : a[i] = q[i]
  BY <1>1
<1> HIDE DEF a
<1> DEFINE b == Tail(p)
<1>3. b \in Seq(S) /\ Len(b) = Len(p) - 1 /\ \A i \in 1 .. Len(p) - 1 : b[i] = p[i + 1]
  BY <1>1
<1> HIDE DEF b
<1>4. /\ a \o b \in Seq(S) /\ Len(a \o b) = Len(a) + Len(b)
      /\ \A i \in 1 .. Len(a) + Len(b) : (a \o b)[i] = IF i <= Len(a) THEN a[i] ELSE b[i - Len(a)]
  BY <1>2, <1>3, Concatenation, Zenon
<1>5. /\ q \o p \in Seq(S) /\ Len(q \o p) = Len(q) + Len(p)
      /\ \A i \in 1 .. Len(q) + Len(p) : (q \o p)[i] = IF i <= Len(q) THEN q[i] ELSE p[i - Len(q)]
  BY Concatenation, Zenon
<1>6. Len(a \o b) = Len(q \o p) /\ Len(q) \in Nat
  BY <1>1, <1>2, <1>3, <1>4, <1>5
<1>7. ASSUME NEW i \in 1 .. Len(a \o b)
      PROVE  (a \o b)[i] = (q \o p)[i]
  <2>1. CASE i <= Len(q)
    BY <2>1, <1>1, <1>2, <1>3, <1>4, <1>5, <1>6
  <2>2. CASE i = Len(q) + 1
    BY <2>2, <1>1, <1>2, <1>3, <1>4, <1>5, <1>6
  <2>3. CASE i > Len(q) + 1
    <3>1. i - Len(a) \in 1 .. Len(p) - 1 /\ (a \o b)[i] = b[i - Len(a)] /\ (i - Len(a)) + 1 = i - Len(q)
      BY <2>3, <1>1, <1>2, <1>3, <1>4, <1>5, <1>6
    <3>2. (q \o p)[i] = p[i - Len(q)]
      BY <2>3, <1>1, <1>2, <1>3, <1>4, <1>5, <1>6
    <3> QED BY <3>1, <3>2, <1>3, Zenon
  <2> QED BY <2>1, <2>2, <2>3, <1>6
<1>8. a \o b = q \o p
  BY <1>4, <1>5, <1>6, <1>7, SameElements, Zenon
<1> QED BY <1>8, Zenon DEF a, b

\* A block is appended.
LEMMA AddBlock ==
  ASSUME NEW S, NEW p \in Seq(S), NEW q \in Seq(S), NEW e \in S
  PROVE  q \o Append(p, e) = Append(q \o p, e)
<1>1. Append(p, e) = p \o <<e>> /\ <<e>> \in Seq(S)
  BY AppendIs
<1>2. q \o p \in Seq(S)
  BY Concatenation, Zenon
<1>3. Append(q \o p, e) = (q \o p) \o <<e>>
  BY <1>2, AppendIs, Zenon
<1>4. (q \o p) \o <<e>> = q \o (p \o <<e>>)
  BY <1>1, ConcatThree
<1> QED BY <1>1, <1>3, <1>4, Zenon

\* The oldest block leaves.
LEMMA DropBlock ==
  ASSUME NEW S, NEW p \in Seq(S), NEW q \in Seq(S), q # <<>>
  PROVE  /\ Tail(q) \o p \in Seq(S) /\ q \o p \in Seq(S)
         /\ Len(q \o p) \in Nat \ {0} /\ Len(Tail(q) \o p) = Len(q \o p) - 1
         /\ (q \o p)[1] = Head(q)
         /\ \A i \in 1 .. Len(q \o p) - 1 : (Tail(q) \o p)[i] = (q \o p)[i + 1]
<1>1. /\ Head(q) = q[1] /\ Len(q) \in Nat /\ Len(q) > 0 /\ Len(p) \in Nat
  OBVIOUS
<1> DEFINE b == Tail(q)
<1>2. b \in Seq(S) /\ Len(b) = Len(q) - 1 /\ \A i \in 1 .. Len(q) - 1 : b[i] = q[i + 1]
  OBVIOUS
<1> HIDE DEF b
<1>4. /\ b \o p \in Seq(S) /\ Len(b \o p) = Len(b) + Len(p)
      /\ \A i \in 1 .. Len(b) + Len(p) : (b \o p)[i] = IF i <= Len(b) THEN b[i] ELSE p[i - Len(b)]
  BY <1>2, Concatenation, Zenon
<1>5. /\ q \o p \in Seq(S) /\ Len(q \o p) = Len(q) + Len(p)
      /\ \A i \in 1 .. Len(q) + Len(p) : (q \o p)[i] = IF i <= Len(q) THEN q[i] ELSE p[i - Len(q)]
  BY Concatenation, Zenon
<1>6. ASSUME NEW i \in 1 .. Len(q \o p) - 1
      PROVE  (b \o p)[i] = (q \o p)[i + 1]
  <2>1. CASE i <= Len(b)
    BY <2>1, <1>1, <1>2, <1>4, <1>5
  <2>2. CASE i > Len(b)
    <3>1. (b \o p)[i] = p[i - Len(b)] /\ (q \o p)[i + 1] = p[(i + 1) - Len(q)] /\ (i + 1) - Len(q) = i - Len(b)
      BY <2>2, <1>1, <1>2, <1>4, <1>5
    <3> QED BY <3>1, Zenon
  <2> QED BY <2>1, <2>2, <1>1, <1>2, <1>5
<1>7. (q \o p)[1] = Head(q) /\ Len(q \o p) \in Nat \ {0} /\ Len(b \o p) = Len(q \o p) - 1
  BY <1>1, <1>2, <1>4, <1>5
<1> QED BY <1>4, <1>5, <1>6, <1>7, Zenon DEF b

\* The txs of an L2 block that is not stored yet.
Under(bl, B) == Range(bl) \cup UNION {Range(B[i].txs) : i \in 1 .. Len(B)}

LEMMA PipelineIs ==
  ASSUME NEW bl \in Seq(Txs), NEW p \in Seq(L2Block), NEW q \in Seq(L2Block)
  PROVE  /\ Range(bl) \cup UNION {Range(b.txs) : b \in Range(p) \cup Range(q)} = Under(bl, q \o p)
         /\ Under(bl, q \o p) \subseteq Txs
<1>1. Range(q \o p) = Range(q) \cup Range(p)
  BY Concatenation, Zenon
<1>2. q \o p \in Seq(L2Block)
  BY Concatenation, Zenon
<1>3. Range(q \o p) = {(q \o p)[i] : i \in 1 .. Len(q \o p)}
  BY <1>2, Elements, Zenon
<1>4. Range(bl) \subseteq Txs
  BY Elements, Zenon
<1>5. \A i \in 1 .. Len(q \o p) : Range((q \o p)[i].txs) \subseteq Txs
  <2> TAKE i \in 1 .. Len(q \o p)
  <2>1. (q \o p)[i] \in L2Block
    BY <1>2, Elements, Zenon
  <2>2. (q \o p)[i].txs \in Seq(Txs)
    BY <2>1, Zenon DEF L2Block
  <2> QED BY <2>2, Elements, Zenon
<1>6. UNION {Range(b.txs) : b \in Range(p) \cup Range(q)} = UNION {Range((q \o p)[i].txs) : i \in 1 .. Len(q \o p)}
  <2>1. \A b : b \in Range(p) \cup Range(q) <=> \E i \in 1 .. Len(q \o p) : b = (q \o p)[i]
    BY <1>1, <1>3, Zenon
  <2>2. ASSUME NEW b \in Range(p) \cup Range(q), NEW t \in Range(b.txs)
        PROVE  \E i \in 1 .. Len(q \o p) : t \in Range((q \o p)[i].txs)
    <3>1. PICK i \in 1 .. Len(q \o p) : b = (q \o p)[i]
      BY <2>1, Zenon
    <3> QED BY <3>1, Zenon
  <2>3. \A i \in 1 .. Len(q \o p) : (q \o p)[i] \in Range(p) \cup Range(q)
    BY <2>1, Zenon
  <2> DEFINE A == UNION {Range(b.txs) : b \in Range(p) \cup Range(q)}
             B == UNION {Range((q \o p)[i].txs) : i \in 1 .. Len(q \o p)}
  <2>4. ASSUME NEW t \in A
        PROVE  t \in B
    <3>1. PICK b \in Range(p) \cup Range(q) : t \in Range(b.txs)
      BY <2>4, Zenon
    <3>2. PICK i \in 1 .. Len(q \o p) : t \in Range((q \o p)[i].txs)
      BY <2>2, <3>1, Zenon
    <3> QED BY <3>2, Zenon
  <2>5. \A t \in B : t \in A
    BY <2>3, Zenon
  <2> HIDE DEF A, B
  <2>6. A = B
    BY <2>4, <2>5, Zenon
  <2> QED BY <2>6, Zenon DEF A, B
<1> QED BY <1>4, <1>5, <1>6, Zenon DEF Under

-----------------------------------------------------------------------------
(* The queues stay consistent.                                             *)

\* The types of the variables but for the worker's, in parts.
PoolType == status \in [Txs -> Status] /\ wip \subseteq Txs
StateType == im \in [Addrs -> Account] /\ stored \in [Addrs -> Account] /\ txTable \subseteq Txs
AddType ==
  /\ addPc \in {"idle", "read", "install", "added", "mark", "dropped"}
  /\ addTx \subseteq Txs /\ addRep \subseteq Txs /\ addAcc \in Account
FinType == finPc \in {"idle", "process", "update"} /\ finTx \subseteq Txs
BlockType ==
  /\ block \in Seq(Txs) /\ toProcess \in Seq(L2Block) /\ toStore \in Seq(L2Block)
  /\ storePc \in {"idle", "commit"}
BoundType ==
  /\ expired \subseteq Txs
  /\ expiries \in 0 .. MaxExpiries /\ crashes \in 0 .. MaxCrashes
  /\ deployment \in Deployments
Types == PoolType /\ StateType /\ AddType /\ FinType /\ BlockType /\ BoundType

WorkerInv ==
  /\ Agree(queue, sorted, found)
  /\ ~ExecErrors => AllApart(queue, found)

QueueInv == Types /\ WorkerInv /\ LocalInv /\ KnownInv /\ LoadedOnce

\* It contains QueuesConsistent.
LEMMA QueueInvIs == ASSUME QueueInv PROVE QueuesConsistent
<1>1. Agree(queue, sorted, found) /\ (~ExecErrors => AllApart(queue, found))
  BY Zenon DEF QueueInv, WorkerInv
<1>2. found \subseteq Addrs /\ queue \in [Addrs -> AddrQueue] /\ ListIs(sorted, UNION {queue[a].readyTx : a \in found})
  BY <1>1, Zenon DEF Agree
<1>3. TypeOK
  BY <1>2, Zenon DEF QueueInv, Types, PoolType, StateType, AddType, FinType, BlockType, BoundType, TypeOK, ListIs
<1>4. ListIsReadyTxs
  BY <1>2, Zenon DEF ListIs, ListIsReadyTxs
<1>5. \A a \in found : QueueConsistent(a)
  BY <1>1, Zenon DEF Agree, AllApart, Apart, Consistent, QueueConsistent
<1> QED BY <1>3, <1>4, <1>5, Zenon DEF QueuesConsistent

\* The constants of a transaction and of a deployment.
LEMMA Constants ==
  /\ \A t \in Txs : From[t] \in Addrs /\ To[t] \in Addrs /\ Value[t] \in Nat /\ Value[t] <= Cost[t]
  /\ \A d \in Deployments : d.txs \subseteq Txs /\ d.expiries \in Nat /\ d.crashes \in Nat
BY ConstantsAssumption

\* The worker's txs, as a set of queues.
LEMMA InWorkerIs == InWorker = HeldIn(queue, found) /\ InWorker' = HeldIn(queue', found')
BY Zenon DEF InWorker, HeldIn

\* UpdateTxStatus.
LEMMA UpdateTxStatusIs ==
  ASSUME PoolType, NEW T, NEW s \in Status, UpdateTxStatus(T, s)
  PROVE  /\ PoolType'
         /\ \A t \in Txs \cap T : status'[t] = s /\ t \notin wip'
         /\ \A t \in Txs \ T : status'[t] = status[t] /\ (t \in wip' <=> t \in wip)
BY Zenon DEF PoolType, UpdateTxStatus

\* Nothing that was never submitted is under way.
LEMMA KnownKept ==
  ASSUME KnownInv, UnderWay \subseteq Txs,
         \A t \in UnderWay' : t \in UnderWay,
         \A t \in Txs : status'[t] = "none" => status[t] = "none"
  PROVE  KnownInv'
BY Zenon DEF KnownInv

\* What is under way is a set of transactions.
LEMMA UnderWayIs == ASSUME Types, Agree(queue, sorted, found) PROVE UnderWay \subseteq Txs
<1>1. InWorker \subseteq Txs
  BY InWorkerIs, HeldInIs, Zenon
<1>2. InPipeline \subseteq Txs
  BY PipelineIs, Zenon DEF Types, BlockType, InPipeline
<1> QED BY <1>1, <1>2, Zenon DEF UnderWay, Types, AddType, FinType, BoundType

\* The same one step later.
LEMMA UnderWayNext ==
  ASSUME finTx' = finTx \/ finTx' = {}, addTx' = addTx \/ addTx' = {}, expired' = expired \/ expired' = {},
         InWorker' \subseteq InWorker, InPipeline' \subseteq InPipeline
  PROVE  \A t \in UnderWay' : t \in UnderWay
BY Zenon DEF UnderWay

\* pool.AddTx.
LEMMA SubmitTxKeeps ==
  ASSUME QueueInv, NEW t \in Txs, SubmitTx(t), deployment' = deployment
  PROVE  QueueInv'
<1>1. /\ status[t] = "none" /\ status' = [status EXCEPT ![t] = "pending"]
      /\ wip' = wip /\ UNCHANGED <<workerVars, im, dbVars, addVars, finVars, blockVars, boundVars>>
  BY Zenon DEF SubmitTx
<1>2. UNCHANGED <<found, queue, sorted, im, stored, txTable, addPc, addTx, addAcc, addRep, finPc, finTx,
                  block, toProcess, toStore, storePc, expired, expiries, crashes>>
  BY <1>1, Zenon DEF workerVars, dbVars, addVars, finVars, blockVars, boundVars
<1>3. Types /\ WorkerInv /\ LocalInv /\ KnownInv /\ LoadedOnce
  BY Zenon DEF QueueInv
<1>4. PoolType'
  BY <1>1, <1>3, Zenon DEF Types, PoolType, Status
<1>5. StateType' /\ AddType' /\ FinType' /\ BlockType' /\ BoundType'
  BY <1>2, <1>3, Zenon DEF Types, StateType, AddType, FinType, BlockType, BoundType, MaxExpiries, MaxCrashes
<1>6. WorkerInv' /\ LocalInv'
  BY <1>2, <1>3, Zenon DEF WorkerInv, LocalInv, ExecErrors
<1>7. UnderWay' = UnderWay /\ InWorker' = InWorker
  BY <1>2, Zenon DEF UnderWay, InWorker, InPipeline
<1>8. UnderWay \subseteq Txs
  BY <1>3, UnderWayIs, Zenon DEF WorkerInv
<1>9. \A u \in UnderWay : u # t /\ status'[u] = status[u]
  BY <1>1, <1>3, <1>8, Zenon DEF KnownInv, Types, PoolType
<1>10. KnownInv'
  BY <1>3, <1>7, <1>9, Zenon DEF KnownInv
<1>11. LoadedOnce'
  BY <1>1, <1>2, <1>3, <1>7, <1>9, Zenon DEF LoadedOnce, Entered, ExecErrors, UnderWay
<1> QED BY <1>4, <1>5, <1>6, <1>10, <1>11, Zenon DEF QueueInv, Types

\* AddTxTracker.
LEMMA AddTxTrackerKeeps ==
  ASSUME QueueInv, NEW t \in Txs, AddTxTracker(t), deployment' = deployment
  PROVE  QueueInv'
<1>1. /\ addPc = "idle" /\ status[t] = "pending" /\ t \notin wip /\ addTx' = {t}
      /\ UNCHANGED <<poolVars, im, dbVars, addAcc, finVars, blockVars, boundVars>>
  BY Zenon DEF AddTxTracker, Loadable
<1>2. UNCHANGED <<status, wip, im, stored, txTable, addAcc, finPc, finTx,
                  block, toProcess, toStore, storePc, expired, expiries, crashes>>
  BY <1>1, Zenon DEF poolVars, dbVars, finVars, blockVars, boundVars
<1>3. Types /\ WorkerInv /\ LocalInv /\ KnownInv /\ LoadedOnce
  BY Zenon DEF QueueInv
<1>4. Agree(queue, sorted, found) /\ InWorker = HeldIn(queue, found) /\ InWorker' = HeldIn(queue', found')
  BY <1>3, InWorkerIs, Zenon DEF WorkerInv
<1>5. ~ExecErrors => t \notin InWorker
  BY <1>1, <1>3, Zenon DEF LoadedOnce, Entered
<1>6. /\ WorkerInv'
      /\ \A u \in InWorker' : u \in InWorker \/ (u = t /\ addPc' = "added")
      /\ addPc' \in {"dropped", "added", "read"} /\ addRep' \subseteq Txs
      /\ addPc' = "read" => From[t] \notin found'
  <2>1. CASE addPc' \in {"dropped", "read"} /\ UNCHANGED <<found, queue, sorted, addRep>> /\ (addPc' = "read" => From[t] \notin found)
    BY <2>1, <1>3, <1>4, Zenon DEF WorkerInv, ExecErrors, Types, AddType
  <2>2. CASE From[t] \in found /\ Enqueue(t, queue[From[t]]) /\ found' = found
    <3> DEFINE r == queue[From[t]]
    <3>1. From[t] \in Addrs /\ r \in AddrQueue /\ Consistent(r, From[t])
      BY <2>2, <1>4, Constants, Zenon DEF Agree
    <3>2. found' = found \cup {From[t]}
      BY <2>2, Zenon
    <3> HIDE DEF r
    <3>3. From[t] \in found => r = queue[From[t]]
      BY Zenon DEF r
    <3>4. From[t] \notin found => Held(r) = {}
      BY <2>2, Zenon
    <3>5. Enqueue(t, r)
      BY <2>2, Zenon DEF r
    <3>6. /\ Agree(queue', sorted', found')
          /\ AllApart(queue, found) /\ t \notin HeldIn(queue, found) => AllApart(queue', found')
          /\ \A u \in HeldIn(queue', found') : u \in HeldIn(queue, found) \/ u = t
          /\ \/ addPc' = "dropped" /\ addRep' = addRep /\ HeldIn(queue', found') = HeldIn(queue, found)
             \/ addPc' = "added" /\ addRep' \subseteq Txs
      BY <1>4, <3>1, <3>2, <3>3, <3>4, <3>5, EnqueueIs, Zenon
    <3>7. WorkerInv'
      BY <1>3, <1>4, <1>5, <3>6, Zenon DEF WorkerInv, ExecErrors
    <3> QED BY <1>3, <1>4, <3>6, <3>7, Zenon DEF Types, AddType
  <2> QED BY <2>1, <2>2, Zenon DEF AddTxTracker, workerVars
<1>7. PoolType' /\ StateType' /\ FinType' /\ BlockType' /\ BoundType'
  BY <1>2, <1>3, Zenon DEF Types, PoolType, StateType, FinType, BlockType, BoundType, MaxExpiries, MaxCrashes
<1>8. AddType'
  BY <1>1, <1>2, <1>3, <1>6, Zenon DEF Types, AddType
<1>9. LocalInv'
  BY <1>1, <1>2, <1>3, <1>6, Zenon DEF LocalInv
<1>10. InPipeline' = InPipeline
  BY <1>2, Zenon DEF InPipeline
<1>11. KnownInv'
  BY <1>1, <1>2, <1>3, <1>6, <1>10, Zenon DEF KnownInv, UnderWay
<1>12. LoadedOnce'
  BY <1>1, <1>2, <1>3, <1>6, Zenon DEF LoadedOnce, Entered, ExecErrors
<1> QED BY <1>6, <1>7, <1>8, <1>9, <1>11, <1>12, Zenon DEF QueueInv, Types

\* ReadAccount: the tx is still the only one and its sender has no queue.
LEMMA ReadAccountKeeps ==
  ASSUME QueueInv, ReadAccount, deployment' = deployment
  PROVE  QueueInv'
<1>1. /\ addPc = "read"
      /\ UNCHANGED <<status, wip, found, queue, sorted, im, stored, txTable, addTx, addRep, finPc, finTx,
                     block, toProcess, toStore, storePc, expired, expiries, crashes>>
  BY Zenon DEF ReadAccount, poolVars, workerVars, dbVars, finVars, blockVars, boundVars
<1>2. Types /\ WorkerInv /\ LocalInv /\ KnownInv /\ LoadedOnce
  BY Zenon DEF QueueInv
<1>3. (addPc' = "install" /\ addAcc' \in Account) \/ (addPc' = "dropped" /\ addAcc' = addAcc)
  <2>1. \A t \in addTx : stored[From[t]] \in Account
    BY <1>2, Constants, Zenon DEF Types, AddType, StateType
  <2> QED BY <2>1, Zenon DEF ReadAccount
<1>4. PoolType' /\ StateType' /\ FinType' /\ BlockType' /\ BoundType'
  BY <1>1, <1>2, Zenon DEF Types, PoolType, StateType, FinType, BlockType, BoundType, MaxExpiries, MaxCrashes
<1>5. AddType'
  BY <1>1, <1>2, <1>3, Zenon DEF Types, AddType
<1>6. WorkerInv'
  BY <1>1, <1>2, Zenon DEF WorkerInv, ExecErrors
<1>7. LocalInv'
  BY <1>1, <1>2, Zenon DEF LocalInv
<1>8. UnderWay' = UnderWay /\ InWorker' = InWorker
  BY <1>1, Zenon DEF UnderWay, InWorker, InPipeline
<1>9. KnownInv'
  BY <1>1, <1>2, <1>8, Zenon DEF KnownInv
<1>10. LoadedOnce'
  BY <1>1, <1>2, <1>8, Zenon DEF LoadedOnce, Entered, ExecErrors
<1> QED BY <1>4, <1>5, <1>6, <1>7, <1>9, <1>10, Zenon DEF QueueInv, Types

\* A new queue is empty and consistent.
LEMMA NewQueueIs ==
  ASSUME NEW acc \in Account
  PROVE  /\ NewAddrQueue(acc) \in AddrQueue /\ Held(NewAddrQueue(acc)) = {}
         /\ NewAddrQueue(acc).nonce = acc.nonce /\ NewAddrQueue(acc).balance = acc.balance
         /\ \A a : Consistent(NewAddrQueue(acc), a)
<1> DEFINE q == NewAddrQueue(acc)
<1>1. acc.nonce \in Nat /\ acc.balance \in Nat
  BY Zenon DEF Account
<1>2. /\ q \in AddrQueue /\ q.readyTx = {} /\ q.notReadyTxs = {}
      /\ q.nonce = acc.nonce /\ q.balance = acc.balance
  BY <1>1 DEF NewAddrQueue, AddrQueue
<1> HIDE DEF q
<1> QED BY <1>2, Zenon DEF Consistent, Held, q

\* InstallQueue.
LEMMA InstallQueueKeeps ==
  ASSUME QueueInv, InstallQueue, deployment' = deployment
  PROVE  QueueInv'
<1>1. PICK t \in addTx : found' = found \cup {From[t]} /\ Enqueue(t, NewAddrQueue(addAcc))
  BY Zenon DEF InstallQueue
<1>2. /\ addPc = "install"
      /\ UNCHANGED <<status, wip, im, stored, txTable, addTx, addAcc, finPc, finTx,
                     block, toProcess, toStore, storePc, expired, expiries, crashes>>
  BY Zenon DEF InstallQueue, poolVars, dbVars, finVars, blockVars, boundVars
<1>3. Types /\ WorkerInv /\ LocalInv /\ KnownInv /\ LoadedOnce
  BY Zenon DEF QueueInv
<1>4. Agree(queue, sorted, found) /\ InWorker = HeldIn(queue, found) /\ InWorker' = HeldIn(queue', found')
  BY <1>3, InWorkerIs, Zenon DEF WorkerInv
<1>5. t \in Txs /\ From[t] \in Addrs /\ addAcc \in Account
  BY <1>3, Constants, Zenon DEF Types, AddType
<1>6. From[t] \notin found
  BY <1>2, <1>3, Zenon DEF LocalInv
<1>7. t \notin HeldIn(queue, found)
  BY <1>4, <1>6, HeldInIs, Zenon
<1>8. /\ Agree(queue', sorted', found')
      /\ AllApart(queue, found) => AllApart(queue', found')
      /\ \A u \in InWorker' : u \in InWorker \/ u = t
      /\ \/ addPc' = "dropped" /\ addRep' = addRep /\ InWorker' = InWorker
         \/ addPc' = "added" /\ addRep' \subseteq Txs
  <2> DEFINE r == NewAddrQueue(addAcc)
  <2>1. r \in AddrQueue /\ Held(r) = {} /\ Consistent(r, From[t])
    BY <1>5, NewQueueIs, Zenon
  <2>2. Enqueue(t, r)
    BY <1>1, Zenon
  <2> HIDE DEF r
  <2>3. From[t] \in found => r = queue[From[t]]
    BY <1>6, Zenon
  <2>4. /\ Agree(queue', sorted', found')
        /\ AllApart(queue, found) /\ t \notin HeldIn(queue, found) => AllApart(queue', found')
        /\ \A u \in HeldIn(queue', found') : u \in HeldIn(queue, found) \/ u = t
        /\ \/ addPc' = "dropped" /\ addRep' = addRep /\ HeldIn(queue', found') = HeldIn(queue, found)
           \/ addPc' = "added" /\ addRep' \subseteq Txs
    BY <1>1, <1>4, <1>5, <2>1, <2>2, <2>3, EnqueueIs, Zenon
  <2> QED BY <1>4, <1>7, <2>4, Zenon
<1>9. PoolType' /\ StateType' /\ FinType' /\ BlockType' /\ BoundType'
  BY <1>2, <1>3, Zenon DEF Types, PoolType, StateType, FinType, BlockType, BoundType, MaxExpiries, MaxCrashes
<1>10. AddType'
  BY <1>2, <1>3, <1>8, Zenon DEF Types, AddType
<1>11. WorkerInv'
  BY <1>3, <1>8, Zenon DEF WorkerInv, ExecErrors
<1>12. LocalInv'
  BY <1>2, <1>3, <1>8, Zenon DEF LocalInv
<1>13. InPipeline' = InPipeline
  BY <1>2, Zenon DEF InPipeline
<1>14. KnownInv'
  BY <1>1, <1>2, <1>3, <1>8, <1>13, Zenon DEF KnownInv, UnderWay
<1>15. LoadedOnce'
  BY <1>1, <1>2, <1>3, <1>8, Zenon DEF LoadedOnce, Entered, ExecErrors
<1> QED BY <1>9, <1>10, <1>11, <1>12, <1>14, <1>15, Zenon DEF QueueInv, Types

\* FailDropped and FailReplaced.
LEMMA FailDroppedKeeps ==
  ASSUME QueueInv, FailDropped, deployment' = deployment
  PROVE  QueueInv'
<1>1. /\ addPc = "dropped" /\ UpdateTxStatus(addTx, "failed") /\ addPc' = "idle" /\ addTx' = {}
      /\ UNCHANGED <<found, queue, sorted, im, stored, txTable, addAcc, addRep, finPc, finTx,
                     block, toProcess, toStore, storePc, expired, expiries, crashes>>
  BY Zenon DEF FailDropped, workerVars, dbVars, finVars, blockVars, boundVars
<1>2. Types /\ WorkerInv /\ LocalInv /\ KnownInv /\ LoadedOnce
  BY Zenon DEF QueueInv
<1>3. /\ PoolType'
      /\ \A t \in Txs \cap addTx : status'[t] = "failed" /\ t \notin wip'
      /\ \A t \in Txs \ addTx : status'[t] = status[t] /\ (t \in wip' <=> t \in wip)
  BY <1>1, <1>2, UpdateTxStatusIs, Zenon DEF Types, Status
<1>4. StateType' /\ AddType' /\ FinType' /\ BlockType' /\ BoundType'
  BY <1>1, <1>2, Zenon DEF Types, StateType, AddType, FinType, BlockType, BoundType, MaxExpiries, MaxCrashes
<1>5. WorkerInv' /\ LocalInv'
  BY <1>1, <1>2, Zenon DEF WorkerInv, LocalInv, ExecErrors
<1>6. UnderWay \subseteq Txs
  BY <1>2, UnderWayIs, Zenon DEF WorkerInv
<1>7. InWorker' = InWorker /\ InPipeline' = InPipeline
  BY <1>1, Zenon DEF InWorker, InPipeline
<1>8. \A t \in UnderWay' : t \in UnderWay
  BY <1>1, <1>7, Zenon DEF UnderWay
<1>9. \A t \in Txs : status'[t] = "none" => status[t] = "none"
  BY <1>3, Zenon
<1>10. KnownInv'
  BY <1>2, <1>6, <1>8, <1>9, KnownKept, Zenon
<1>11. InWorker \subseteq Txs
  BY <1>6, Zenon DEF UnderWay
<1>12. LoadedOnce'
  BY <1>1, <1>2, <1>3, <1>7, <1>11, Zenon DEF LoadedOnce, Entered, ExecErrors
<1> QED BY <1>3, <1>4, <1>5, <1>10, <1>12, Zenon DEF QueueInv, Types

LEMMA FailReplacedKeeps ==
  ASSUME QueueInv, FailReplaced, deployment' = deployment
  PROVE  QueueInv'
<1>1. /\ addPc = "added" /\ UpdateTxStatus(addRep, "failed") /\ addPc' = "mark" /\ addRep' = {}
      /\ UNCHANGED <<found, queue, sorted, im, stored, txTable, addTx, addAcc, finPc, finTx,
                     block, toProcess, toStore, storePc, expired, expiries, crashes>>
  BY Zenon DEF FailReplaced, workerVars, dbVars, finVars, blockVars, boundVars
<1>2. Types /\ WorkerInv /\ LocalInv /\ KnownInv /\ LoadedOnce
  BY Zenon DEF QueueInv
<1>3. /\ PoolType'
      /\ \A t \in Txs \cap addRep : status'[t] = "failed" /\ t \notin wip'
      /\ \A t \in Txs \ addRep : status'[t] = status[t] /\ (t \in wip' <=> t \in wip)
  BY <1>1, <1>2, UpdateTxStatusIs, Zenon DEF Types, Status
<1>4. StateType' /\ AddType' /\ FinType' /\ BlockType' /\ BoundType'
  BY <1>1, <1>2, Zenon DEF Types, StateType, AddType, FinType, BlockType, BoundType, MaxExpiries, MaxCrashes
<1>5. WorkerInv' /\ LocalInv'
  BY <1>1, <1>2, Zenon DEF WorkerInv, LocalInv, ExecErrors
<1>6. UnderWay \subseteq Txs
  BY <1>2, UnderWayIs, Zenon DEF WorkerInv
<1>7. InWorker' = InWorker /\ InPipeline' = InPipeline
  BY <1>1, Zenon DEF InWorker, InPipeline
<1>8. \A t \in UnderWay' : t \in UnderWay
  BY <1>1, <1>7, Zenon DEF UnderWay
<1>9. \A t \in Txs : status'[t] = "none" => status[t] = "none"
  BY <1>3, Zenon
<1>10. KnownInv'
  BY <1>2, <1>6, <1>8, <1>9, KnownKept, Zenon
<1>11. InWorker \subseteq Txs
  BY <1>6, Zenon DEF UnderWay
<1>12. LoadedOnce'
  BY <1>1, <1>2, <1>3, <1>7, <1>11, Zenon DEF LoadedOnce, Entered, ExecErrors
<1> QED BY <1>3, <1>4, <1>5, <1>10, <1>12, Zenon DEF QueueInv, Types

\* MarkWIP.
LEMMA MarkWIPKeeps ==
  ASSUME QueueInv, MarkWIP, deployment' = deployment
  PROVE  QueueInv'
<1>1. /\ addPc = "mark" /\ addPc' = "idle" /\ addTx' = {}
      /\ UNCHANGED <<status, found, queue, sorted, im, stored, txTable, addRep, addAcc, finPc, finTx,
                     block, toProcess, toStore, storePc, expired, expiries, crashes>>
      /\ wip' = wip \cup addTx \/ (ExecErrors /\ wip' = wip)
  BY Zenon DEF MarkWIP, workerVars, dbVars, finVars, blockVars, boundVars
<1>2. Types /\ WorkerInv /\ LocalInv /\ KnownInv /\ LoadedOnce
  BY Zenon DEF QueueInv
<1>3. Types'
  BY <1>1, <1>2, Zenon DEF Types, PoolType, StateType, AddType, FinType, BlockType, BoundType, MaxExpiries, MaxCrashes
<1>4. WorkerInv' /\ LocalInv'
  BY <1>1, <1>2, Zenon DEF WorkerInv, LocalInv, ExecErrors
<1>5. InWorker' = InWorker /\ InPipeline' = InPipeline
  BY <1>1, Zenon DEF InWorker, InPipeline
<1>6. KnownInv'
  BY <1>1, <1>2, <1>5, Zenon DEF KnownInv, UnderWay
<1>7. LoadedOnce'
  BY <1>1, <1>2, <1>5, Zenon DEF LoadedOnce, Entered, ExecErrors
<1> QED BY <1>2, <1>3, <1>4, <1>6, <1>7, Zenon DEF QueueInv

\* GetBestFittingTx: the list holds txs of the queues only.
LEMMA GetBestFittingTxKeeps ==
  ASSUME QueueInv, GetBestFittingTx, deployment' = deployment
  PROVE  QueueInv' /\ \A t \in finTx' : t \in InWorker
<1>1. /\ finPc' = "process"
      /\ UNCHANGED <<status, wip, found, queue, sorted, im, stored, txTable, addPc, addTx, addRep, addAcc,
                     block, toProcess, toStore, storePc, expired, expiries, crashes>>
  BY Zenon DEF GetBestFittingTx, poolVars, workerVars, dbVars, addVars, blockVars, boundVars
<1>2. Types /\ WorkerInv /\ LocalInv /\ KnownInv /\ LoadedOnce
  BY Zenon DEF QueueInv
<1>3. PICK i \in 1 .. Len(sorted) : finTx' = {sorted[i]}
  BY Zenon DEF GetBestFittingTx
<1>4. sorted \in Seq(Txs) /\ Range(sorted) = UNION {queue[a].readyTx : a \in found}
  BY <1>2, Zenon DEF WorkerInv, Agree, ListIs
<1>5. sorted[i] \in Range(sorted)
  <2>1. Range(sorted) = {sorted[j] : j \in 1 .. Len(sorted)}
    BY <1>4, Elements, Zenon
  <2> QED BY <2>1, Zenon
<1>6. sorted[i] \in InWorker
  <2>1. PICK a \in found : sorted[i] \in queue[a].readyTx
    BY <1>4, <1>5, Zenon
  <2>2. sorted[i] \in queue[a].readyTx \cup queue[a].notReadyTxs
    BY <2>1, Zenon
  <2>3. \A x : (\E c \in found : x \in queue[c].readyTx \cup queue[c].notReadyTxs) => x \in InWorker
    BY Zenon DEF InWorker
  <2> QED BY <2>2, <2>3, Zenon
<1>7. UnderWay \subseteq Txs
  BY <1>2, UnderWayIs, Zenon DEF WorkerInv
<1>8. sorted[i] \in Txs
  BY <1>6, <1>7, Zenon DEF UnderWay
<1>9. Types'
  BY <1>1, <1>2, <1>3, <1>8, Zenon DEF Types, PoolType, StateType, AddType, FinType, BlockType, BoundType, MaxExpiries, MaxCrashes
<1>10. WorkerInv' /\ LocalInv'
  BY <1>1, <1>2, <1>3, Zenon DEF WorkerInv, LocalInv, ExecErrors
<1>11. InWorker' = InWorker /\ InPipeline' = InPipeline
  BY <1>1, Zenon DEF InWorker, InPipeline
<1>12. KnownInv'
  BY <1>1, <1>2, <1>3, <1>6, <1>11, Zenon DEF KnownInv, UnderWay
<1>13. LoadedOnce'
  BY <1>1, <1>2, <1>11, Zenon DEF LoadedOnce, Entered, ExecErrors
<1> QED BY <1>3, <1>6, <1>9, <1>10, <1>12, <1>13, Zenon DEF QueueInv

\* Worker.DeleteTx of the tx t that the finalizer or the expiry loop has.
LEMMA DeleteStep ==
  ASSUME Agree(queue, sorted, found), NEW t \in Txs, Becomes(WorkerDeleteTx(Current, t))
  PROVE  /\ Agree(queue', sorted', found)
         /\ AllApart(queue, found) => AllApart(queue', found) /\ t \notin HeldIn(queue', found)
         /\ \A b \in Addrs : queue'[b].nonce = queue[b].nonce /\ queue'[b].balance = queue[b].balance
         /\ HeldIn(queue', found) \subseteq HeldIn(queue, found)
         /\ \A u \in HeldIn(queue, found) : u \in HeldIn(queue', found) \/ u = t
<1> DEFINE v == WorkerDeleteTx(Current, t)
<1>1. Current.queue = queue /\ Current.sorted = sorted
  BY DEF Current
<1>2. queue' = v.queue /\ sorted' = v.sorted
  BY Zenon DEF Becomes
<1>3. From[t] \in Addrs /\ Agree(Current.queue, Current.sorted, found)
  BY <1>1, Constants, Zenon
<1>4. /\ Agree(v.queue, v.sorted, found)
      /\ AllApart(Current.queue, found) => AllApart(v.queue, found) /\ t \notin HeldIn(v.queue, found)
      /\ \A b \in Addrs : /\ v.queue[b].nonce = Current.queue[b].nonce
                          /\ v.queue[b].balance = Current.queue[b].balance
      /\ HeldIn(v.queue, found) \subseteq HeldIn(Current.queue, found)
      /\ \A u \in HeldIn(Current.queue, found) : u \in HeldIn(v.queue, found) \/ u = t
  BY <1>3, WorkerDeleteTxIs, Zenon
<1> HIDE DEF v
<1> QED BY <1>1, <1>2, <1>4, Zenon

\* What an update of the sender's nonce and balance, and of other balances, makes
\* of the worker.
Refreshed(a) ==
  /\ Agree(queue', sorted', found)
  /\ AllApart(queue, found) => AllApart(queue', found)
  /\ \A b \in Addrs : b # a => queue'[b].nonce = queue[b].nonce
  /\ \A b \in found : queue'[b].balance \in {queue[b].balance, im[b].balance}
  /\ a \in found => queue'[a].nonce = im[a].nonce /\ queue'[a].balance = im[a].balance
  /\ HeldIn(queue', found) \subseteq HeldIn(queue, found)
  /\ \A u \in HeldIn(queue, found) :
       \/ u \in HeldIn(queue', found)
       \/ u \in TxsToDelete(a, im[a].nonce)
       \/ Nonce[u] < im[From[u]].nonce
       \/ /\ Nonce[u] = queue[From[u]].nonce /\ Cost[u] <= queue[From[u]].balance
          /\ im[From[u]].balance < Cost[u]
       \/ \E v \in HeldIn(queue, found) : v # u /\ From[v] = From[u] /\ Nonce[v] = Nonce[u]

\* What the first update does.
LEMMA FirstUpdate ==
  ASSUME Agree(queue, sorted, found), im \in [Addrs -> Account], NEW a \in Addrs
  PROVE  LET w == ApplyAddressUpdate(Current, a, im[a].nonce, im[a].balance)
         IN /\ Agree(w.queue, w.sorted, found)
            /\ AllApart(queue, found) => AllApart(w.queue, found)
            /\ \A b \in Addrs : b # a => w.queue[b] = queue[b]
            /\ a \in found => w.queue[a].nonce = im[a].nonce /\ w.queue[a].balance = im[a].balance
            /\ a \notin found => w.queue[a] = queue[a]
            /\ HeldIn(w.queue, found) \subseteq HeldIn(queue, found)
            /\ \A u \in HeldIn(queue, found) :
                 \/ u \in HeldIn(w.queue, found)
                 \/ /\ From[u] = a
                    /\ \/ u \in TxsToDelete(a, im[a].nonce)
                       \/ Nonce[u] < im[a].nonce
                       \/ /\ Nonce[u] = queue[a].nonce /\ Cost[u] <= queue[a].balance
                          /\ im[a].balance < Cost[u]
                       \/ \E v \in HeldIn(queue, found) : v # u /\ From[v] = a /\ Nonce[v] = Nonce[u]
<1> DEFINE w == ApplyAddressUpdate(Current, a, im[a].nonce, im[a].balance)
<1>1. Current.queue = queue /\ Current.sorted = sorted
  BY DEF Current
<1>2. im[a].nonce \in Nat /\ im[a].balance \in Nat
  BY Zenon DEF Account
<1>3. Agree(Current.queue, Current.sorted, found)
  BY <1>1, Zenon
<1>4. /\ Agree(w.queue, w.sorted, found)
      /\ AllApart(Current.queue, found) => AllApart(w.queue, found)
      /\ \A b \in Addrs : b # a => w.queue[b] = Current.queue[b]
      /\ a \in found => w.queue[a].nonce = im[a].nonce /\ w.queue[a].balance = im[a].balance
      /\ a \notin found => w = Current
      /\ HeldIn(w.queue, found) \subseteq HeldIn(Current.queue, found)
      /\ \A u \in HeldIn(Current.queue, found) :
           \/ u \in HeldIn(w.queue, found)
           \/ /\ From[u] = a
              /\ \/ u \in TooLow(Current.queue[a], im[a].nonce)
                 \/ u \in Current.queue[a].readyTx /\ Nonce[u] < im[a].nonce
                 \/ u \in Current.queue[a].readyTx /\ Nonce[u] = im[a].nonce /\ im[a].balance < Cost[u]
                 \/ \E b \in HeldIn(Current.queue, found) : b # u /\ From[b] = a /\ Nonce[b] = Nonce[u]
  <2>1. Applied(Current, w, a, im[a].nonce, im[a].balance)
    BY <1>2, <1>3, ApplyAddressUpdateIs, Zenon
  <2> HIDE DEF w
  <2> QED BY <2>1, Zenon DEF Applied
<1> HIDE DEF w
<1>5. ASSUME NEW u \in HeldIn(queue, found), u \notin HeldIn(w.queue, found)
      PROVE  /\ From[u] = a
             /\ \/ u \in TxsToDelete(a, im[a].nonce)
                \/ Nonce[u] < im[a].nonce
                \/ /\ Nonce[u] = queue[a].nonce /\ Cost[u] <= queue[a].balance
                   /\ im[a].balance < Cost[u]
                \/ \E v \in HeldIn(queue, found) : v # u /\ From[v] = a /\ Nonce[v] = Nonce[u]
  <2>1. From[u] = a /\ a \in found
    BY <1>1, <1>4, <1>5, HeldInIs, Zenon
  <2>2. \/ u \in TooLow(queue[a], im[a].nonce)
        \/ u \in queue[a].readyTx /\ Nonce[u] < im[a].nonce
        \/ u \in queue[a].readyTx /\ im[a].balance < Cost[u]
        \/ \E b \in HeldIn(queue, found) : b # u /\ From[b] = a /\ Nonce[b] = Nonce[u]
    BY <1>1, <1>4, <1>5, Zenon
  <2>3. u \in queue[a].readyTx => Nonce[u] = queue[a].nonce /\ Cost[u] <= queue[a].balance
    BY <2>1, Zenon DEF Agree, Consistent
  <2>4. u \in TooLow(queue[a], im[a].nonce) => u \in TxsToDelete(a, im[a].nonce)
    BY <2>1, Zenon DEF TxsToDelete
  <2> QED BY <2>1, <2>2, <2>3, <2>4, Zenon
<1> QED BY <1>1, <1>4, <1>5, Zenon DEF w

\* MoveTxToNotReady.
LEMMA IntrinsicStep ==
  ASSUME Agree(queue, sorted, found), im \in [Addrs -> Account], NEW a \in Addrs,
         Becomes(ApplyAddressUpdate(Current, a, im[a].nonce, im[a].balance))
  PROVE  Refreshed(a)
<1> DEFINE w == ApplyAddressUpdate(Current, a, im[a].nonce, im[a].balance)
<1>1. /\ Agree(w.queue, w.sorted, found)
      /\ AllApart(queue, found) => AllApart(w.queue, found)
      /\ \A b \in Addrs : b # a => w.queue[b] = queue[b]
      /\ a \in found => w.queue[a].nonce = im[a].nonce /\ w.queue[a].balance = im[a].balance
      /\ a \notin found => w.queue[a] = queue[a]
      /\ HeldIn(w.queue, found) \subseteq HeldIn(queue, found)
      /\ \A u \in HeldIn(queue, found) :
           \/ u \in HeldIn(w.queue, found)
           \/ /\ From[u] = a
              /\ \/ u \in TxsToDelete(a, im[a].nonce)
                 \/ Nonce[u] < im[a].nonce
                 \/ /\ Nonce[u] = queue[a].nonce /\ Cost[u] <= queue[a].balance
                    /\ im[a].balance < Cost[u]
                 \/ \E v \in HeldIn(queue, found) : v # u /\ From[v] = a /\ Nonce[v] = Nonce[u]
  BY FirstUpdate, Zenon
<1>2. queue' = w.queue /\ sorted' = w.sorted
  BY Zenon DEF Becomes
<1>3. found \subseteq Addrs
  BY Zenon DEF Agree
<1> HIDE DEF w
<1> QED BY <1>1, <1>2, <1>3, Zenon DEF Refreshed

\* UpdateAfterSingleSuccessfulTxExecution.
LEMMA SuccessStep ==
  ASSUME Agree(queue, sorted, found), im \in [Addrs -> Account], NEW a \in Addrs, NEW b \in Addrs,
         LET w == ApplyAddressUpdate(Current, a, im[a].nonce, im[a].balance)
         IN Becomes(IF a = b THEN w ELSE ApplyAddressUpdate(w, b, w.queue[b].nonce, im[b].balance))
  PROVE  Refreshed(a)
<1> DEFINE w == ApplyAddressUpdate(Current, a, im[a].nonce, im[a].balance)
           v == ApplyAddressUpdate(w, b, w.queue[b].nonce, im[b].balance)
<1>1. CASE a = b
  BY <1>1, IntrinsicStep, Zenon
<1>2. CASE a # b
  <2>1. /\ Agree(w.queue, w.sorted, found)
        /\ AllApart(queue, found) => AllApart(w.queue, found)
        /\ \A c \in Addrs : c # a => w.queue[c] = queue[c]
        /\ a \in found => w.queue[a].nonce = im[a].nonce /\ w.queue[a].balance = im[a].balance
        /\ a \notin found => w.queue[a] = queue[a]
        /\ HeldIn(w.queue, found) \subseteq HeldIn(queue, found)
        /\ \A u \in HeldIn(queue, found) :
             \/ u \in HeldIn(w.queue, found)
             \/ /\ From[u] = a
                /\ \/ u \in TxsToDelete(a, im[a].nonce)
                   \/ Nonce[u] < im[a].nonce
                   \/ /\ Nonce[u] = queue[a].nonce /\ Cost[u] <= queue[a].balance
                      /\ im[a].balance < Cost[u]
                   \/ \E x \in HeldIn(queue, found) : x # u /\ From[x] = a /\ Nonce[x] = Nonce[u]
    BY FirstUpdate, Zenon
  <2>2. Becomes(v)
    BY <1>2, Zenon
  <2>3. queue' = v.queue /\ sorted' = v.sorted
    BY <2>2, Zenon DEF Becomes
  <2> HIDE DEF w
  <2>4. w.queue[b] \in AddrQueue /\ w.queue[b] = queue[b] /\ queue[b].nonce \in Nat
    <3>1. w.queue[b] \in AddrQueue /\ w.queue[b] = queue[b]
      BY <1>2, <2>1, Zenon DEF Agree
    <3> QED BY <3>1, Fields, Zenon
  <2>5. im[b].balance \in Nat /\ w.queue[b].nonce \in Nat /\ w.queue[b].nonce = queue[b].nonce
    BY <2>4, Zenon DEF Account
  <2> DEFINE n == w.queue[b].nonce
  <2>6. /\ Agree(v.queue, v.sorted, found)
        /\ AllApart(w.queue, found) => AllApart(v.queue, found)
        /\ \A c \in Addrs : c # b => v.queue[c] = w.queue[c]
        /\ b \in found => v.queue[b].nonce = n /\ v.queue[b].balance = im[b].balance
        /\ b \notin found => v = w
        /\ HeldIn(v.queue, found) \subseteq HeldIn(w.queue, found)
        /\ \A u \in HeldIn(w.queue, found) :
             \/ u \in HeldIn(v.queue, found)
             \/ /\ From[u] = b
                /\ \/ u \in TooLow(w.queue[b], n)
                   \/ u \in w.queue[b].readyTx /\ Nonce[u] < n
                   \/ u \in w.queue[b].readyTx /\ Nonce[u] = n /\ im[b].balance < Cost[u]
                   \/ \E x \in HeldIn(w.queue, found) : x # u /\ From[x] = b /\ Nonce[x] = Nonce[u]
    <3>1. Applied(w, v, b, n, im[b].balance)
      BY <2>1, <2>5, ApplyAddressUpdateIs, Zenon
    <3> HIDE DEF v, n
    <3> QED BY <3>1, Zenon DEF Applied
  <2> HIDE DEF v
  <2>7. ASSUME NEW u \in HeldIn(w.queue, found), u \notin HeldIn(v.queue, found)
        PROVE  /\ From[u] = b
               /\ \/ /\ Nonce[u] = queue[b].nonce /\ Cost[u] <= queue[b].balance
                     /\ im[b].balance < Cost[u]
                  \/ \E x \in HeldIn(queue, found) : x # u /\ From[x] = b /\ Nonce[x] = Nonce[u]
    <3>1. From[u] = b /\ b \in found
      BY <2>1, <2>6, <2>7, HeldInIs, Zenon
    <3>2. u \notin TooLow(w.queue[b], n)
      BY Zenon DEF TooLow
    <3>3. u \in w.queue[b].readyTx => Nonce[u] = n /\ Nonce[u] = queue[b].nonce /\ Cost[u] <= queue[b].balance
      BY <3>1, <2>1, <2>4, Zenon DEF Agree, Consistent
    <3>4. u \in w.queue[b].readyTx => ~(Nonce[u] < n)
      BY <3>3, <2>5
    <3>5. \A x \in HeldIn(w.queue, found) : x \in HeldIn(queue, found)
      BY <2>1, Zenon
    <3> HIDE DEF n
    <3> QED BY <3>1, <3>2, <3>3, <3>4, <3>5, <2>6, <2>7, Zenon
  <2>8. /\ Agree(queue', sorted', found)
        /\ AllApart(queue, found) => AllApart(queue', found)
        /\ HeldIn(queue', found) \subseteq HeldIn(queue, found)
    BY <2>1, <2>3, <2>6, Zenon
  <2>9. found \subseteq Addrs
    BY Zenon DEF Agree
  <2>10. \A c \in Addrs : c # a => queue'[c].nonce = queue[c].nonce
    <3>1. queue'[b].nonce = queue[b].nonce
      BY <2>3, <2>4, <2>6, Zenon
    <3> QED BY <3>1, <2>1, <2>3, <2>6, Zenon
  <2>11. \A c \in found : queue'[c].balance \in {queue[c].balance, im[c].balance}
    <3> TAKE c \in found
    <3>1. CASE c = b
      BY <3>1, <2>3, <2>6, Zenon
    <3>2. CASE c # b /\ c = a
      BY <3>2, <2>1, <2>3, <2>6, Zenon
    <3>3. CASE c # b /\ c # a
      BY <3>3, <2>1, <2>3, <2>6, <2>9, Zenon
    <3> QED BY <3>1, <3>2, <3>3, Zenon
  <2>12. a \in found => queue'[a].nonce = im[a].nonce /\ queue'[a].balance = im[a].balance
    BY <1>2, <2>1, <2>3, <2>6, Zenon
  <2>13. ASSUME NEW u \in HeldIn(queue, found), u \notin HeldIn(queue', found)
         PROVE  \/ u \in TxsToDelete(a, im[a].nonce)
                \/ Nonce[u] < im[From[u]].nonce
                \/ /\ Nonce[u] = queue[From[u]].nonce /\ Cost[u] <= queue[From[u]].balance
                   /\ im[From[u]].balance < Cost[u]
                \/ \E x \in HeldIn(queue, found) : x # u /\ From[x] = From[u] /\ Nonce[x] = Nonce[u]
    <3>1. CASE u \in HeldIn(w.queue, found)
      BY <3>1, <2>3, <2>7, <2>13, Zenon
    <3>2. CASE u \notin HeldIn(w.queue, found)
      BY <3>2, <2>1, Zenon
    <3> QED BY <3>1, <3>2, Zenon
  <2> QED BY <2>8, <2>10, <2>11, <2>12, <2>13, Zenon DEF Refreshed
<1> QED BY <1>1, <1>2, Zenon

\* What executing t does to the accounts.
LEMMA ExecutedIs ==
  ASSUME NEW acc \in [Addrs -> Account], NEW t \in Txs, Cost[t] <= acc[From[t]].balance
  PROVE  LET x == Executed(acc, t)
         IN /\ x \in [Addrs -> Account]
            /\ x[From[t]].nonce = acc[From[t]].nonce + 1
            /\ \A a \in Addrs : a # From[t] =>
                 x[a].nonce = acc[a].nonce /\ x[a].balance >= acc[a].balance
<1>1. /\ From[t] \in Addrs /\ To[t] \in Addrs /\ Cost[t] \in Nat /\ Value[t] \in Nat
      /\ \A a \in Addrs : acc[a] \in Account /\ acc[a].nonce \in Nat /\ acc[a].balance \in Nat
  BY Constants, Prices, Zenon DEF Account
<1> DEFINE p == [nonce |-> acc[From[t]].nonce + 1, balance |-> acc[From[t]].balance - Cost[t]]
           paid == [acc EXCEPT ![From[t]] = p]
<1>2. p \in Account /\ p.nonce = acc[From[t]].nonce + 1
  BY <1>1 DEF Account
<1> HIDE DEF p
<1>3. paid \in [Addrs -> Account] /\ paid[From[t]] = p /\ \A a \in Addrs : a # From[t] => paid[a] = acc[a]
  BY <1>1, <1>2, Zenon
<1>4. Executed(acc, t) = [paid EXCEPT ![To[t]].balance = @ + Value[t]]
  BY Zenon DEF Executed, p
<1> HIDE DEF paid
<1> DEFINE r == [paid[To[t]] EXCEPT !.balance = @ + Value[t]]
<1>5. paid[To[t]] \in Account /\ paid[To[t]].balance \in Nat
  BY <1>1, <1>3, Zenon DEF Account
<1>6. r \in Account /\ r.nonce = paid[To[t]].nonce /\ r.balance >= paid[To[t]].balance
  BY <1>1, <1>5 DEF Account
<1>7. Executed(acc, t) = [paid EXCEPT ![To[t]] = r]
  BY <1>4, Zenon
<1> HIDE DEF r
<1>8. /\ Executed(acc, t) \in [Addrs -> Account] /\ Executed(acc, t)[To[t]] = r
      /\ \A a \in Addrs : a # To[t] => Executed(acc, t)[a] = paid[a]
  BY <1>1, <1>3, <1>6, <1>7, Zenon
<1>9. Executed(acc, t)[From[t]].nonce = acc[From[t]].nonce + 1
  BY <1>1, <1>2, <1>3, <1>6, <1>8, Zenon
<1>10. ASSUME NEW a \in Addrs, a # From[t]
       PROVE  Executed(acc, t)[a].nonce = acc[a].nonce /\ Executed(acc, t)[a].balance >= acc[a].balance
  <2>1. CASE a = To[t]
    BY <2>1, <1>3, <1>6, <1>8, <1>10, Zenon
  <2>2. CASE a # To[t]
    <3>1. Executed(acc, t)[a] = acc[a]
      BY <2>2, <1>3, <1>8, <1>10, Zenon
    <3>2. acc[a].balance >= acc[a].balance
      BY <1>1
    <3> QED BY <3>1, <3>2, Zenon
  <2> QED BY <2>1, <2>2, Zenon
<1> QED BY <1>8, <1>9, <1>10, Zenon

\* The elements of a sequence with one appended.
LEMMA RangeAppend ==
  ASSUME NEW S, NEW s \in Seq(S), NEW e \in S
  PROVE  Range(Append(s, e)) = Range(s) \cup {e}
<1>1. Append(s, e) = s \o <<e>> /\ <<e>> \in Seq(S)
  BY AppendIs
<1>2. Range(s \o <<e>>) = Range(s) \cup Range(<<e>>)
  BY <1>1, Concatenation, Zenon
<1>3. Range(<<e>>) = {e}
  BY DEF Range
<1> QED BY <1>1, <1>2, <1>3, Zenon

\* processTransaction succeeds.
LEMMA ProcessSuccessKeeps ==
  ASSUME QueueInv, ProcessSuccess, deployment' = deployment
  PROVE  QueueInv'
<1>1. PICK t \in finTx : /\ Executable(t) /\ im' = Executed(im, t) /\ block' = Append(block, t)
                         /\ Becomes(WorkerDeleteTx(Current, t))
  BY Zenon DEF ProcessSuccess
<1>2. /\ finPc = "process" /\ finPc' = "update"
      /\ UNCHANGED <<status, wip, found, stored, txTable, addPc, addTx, addRep, addAcc, finTx,
                     toProcess, toStore, storePc, expired, expiries, crashes>>
  BY Zenon DEF ProcessSuccess, poolVars, dbVars, addVars, boundVars
<1>3. Types /\ WorkerInv /\ LocalInv /\ KnownInv /\ LoadedOnce
  BY Zenon DEF QueueInv
<1>4. Agree(queue, sorted, found) /\ InWorker = HeldIn(queue, found) /\ InWorker' = HeldIn(queue', found')
  BY <1>3, InWorkerIs, Zenon DEF WorkerInv
<1>5. t \in Txs /\ im \in [Addrs -> Account] /\ block \in Seq(Txs)
  BY <1>3, Zenon DEF Types, FinType, StateType, BlockType
<1>6. /\ Agree(queue', sorted', found)
      /\ AllApart(queue, found) => AllApart(queue', found)
      /\ HeldIn(queue', found) \subseteq HeldIn(queue, found)
  BY <1>1, <1>4, <1>5, DeleteStep, Zenon
<1>7. im' \in [Addrs -> Account]
  BY <1>1, <1>5, ExecutedIs, Zenon DEF Executable
<1>8. block' \in Seq(Txs) /\ Range(block') = Range(block) \cup {t}
  <2>1. Append(block, t) \in Seq(Txs)
    BY <1>5
  <2>2. Range(Append(block, t)) = Range(block) \cup {t}
    BY <1>5, RangeAppend
  <2> QED BY <1>1, <2>1, <2>2, Zenon
<1>9. Types'
  BY <1>2, <1>3, <1>7, <1>8, Zenon DEF Types, PoolType, StateType, AddType, FinType, BlockType, BoundType, MaxExpiries, MaxCrashes
<1>10. WorkerInv'
  BY <1>2, <1>3, <1>6, Zenon DEF WorkerInv, ExecErrors
<1>11. LocalInv'
  BY <1>2, <1>3, Zenon DEF LocalInv
<1>12. InWorker' \subseteq InWorker
  BY <1>2, <1>4, <1>6, Zenon
<1>13. \A u \in InPipeline' : u \in InPipeline \/ u = t
  BY <1>2, <1>8, Zenon DEF InPipeline
<1>14. KnownInv'
  BY <1>1, <1>2, <1>3, <1>12, <1>13, Zenon DEF KnownInv, UnderWay
<1>15. LoadedOnce'
  BY <1>2, <1>3, <1>12, Zenon DEF LoadedOnce, Entered, ExecErrors
<1> QED BY <1>9, <1>10, <1>11, <1>14, <1>15, Zenon DEF QueueInv

\* UpdateAfterSuccess and ProcessIntrinsicError, from what they do to the worker.
LEMMA RefreshKeeps ==
  ASSUME QueueInv, NEW a \in Addrs, Refreshed(a),
         UpdateTxStatus(TxsToDelete(a, im[a].nonce), "failed"),
         finPc' = "idle", finTx' = {}, deployment' = deployment,
         UNCHANGED <<found, im, stored, txTable, addPc, addTx, addRep, addAcc,
                     block, toProcess, toStore, storePc, expired, expiries, crashes>>
  PROVE  QueueInv'
<1> DEFINE T == TxsToDelete(a, im[a].nonce)
<1>1. Types /\ WorkerInv /\ LocalInv /\ KnownInv /\ LoadedOnce
  BY Zenon DEF QueueInv
<1>2. Agree(queue, sorted, found) /\ InWorker = HeldIn(queue, found) /\ InWorker' = HeldIn(queue', found')
  BY <1>1, InWorkerIs, Zenon DEF WorkerInv
<1>3. UpdateTxStatus(T, "failed")
  BY Zenon
<1> HIDE DEF T
<1>4. /\ PoolType'
      /\ \A t \in Txs \cap T : status'[t] = "failed" /\ t \notin wip'
      /\ \A t \in Txs \ T : status'[t] = status[t] /\ (t \in wip' <=> t \in wip)
  BY <1>1, <1>3, UpdateTxStatusIs, Zenon DEF Types, Status
<1>5. StateType' /\ AddType' /\ FinType' /\ BlockType' /\ BoundType'
  BY <1>1, Zenon DEF Types, StateType, AddType, FinType, BlockType, BoundType, MaxExpiries, MaxCrashes
<1>6. WorkerInv'
  BY <1>1, Zenon DEF WorkerInv, Refreshed, ExecErrors
<1>7. LocalInv'
  BY <1>1, Zenon DEF LocalInv
<1>8. InWorker' \subseteq InWorker
  BY <1>2, Zenon DEF Refreshed
<1>9. InPipeline' = InPipeline
  BY Zenon DEF InPipeline
<1>10. UnderWay \subseteq Txs
  BY <1>1, UnderWayIs, Zenon DEF WorkerInv
<1>11. \A t \in UnderWay' : t \in UnderWay
  BY <1>8, <1>9, Zenon DEF UnderWay
<1>12. \A t \in Txs : status'[t] = "none" => status[t] = "none"
  BY <1>4, Zenon
<1>13. KnownInv'
  BY <1>1, <1>10, <1>11, <1>12, KnownKept, Zenon
<1>14. InWorker \subseteq Txs
  BY <1>10, Zenon DEF UnderWay
<1>15. LoadedOnce'
  BY <1>1, <1>4, <1>8, <1>14, Zenon DEF LoadedOnce, Entered, ExecErrors
<1> QED BY <1>4, <1>5, <1>6, <1>7, <1>13, <1>15, Zenon DEF QueueInv, Types

\* Both are such steps.
LEMMA RefreshSteps ==
  ASSUME QueueInv, UpdateAfterSuccess \/ ProcessIntrinsicError
  PROVE  /\ \E t \in finTx : /\ From[t] \in Addrs /\ Refreshed(From[t])
                             /\ UpdateTxStatus(TxsToDelete(From[t], im[From[t]].nonce), "failed")
         /\ finPc' = "idle" /\ finTx' = {}
         /\ UNCHANGED <<found, im, stored, txTable, addPc, addTx, addRep, addAcc,
                        block, toProcess, toStore, storePc, expired, expiries, crashes>>
<1>1. /\ Agree(queue, sorted, found) /\ im \in [Addrs -> Account] /\ finTx \subseteq Txs
      /\ \A t \in Txs : From[t] \in Addrs /\ To[t] \in Addrs
  BY Constants, Zenon DEF QueueInv, WorkerInv, Types, StateType, FinType
<1>2. CASE UpdateAfterSuccess
  <2>1. PICK t \in finTx :
          /\ LET w == ApplyAddressUpdate(Current, From[t], im[From[t]].nonce, im[From[t]].balance)
             IN Becomes(IF From[t] = To[t] THEN w
                        ELSE ApplyAddressUpdate(w, To[t], w.queue[To[t]].nonce, im[To[t]].balance))
          /\ UpdateTxStatus(TxsToDelete(From[t], im[From[t]].nonce), "failed")
    BY <1>2, Zenon DEF UpdateAfterSuccess
  <2> DEFINE a == From[t]
             b == To[t]
  <2>2. a \in Addrs /\ b \in Addrs
    BY <1>1, Zenon
  <2>3. LET w == ApplyAddressUpdate(Current, a, im[a].nonce, im[a].balance)
        IN Becomes(IF a = b THEN w ELSE ApplyAddressUpdate(w, b, w.queue[b].nonce, im[b].balance))
    BY <2>1, Zenon
  <2> HIDE DEF a, b
  <2>4. Refreshed(a)
    BY <1>1, <2>2, <2>3, SuccessStep, Zenon
  <2> QED BY <1>2, <2>1, <2>2, <2>4, Zenon DEF UpdateAfterSuccess, dbVars, addVars, blockVars, boundVars, a
<1>3. CASE ProcessIntrinsicError
  <2>1. PICK t \in finTx :
          /\ Becomes(ApplyAddressUpdate(Current, From[t], im[From[t]].nonce, im[From[t]].balance))
          /\ UpdateTxStatus(TxsToDelete(From[t], im[From[t]].nonce), "failed")
    BY <1>3, Zenon DEF ProcessIntrinsicError
  <2>2. From[t] \in Addrs /\ Refreshed(From[t])
    BY <1>1, <2>1, IntrinsicStep, Zenon
  <2> QED BY <1>3, <2>1, <2>2, Zenon DEF ProcessIntrinsicError, dbVars, addVars, blockVars, boundVars
<1> QED BY <1>2, <1>3, Zenon

LEMMA UpdateKeeps ==
  ASSUME QueueInv, UpdateAfterSuccess \/ ProcessIntrinsicError, deployment' = deployment
  PROVE  QueueInv'
<1>1. PICK t \in finTx : /\ From[t] \in Addrs /\ Refreshed(From[t])
                         /\ UpdateTxStatus(TxsToDelete(From[t], im[From[t]].nonce), "failed")
  BY RefreshSteps, Zenon
<1>2. /\ finPc' = "idle" /\ finTx' = {}
      /\ UNCHANGED <<found, im, stored, txTable, addPc, addTx, addRep, addAcc,
                     block, toProcess, toStore, storePc, expired, expiries, crashes>>
  BY RefreshSteps, Zenon
<1> QED BY <1>1, <1>2, RefreshKeeps, Zenon

\* processTransaction fails for another reason.
LEMMA ProcessOtherErrorKeeps ==
  ASSUME QueueInv, ProcessOtherError, deployment' = deployment
  PROVE  QueueInv'
<1>1. PICK t \in finTx, s \in {"invalid", "failed"} :
        Becomes(WorkerDeleteTx(Current, t)) /\ UpdateTxStatus({t}, s)
  BY Zenon DEF ProcessOtherError
<1>2. /\ finPc' = "idle" /\ finTx' = {}
      /\ UNCHANGED <<found, im, stored, txTable, addPc, addTx, addRep, addAcc,
                     block, toProcess, toStore, storePc, expired, expiries, crashes>>
  BY Zenon DEF ProcessOtherError, dbVars, addVars, blockVars, boundVars
<1>3. Types /\ WorkerInv /\ LocalInv /\ KnownInv /\ LoadedOnce
  BY Zenon DEF QueueInv
<1>4. Agree(queue, sorted, found) /\ InWorker = HeldIn(queue, found) /\ InWorker' = HeldIn(queue', found')
  BY <1>3, InWorkerIs, Zenon DEF WorkerInv
<1>5. t \in Txs /\ s \in Status /\ s # "none"
  BY <1>3, Zenon DEF Types, FinType, Status
<1>6. /\ PoolType'
      /\ \A u \in Txs \cap {t} : status'[u] = s /\ u \notin wip'
      /\ \A u \in Txs \ {t} : status'[u] = status[u] /\ (u \in wip' <=> u \in wip)
  BY <1>1, <1>3, <1>5, UpdateTxStatusIs, Zenon DEF Types
<1>7. StateType' /\ AddType' /\ FinType' /\ BlockType' /\ BoundType'
  BY <1>2, <1>3, Zenon DEF Types, StateType, AddType, FinType, BlockType, BoundType, MaxExpiries, MaxCrashes
<1>8. /\ Agree(queue', sorted', found)
      /\ AllApart(queue, found) => AllApart(queue', found)
      /\ HeldIn(queue', found) \subseteq HeldIn(queue, found)
  BY <1>1, <1>4, <1>5, DeleteStep, Zenon
<1>9. WorkerInv'
  BY <1>2, <1>3, <1>8, Zenon DEF WorkerInv, ExecErrors
<1>10. LocalInv'
  BY <1>2, <1>3, Zenon DEF LocalInv
<1>11. InWorker' \subseteq InWorker
  BY <1>2, <1>4, <1>8, Zenon
<1>12. InPipeline' = InPipeline
  BY <1>2, Zenon DEF InPipeline
<1>13. UnderWay \subseteq Txs
  BY <1>3, UnderWayIs, Zenon DEF WorkerInv
<1>14. \A u \in UnderWay' : u \in UnderWay
  BY <1>2, <1>11, <1>12, Zenon DEF UnderWay
<1>15. \A u \in Txs : status'[u] = "none" => status[u] = "none"
  BY <1>5, <1>6, Zenon
<1>16. KnownInv'
  BY <1>3, <1>13, <1>14, <1>15, KnownKept, Zenon
<1>17. ExecErrors /\ ExecErrors'
  BY Zenon DEF ProcessOtherError, ExecErrors
<1>18. LoadedOnce'
  BY <1>17, Zenon DEF LoadedOnce
<1> QED BY <1>6, <1>7, <1>9, <1>10, <1>16, <1>18, Zenon DEF QueueInv, Types

LEMMA ProcessAgainKeeps ==
  ASSUME QueueInv, ProcessAgain, deployment' = deployment
  PROVE  QueueInv'
<1>2. /\ finPc' = "idle" /\ finTx' = {}
      /\ UNCHANGED <<status, wip, found, queue, sorted, im, stored, txTable, addPc, addTx, addRep, addAcc,
                     block, toProcess, toStore, storePc, expired, expiries, crashes>>
  BY Zenon DEF ProcessAgain, poolVars, workerVars, dbVars, addVars, blockVars, boundVars
<1>3. Types /\ WorkerInv /\ LocalInv /\ KnownInv /\ LoadedOnce
  BY Zenon DEF QueueInv
<1>7. Types'
  BY <1>2, <1>3, Zenon DEF Types, PoolType, StateType, AddType, FinType, BlockType, BoundType, MaxExpiries, MaxCrashes
<1>9. WorkerInv'
  BY <1>2, <1>3, Zenon DEF WorkerInv, ExecErrors
<1>10. LocalInv'
  BY <1>2, <1>3, Zenon DEF LocalInv
<1>12. InPipeline' = InPipeline /\ InWorker' = InWorker
  BY <1>2, Zenon DEF InPipeline, InWorker
<1>16. KnownInv'
  BY <1>2, <1>3, <1>12, Zenon DEF KnownInv, UnderWay
<1>18. LoadedOnce'
  BY <1>2, <1>3, <1>12, Zenon DEF LoadedOnce, Entered, ExecErrors
<1> QED BY <1>7, <1>9, <1>10, <1>16, <1>18, Zenon DEF QueueInv

-----------------------------------------------------------------------------
(* The L2 block pipeline.                                                  *)

\* The elements of a sequence are its head and those of its tail.
LEMMA RangeTail ==
  ASSUME NEW S, NEW s \in Seq(S), s # <<>>
  PROVE  Range(s) = {Head(s)} \cup Range(Tail(s)) /\ Head(s) \in S /\ Tail(s) \in Seq(S)
<1>1. /\ Head(s) = s[1] /\ Head(s) \in S /\ Tail(s) \in Seq(S)
      /\ Len(s) \in Nat /\ 1 \in 1 .. Len(s) /\ Len(Tail(s)) = Len(s) - 1
      /\ \A i \in 1 .. Len(Tail(s)) : Tail(s)[i] = s[i + 1]
  OBVIOUS
<1>2. Range(s) = {s[i] : i \in 1 .. Len(s)} /\ Range(Tail(s)) = {Tail(s)[i] : i \in 1 .. Len(Tail(s))}
  BY <1>1, Elements, Zenon
<1>3. ASSUME NEW i \in 1 .. Len(s)
      PROVE  s[i] = Head(s) \/ \E j \in 1 .. Len(Tail(s)) : s[i] = Tail(s)[j]
  <2>1. CASE i = 1
    BY <2>1, <1>1, Zenon
  <2>2. CASE i # 1
    <3>1. i - 1 \in 1 .. Len(Tail(s)) /\ (i - 1) + 1 = i
      BY <1>1, <2>2
    <3>2. Tail(s)[i - 1] = s[i]
      BY <1>1, <3>1, Zenon
    <3> QED BY <3>1, <3>2, Zenon
  <2> QED BY <2>1, <2>2, Zenon
<1>4. \A j \in 1 .. Len(Tail(s)) : j + 1 \in 1 .. Len(s)
  BY <1>1
<1>5. \A e \in Range(s) : e \in {Head(s)} \cup Range(Tail(s))
  BY <1>2, <1>3, Zenon
<1>6. \A e \in Range(Tail(s)) : e \in Range(s)
  BY <1>1, <1>2, <1>4, Zenon
<1>7. Head(s) \in Range(s)
  BY <1>1, <1>2, Zenon
<1> QED BY <1>1, <1>5, <1>6, <1>7, Zenon

\* Only the fields that the worker orders by count.
LEMMA AgreeSame ==
  ASSUME NEW Q, NEW S, NEW F, Agree(Q, S, F), NEW R \in [Addrs -> AddrQueue],
         \A a \in F : /\ R[a].nonce = Q[a].nonce /\ R[a].balance = Q[a].balance
                      /\ R[a].readyTx = Q[a].readyTx /\ R[a].notReadyTxs = Q[a].notReadyTxs
  PROVE  /\ Agree(R, S, F) /\ HeldIn(R, F) = HeldIn(Q, F)
         /\ AllApart(Q, F) => AllApart(R, F)
<1>1. ASSUME NEW a \in F
      PROVE  Consistent(R[a], a)
  <2>1. Consistent(Q[a], a)
    BY Zenon DEF Agree
  <2> QED BY <2>1, Zenon DEF Consistent
<1>2. {R[a].readyTx : a \in F} = {Q[a].readyTx : a \in F}
  BY Zenon
<1>3. {R[a].readyTx \cup R[a].notReadyTxs : a \in F} = {Q[a].readyTx \cup Q[a].notReadyTxs : a \in F}
  BY Zenon
<1>4. AllApart(Q, F) => AllApart(R, F)
  BY Zenon DEF AllApart, Apart
<1> QED BY <1>1, <1>2, <1>3, <1>4, Zenon DEF Agree, HeldIn

\* Queues without txs may leave the worker.
LEMMA AgreeLess ==
  ASSUME NEW Q, NEW S, NEW F, Agree(Q, S, F), NEW G \in SUBSET F,
         \A a \in F \ G : Q[a].readyTx = {} /\ Q[a].notReadyTxs = {}
  PROVE  /\ Agree(Q, S, G) /\ HeldIn(Q, G) = HeldIn(Q, F)
         /\ AllApart(Q, F) => AllApart(Q, G)
<1>1. UNION {Q[a].readyTx : a \in G} = UNION {Q[a].readyTx : a \in F}
  <2>1. \A t \in UNION {Q[a].readyTx : a \in F} : t \in UNION {Q[a].readyTx : a \in G}
    BY Zenon
  <2>2. \A t \in UNION {Q[a].readyTx : a \in G} : t \in UNION {Q[a].readyTx : a \in F}
    BY Zenon
  <2> QED BY <2>1, <2>2, Zenon
<1>2. HeldIn(Q, G) = HeldIn(Q, F)
  <2>1. \A t \in HeldIn(Q, F) : t \in HeldIn(Q, G)
    BY Zenon DEF HeldIn
  <2>2. \A t \in HeldIn(Q, G) : t \in HeldIn(Q, F)
    BY Zenon DEF HeldIn
  <2> QED BY <2>1, <2>2, Zenon
<1>3. (\A a \in G : Consistent(Q[a], a)) /\ G \subseteq Addrs
  BY Zenon DEF Agree
<1>4. AllApart(Q, F) => AllApart(Q, G)
  BY Zenon DEF AllApart
<1> QED BY <1>1, <1>2, <1>3, <1>4, Zenon DEF Agree

\* AddPendingTxToStore and DeletePendingTxToStore change pendingTxsToStore only.
LEMMA PendingIs ==
  ASSUME Agree(queue, sorted, found), NEW Add \in SUBSET Txs, NEW Del,
         queue' = WithPending(Add, Del)
  PROVE  /\ Agree(queue', sorted, found) /\ HeldIn(queue', found) = HeldIn(queue, found)
         /\ AllApart(queue, found) => AllApart(queue', found)
         /\ \A a \in Addrs : /\ queue'[a].nonce = queue[a].nonce /\ queue'[a].balance = queue[a].balance
                             /\ queue'[a].readyTx = queue[a].readyTx
                             /\ queue'[a].notReadyTxs = queue[a].notReadyTxs
<1>1. queue \in [Addrs -> AddrQueue] /\ found \subseteq Addrs
  BY Zenon DEF Agree
<1>2. ASSUME NEW q \in AddrQueue, NEW P \in SUBSET Txs
      PROVE  LET r == [q EXCEPT !.pendingTxsToStore = P]
             IN /\ r \in AddrQueue /\ r.nonce = q.nonce /\ r.balance = q.balance
                /\ r.readyTx = q.readyTx /\ r.notReadyTxs = q.notReadyTxs
  BY DEF AddrQueue
<1>3. ASSUME NEW a \in Addrs
      PROVE  /\ queue'[a] \in AddrQueue
             /\ queue'[a].nonce = queue[a].nonce /\ queue'[a].balance = queue[a].balance
             /\ queue'[a].readyTx = queue[a].readyTx
             /\ queue'[a].notReadyTxs = queue[a].notReadyTxs
  <2>1. CASE a \notin found
    <3>1. queue'[a] = queue[a]
      BY <2>1, Zenon DEF WithPending
    <3> QED BY <1>1, <3>1, Zenon
  <2>2. CASE a \in found
    <3> DEFINE P == (queue[a].pendingTxsToStore \ Del) \cup {t \in Add : From[t] = a}
    <3>1. queue'[a] = [queue[a] EXCEPT !.pendingTxsToStore = P]
      BY <2>2, Zenon DEF WithPending
    <3>2. queue[a] \in AddrQueue /\ queue[a].pendingTxsToStore \subseteq Txs
      BY <1>1, Fields, Zenon
    <3>3. P \in SUBSET Txs
      BY <3>2, Zenon
    <3> HIDE DEF P
    <3> DEFINE r == [queue[a] EXCEPT !.pendingTxsToStore = P]
    <3>4. /\ r \in AddrQueue /\ r.nonce = queue[a].nonce /\ r.balance = queue[a].balance
          /\ r.readyTx = queue[a].readyTx /\ r.notReadyTxs = queue[a].notReadyTxs
      BY <1>2, <3>2, <3>3
    <3>5. queue'[a] = r
      BY <3>1, Zenon
    <3> HIDE DEF r
    <3> QED BY <3>4, <3>5, Zenon
  <2> QED BY <2>1, <2>2, Zenon
<1>4. queue' \in [Addrs -> AddrQueue]
  BY <1>3, Zenon DEF WithPending
<1>5. \A a \in found : /\ queue'[a].nonce = queue[a].nonce /\ queue'[a].balance = queue[a].balance
                       /\ queue'[a].readyTx = queue[a].readyTx
                       /\ queue'[a].notReadyTxs = queue[a].notReadyTxs
  BY <1>1, <1>3, Zenon
<1>6. /\ Agree(queue', sorted, found) /\ HeldIn(queue', found) = HeldIn(queue, found)
      /\ AllApart(queue, found) => AllApart(queue', found)
  BY <1>4, <1>5, AgreeSame, Zenon
<1> QED BY <1>3, <1>6, Zenon

\* A block is closed: it joins the pipeline with the state it ends in.
LEMMA CloseIs ==
  ASSUME Types, CloseL2Block
  PROVE  /\ BlockType' /\ InPipeline' = InPipeline
         /\ [txs |-> block, root |-> im] \in L2Block /\ Blocks \in Seq(L2Block)
         /\ Blocks' = Append(Blocks, [txs |-> block, root |-> im])
<1>1. /\ toProcess' = Append(toProcess, [txs |-> block, root |-> im])
      /\ block' = <<>> /\ toStore' = toStore /\ storePc' = storePc
  BY Zenon DEF CloseL2Block
<1>2. /\ block \in Seq(Txs) /\ toProcess \in Seq(L2Block) /\ toStore \in Seq(L2Block)
      /\ im \in [Addrs -> Account] /\ storePc \in {"idle", "commit"}
  BY Zenon DEF Types, BlockType, StateType
<1> DEFINE e == [txs |-> block, root |-> im]
<1>3. e \in L2Block /\ e.txs = block
  BY <1>2 DEF L2Block
<1>4. toProcess' = Append(toProcess, e)
  BY <1>1, Zenon
<1> HIDE DEF e
<1>5. Append(toProcess, e) \in Seq(L2Block) /\ <<>> \in Seq(Txs)
  BY <1>2, <1>3
<1>6. Range(Append(toProcess, e)) = Range(toProcess) \cup {e}
  BY <1>2, <1>3, RangeAppend
<1>7. Range(<<>>) = {}
  BY DEF Range
<1>8. InPipeline' = Range(<<>>) \cup UNION {Range(b.txs) : b \in (Range(toProcess) \cup {e}) \cup Range(toStore)}
  BY <1>1, <1>4, <1>6, Zenon DEF InPipeline
<1>9. \A t \in InPipeline' : t \in InPipeline
  BY <1>3, <1>7, <1>8, Zenon DEF InPipeline
<1>10. \A t \in InPipeline : t \in InPipeline'
  BY <1>3, <1>8, Zenon DEF InPipeline
<1>11. toStore \o Append(toProcess, e) = Append(toStore \o toProcess, e)
  BY <1>2, <1>3, AddBlock
<1>12. Blocks' = Append(Blocks, e)
  BY <1>1, <1>4, <1>11, Zenon DEF Blocks
<1>13. BlockType'
  BY <1>1, <1>2, <1>4, <1>5, Zenon DEF BlockType
<1>14. InPipeline' = InPipeline
  BY <1>9, <1>10, Zenon
<1>15. Blocks \in Seq(L2Block)
  BY <1>2, Concatenation, Zenon DEF Blocks
<1> QED BY <1>3, <1>12, <1>13, <1>14, <1>15, Zenon DEF e

\* A block is processed: it stays in the pipeline.
LEMMA ProcessIs ==
  ASSUME Types, ProcessL2Block
  PROVE  /\ BlockType' /\ InPipeline' = InPipeline /\ Blocks' = Blocks
         /\ Range(Head(toProcess).txs) \subseteq Txs
<1>1. /\ toStore' = Append(toStore, Head(toProcess)) /\ toProcess' = Tail(toProcess)
      /\ toProcess # <<>> /\ block' = block /\ storePc' = storePc
  BY Zenon DEF ProcessL2Block
<1>2. /\ block \in Seq(Txs) /\ toProcess \in Seq(L2Block) /\ toStore \in Seq(L2Block)
      /\ storePc \in {"idle", "commit"}
  BY Zenon DEF Types, BlockType
<1>3. /\ Range(toProcess) = {Head(toProcess)} \cup Range(Tail(toProcess))
      /\ Head(toProcess) \in L2Block /\ Tail(toProcess) \in Seq(L2Block)
  BY <1>1, <1>2, RangeTail
<1> DEFINE e == Head(toProcess)
<1>4. Range(Append(toStore, e)) = Range(toStore) \cup {e} /\ Append(toStore, e) \in Seq(L2Block)
  BY <1>2, <1>3, RangeAppend
<1>5. Append(toStore, e) \o Tail(toProcess) = toStore \o toProcess
  BY <1>1, <1>2, MoveBlock
<1>6. Blocks' = Blocks
  BY <1>1, <1>5, Zenon DEF Blocks
<1>7. BlockType'
  BY <1>1, <1>2, <1>3, <1>4, Zenon DEF BlockType
<1>8. Range(toProcess') \cup Range(toStore') = Range(toProcess) \cup Range(toStore)
  BY <1>1, <1>3, <1>4, Zenon
<1>9. InPipeline' = InPipeline
  BY <1>1, <1>8, Zenon DEF InPipeline
<1>10. Head(toProcess).txs \in Seq(Txs)
  BY <1>3, Zenon DEF L2Block
<1>11. Range(Head(toProcess).txs) \subseteq Txs
  BY <1>10, Elements, Zenon
<1> QED BY <1>6, <1>7, <1>9, <1>11, Zenon

\* The oldest block leaves the pipeline with its txs.
LEMMA SelectIs ==
  ASSUME Types, SelectTxs, toStore # <<>>
  PROVE  /\ BlockType' /\ Range(Head(toStore).txs) \subseteq Txs /\ Head(toStore) = Blocks[1]
         /\ InPipeline' \subseteq InPipeline /\ Range(Head(toStore).txs) \subseteq InPipeline
         /\ \A t \in InPipeline : t \in InPipeline' \/ t \in Range(Head(toStore).txs)
         /\ Blocks \in Seq(L2Block) /\ Blocks' \in Seq(L2Block)
         /\ Len(Blocks) \in Nat \ {0} /\ Len(Blocks') = Len(Blocks) - 1
         /\ \A i \in 1 .. Len(Blocks) - 1 : Blocks'[i] = Blocks[i + 1]
<1>1. /\ toStore' = Tail(toStore) /\ toProcess' = toProcess /\ block' = block /\ storePc' = "idle"
  BY Zenon DEF SelectTxs
<1>2. /\ block \in Seq(Txs) /\ toProcess \in Seq(L2Block) /\ toStore \in Seq(L2Block)
  BY Zenon DEF Types, BlockType
<1>3. /\ Range(toStore) = {Head(toStore)} \cup Range(Tail(toStore))
      /\ Head(toStore) \in L2Block /\ Tail(toStore) \in Seq(L2Block)
  BY <1>1, <1>2, RangeTail
<1>4. BlockType'
  BY <1>1, <1>2, <1>3, Zenon DEF BlockType
<1>5. InPipeline' = Range(block) \cup UNION {Range(b.txs) : b \in Range(toProcess) \cup Range(Tail(toStore))}
  BY <1>1, Zenon DEF InPipeline
<1>6. InPipeline' \subseteq InPipeline
  BY <1>3, <1>5, Zenon DEF InPipeline
<1>7. \A t \in InPipeline : t \in InPipeline' \/ t \in Range(Head(toStore).txs)
  BY <1>3, <1>5, Zenon DEF InPipeline
<1>8. Range(Head(toStore).txs) \subseteq InPipeline
  BY <1>3, Zenon DEF InPipeline
<1>9. Head(toStore).txs \in Seq(Txs)
  BY <1>3, Zenon DEF L2Block
<1>10. Range(Head(toStore).txs) \subseteq Txs
  BY <1>9, Elements, Zenon
<1>11. /\ Tail(toStore) \o toProcess \in Seq(L2Block) /\ toStore \o toProcess \in Seq(L2Block)
       /\ Len(toStore \o toProcess) \in Nat \ {0}
       /\ Len(Tail(toStore) \o toProcess) = Len(toStore \o toProcess) - 1
       /\ (toStore \o toProcess)[1] = Head(toStore)
       /\ \A i \in 1 .. Len(toStore \o toProcess) - 1 : (Tail(toStore) \o toProcess)[i] = (toStore \o toProcess)[i + 1]
  BY <1>2, DropBlock
<1>12. Blocks' = Tail(toStore) \o toProcess /\ Blocks = toStore \o toProcess
  BY <1>1, Zenon DEF Blocks
<1> QED BY <1>4, <1>6, <1>7, <1>8, <1>10, <1>11, <1>12, Zenon

LEMMA CloseL2BlockKeeps ==
  ASSUME QueueInv, CloseL2Block, deployment' = deployment
  PROVE  QueueInv'
<1>1. UNCHANGED <<status, wip, found, queue, sorted, im, stored, txTable, addPc, addTx, addRep, addAcc,
                  finPc, finTx, toStore, storePc, expired, expiries, crashes>>
  BY Zenon DEF CloseL2Block, poolVars, workerVars, dbVars, addVars, finVars, boundVars
<1>2. Types /\ WorkerInv /\ LocalInv /\ KnownInv /\ LoadedOnce
  BY Zenon DEF QueueInv
<1>3. BlockType' /\ InPipeline' = InPipeline
  BY <1>2, CloseIs, Zenon
<1>4. Types'
  BY <1>1, <1>2, <1>3, Zenon DEF Types, PoolType, StateType, AddType, FinType, BoundType, MaxExpiries, MaxCrashes
<1>5. WorkerInv'
  BY <1>1, <1>2, Zenon DEF WorkerInv, ExecErrors
<1>6. LocalInv'
  BY <1>1, <1>2, Zenon DEF LocalInv
<1>7. InWorker' = InWorker
  BY <1>1, Zenon DEF InWorker
<1>8. KnownInv'
  BY <1>1, <1>2, <1>3, <1>7, Zenon DEF KnownInv, UnderWay
<1>9. LoadedOnce'
  BY <1>1, <1>2, <1>7, Zenon DEF LoadedOnce, Entered, ExecErrors
<1> QED BY <1>4, <1>5, <1>6, <1>8, <1>9, Zenon DEF QueueInv

LEMMA ProcessL2BlockKeeps ==
  ASSUME QueueInv, ProcessL2Block, deployment' = deployment
  PROVE  QueueInv'
<1>1. UNCHANGED <<status, wip, found, sorted, im, stored, txTable, addPc, addTx, addRep, addAcc,
                  finPc, finTx, block, storePc, expired, expiries, crashes>>
  BY Zenon DEF ProcessL2Block, poolVars, dbVars, addVars, finVars, boundVars
<1>2. Types /\ WorkerInv /\ LocalInv /\ KnownInv /\ LoadedOnce
  BY Zenon DEF QueueInv
<1>3. BlockType' /\ InPipeline' = InPipeline /\ Range(Head(toProcess).txs) \in SUBSET Txs
  BY <1>2, ProcessIs, Zenon
<1>4. Types'
  BY <1>1, <1>2, <1>3, Zenon DEF Types, PoolType, StateType, AddType, FinType, BoundType, MaxExpiries, MaxCrashes
<1>5. Agree(queue, sorted, found) /\ queue' = WithPending(Range(Head(toProcess).txs), {})
  BY <1>2, Zenon DEF WorkerInv, ProcessL2Block
<1>6. /\ Agree(queue', sorted, found) /\ HeldIn(queue', found) = HeldIn(queue, found)
      /\ AllApart(queue, found) => AllApart(queue', found)
  BY <1>3, <1>5, PendingIs, Zenon
<1>7. WorkerInv'
  BY <1>1, <1>2, <1>6, Zenon DEF WorkerInv, ExecErrors
<1>8. toStore' # <<>>
  <2>1. toStore' = Append(toStore, Head(toProcess)) /\ toStore \in Seq(L2Block)
    BY <1>2, Zenon DEF ProcessL2Block, Types, BlockType
  <2> QED BY <2>1
<1>9. LocalInv'
  BY <1>1, <1>2, <1>8, Zenon DEF LocalInv
<1>10. InWorker' = InWorker
  BY <1>1, <1>6, InWorkerIs, Zenon
<1>11. KnownInv'
  BY <1>1, <1>2, <1>3, <1>10, Zenon DEF KnownInv, UnderWay
<1>12. LoadedOnce'
  BY <1>1, <1>2, <1>10, Zenon DEF LoadedOnce, Entered, ExecErrors
<1> QED BY <1>4, <1>7, <1>9, <1>11, <1>12, Zenon DEF QueueInv

LEMMA StoreL2BlockKeeps ==
  ASSUME QueueInv, StoreL2Block, deployment' = deployment
  PROVE  QueueInv'
<1>1. /\ UNCHANGED <<status, wip, found, queue, sorted, im, addPc, addTx, addRep, addAcc,
                     finPc, finTx, block, toProcess, toStore, expired, expiries, crashes>>
      /\ toStore # <<>> /\ storePc' = "commit"
      /\ stored' = Head(toStore).root /\ txTable' = txTable \cup Range(Head(toStore).txs)
  BY Zenon DEF StoreL2Block, poolVars, workerVars, addVars, finVars, boundVars
<1>2. Types /\ WorkerInv /\ LocalInv /\ KnownInv /\ LoadedOnce
  BY Zenon DEF QueueInv
<1>3. toStore \in Seq(L2Block)
  BY <1>2, Zenon DEF Types, BlockType
<1>4. Head(toStore) \in L2Block
  BY <1>1, <1>3, RangeTail
<1>5. Head(toStore).root \in [Addrs -> Account] /\ Head(toStore).txs \in Seq(Txs)
  BY <1>4, Zenon DEF L2Block
<1>6. Range(Head(toStore).txs) \subseteq Txs
  BY <1>5, Elements, Zenon
<1>7. Types'
  BY <1>1, <1>2, <1>5, <1>6, Zenon DEF Types, PoolType, StateType, AddType, FinType, BlockType, BoundType, MaxExpiries, MaxCrashes
<1>8. WorkerInv'
  BY <1>1, <1>2, Zenon DEF WorkerInv, ExecErrors
<1>9. LocalInv'
  BY <1>1, <1>2, Zenon DEF LocalInv
<1>10. InWorker' = InWorker /\ InPipeline' = InPipeline
  BY <1>1, Zenon DEF InWorker, InPipeline
<1>11. KnownInv'
  BY <1>1, <1>2, <1>10, Zenon DEF KnownInv, UnderWay
<1>12. LoadedOnce'
  BY <1>1, <1>2, <1>10, Zenon DEF LoadedOnce, Entered, ExecErrors
<1> QED BY <1>7, <1>8, <1>9, <1>11, <1>12, Zenon DEF QueueInv

LEMMA SelectTxsKeeps ==
  ASSUME QueueInv, SelectTxs, deployment' = deployment
  PROVE  QueueInv'
<1> DEFINE T == Range(Head(toStore).txs)
<1>1. /\ UNCHANGED <<found, sorted, im, stored, txTable, addPc, addTx, addRep, addAcc,
                     finPc, finTx, block, toProcess, expired, expiries, crashes>>
      /\ storePc = "commit" /\ storePc' = "idle"
      /\ UpdateTxStatus(T, "selected") /\ queue' = WithPending({}, T)
  BY Zenon DEF SelectTxs, dbVars, addVars, finVars, boundVars
<1>2. Types /\ WorkerInv /\ LocalInv /\ KnownInv /\ LoadedOnce
  BY Zenon DEF QueueInv
<1>3. toStore # <<>>
  BY <1>1, <1>2, Zenon DEF LocalInv
<1>4. BlockType' /\ T \subseteq Txs /\ InPipeline' \subseteq InPipeline
  BY <1>2, <1>3, SelectIs, Zenon
<1> HIDE DEF T
<1>5. /\ PoolType'
      /\ \A t \in Txs \cap T : status'[t] = "selected" /\ t \notin wip'
      /\ \A t \in Txs \ T : status'[t] = status[t] /\ (t \in wip' <=> t \in wip)
  BY <1>1, <1>2, UpdateTxStatusIs, Zenon DEF Types, Status
<1>6. StateType' /\ AddType' /\ FinType' /\ BoundType'
  BY <1>1, <1>2, Zenon DEF Types, StateType, AddType, FinType, BoundType, MaxExpiries, MaxCrashes
<1>7. Agree(queue, sorted, found) /\ {} \in SUBSET Txs
  BY <1>2, Zenon DEF WorkerInv
<1>8. /\ Agree(queue', sorted, found) /\ HeldIn(queue', found) = HeldIn(queue, found)
      /\ AllApart(queue, found) => AllApart(queue', found)
  BY <1>1, <1>7, PendingIs, Zenon
<1>9. WorkerInv'
  BY <1>1, <1>2, <1>8, Zenon DEF WorkerInv, ExecErrors
<1>10. LocalInv'
  BY <1>1, <1>2, Zenon DEF LocalInv
<1>11. InWorker' = InWorker
  BY <1>1, <1>8, InWorkerIs, Zenon
<1>12. UnderWay \subseteq Txs
  BY <1>2, UnderWayIs, Zenon DEF WorkerInv
<1>13. \A t \in UnderWay' : t \in UnderWay
  BY <1>1, <1>4, <1>11, Zenon DEF UnderWay
<1>14. \A t \in Txs : status'[t] = "none" => status[t] = "none"
  BY <1>5, Zenon
<1>15. KnownInv'
  BY <1>2, <1>12, <1>13, <1>14, KnownKept, Zenon
<1>16. InWorker \subseteq Txs
  BY <1>12, Zenon DEF UnderWay
<1>17. LoadedOnce'
  BY <1>1, <1>2, <1>5, <1>11, <1>16, Zenon DEF LoadedOnce, Entered, ExecErrors
<1> QED BY <1>4, <1>5, <1>6, <1>9, <1>10, <1>15, <1>17, Zenon DEF QueueInv, Types

-----------------------------------------------------------------------------
(* Expiry and restart.                                                     *)

\* ExpireTransactions deletes at most one tx, and queues that hold none.
LEMMA ExpireIs ==
  ASSUME Agree(queue, sorted, found), ExpireTransactions
  PROVE  /\ Agree(queue', sorted', found') /\ found' \subseteq found
         /\ AllApart(queue, found) => AllApart(queue', found')
         /\ expired' \subseteq InWorker /\ InWorker' \subseteq InWorker
         /\ \A u \in InWorker : u \in InWorker' \/ u \in expired'
         /\ \A b \in Addrs : queue'[b].nonce = queue[b].nonce /\ queue'[b].balance = queue[b].balance
<1>1. PICK old \in {{}} \cup {{t} : t \in InWorker} :
        LET w == IF old = {} THEN Current ELSE WorkerDeleteTx(Current, CHOOSE t \in old : TRUE)
        IN /\ Becomes(w)
           /\ found' = {a \in found : ~IsEmpty(w.queue[a])}
           /\ expired' = old
  BY Zenon DEF ExpireTransactions, InWorker
<1>2. /\ Agree(queue', sorted', found)
      /\ AllApart(queue, found) => AllApart(queue', found)
      /\ \A b \in Addrs : queue'[b].nonce = queue[b].nonce /\ queue'[b].balance = queue[b].balance
      /\ HeldIn(queue', found) \subseteq HeldIn(queue, found)
      /\ \A u \in HeldIn(queue, found) : u \in HeldIn(queue', found) \/ u \in old
  <2>1. CASE old = {}
    <3>1. Becomes(Current)
      BY <1>1, <2>1, Zenon
    <3>2. Current.queue = queue /\ Current.sorted = sorted
      BY DEF Current
    <3>3. queue' = queue /\ sorted' = sorted
      BY <3>1, <3>2, Zenon DEF Becomes
    <3> QED BY <3>3, Zenon
  <2>2. CASE old # {}
    <3>1. PICK t \in InWorker : old = {t}
      BY <1>1, <2>2, Zenon
    <3>2. t \in Txs
      BY InWorkerIs, HeldInIs, Zenon
    <3>3. (CHOOSE x \in old : TRUE) = t
      BY <3>1
    <3>4. Becomes(WorkerDeleteTx(Current, t))
      BY <1>1, <2>2, <3>3, Zenon
    <3> QED BY <3>1, <3>2, <3>4, DeleteStep, Zenon
  <2> QED BY <2>1, <2>2, Zenon
<1>3. found' = {a \in found : ~IsEmpty(queue'[a])} /\ expired' = old
  BY <1>1, Zenon DEF Becomes
<1>4. /\ found' \in SUBSET found
      /\ \A a \in found \ found' : queue'[a].readyTx = {} /\ queue'[a].notReadyTxs = {}
  BY <1>3, Zenon DEF IsEmpty
<1>5. /\ Agree(queue', sorted', found') /\ HeldIn(queue', found') = HeldIn(queue', found)
      /\ AllApart(queue', found) => AllApart(queue', found')
  BY <1>2, <1>4, AgreeLess, Zenon
<1>6. old \subseteq InWorker
  BY Zenon
<1>7. InWorker = HeldIn(queue, found) /\ InWorker' = HeldIn(queue', found)
  BY <1>5, InWorkerIs, Zenon
<1> QED BY <1>2, <1>3, <1>4, <1>5, <1>6, <1>7, Zenon

LEMMA ExpireTransactionsKeeps ==
  ASSUME QueueInv, ExpireTransactions, deployment' = deployment
  PROVE  QueueInv'
<1>1. /\ UNCHANGED <<status, wip, im, stored, txTable, addPc, addTx, addRep, addAcc, finPc, finTx,
                     block, toProcess, toStore, storePc, crashes>>
      /\ expiries < MaxExpiries /\ expiries' = expiries + 1
  BY Zenon DEF ExpireTransactions, poolVars, dbVars, addVars, finVars, blockVars
<1>2. Types /\ WorkerInv /\ LocalInv /\ KnownInv /\ LoadedOnce
  BY Zenon DEF QueueInv
<1>3. /\ Agree(queue', sorted', found') /\ found' \subseteq found
      /\ AllApart(queue, found) => AllApart(queue', found')
      /\ expired' \subseteq InWorker /\ InWorker' \subseteq InWorker
  BY <1>2, ExpireIs, Zenon DEF WorkerInv
<1>4. InWorker \subseteq Txs
  BY <1>2, UnderWayIs, Zenon DEF WorkerInv, UnderWay
<1>5. MaxExpiries \in Nat /\ expiries \in 0 .. MaxExpiries
  BY <1>2, Constants, Zenon DEF Types, BoundType, MaxExpiries
<1>6. expiries' \in 0 .. MaxExpiries /\ expiries' # 0
  BY <1>1, <1>5
<1>7. Types'
  BY <1>1, <1>2, <1>3, <1>4, <1>6, Zenon DEF Types, PoolType, StateType, AddType, FinType, BlockType, BoundType, MaxExpiries, MaxCrashes
<1>8. WorkerInv'
  BY <1>1, <1>2, <1>3, Zenon DEF WorkerInv, ExecErrors
<1>9. LocalInv'
  BY <1>1, <1>2, <1>3, <1>6, Zenon DEF LocalInv
<1>10. InPipeline' = InPipeline
  BY <1>1, Zenon DEF InPipeline
<1>11. KnownInv'
  BY <1>1, <1>2, <1>3, <1>10, Zenon DEF KnownInv, UnderWay
<1>12. LoadedOnce'
  BY <1>1, <1>2, <1>3, Zenon DEF LoadedOnce, Entered, ExecErrors
<1> QED BY <1>7, <1>8, <1>9, <1>11, <1>12, Zenon DEF QueueInv

LEMMA FailExpiredKeeps ==
  ASSUME QueueInv, FailExpired, deployment' = deployment
  PROVE  QueueInv'
<1>1. /\ UNCHANGED <<found, queue, sorted, im, stored, txTable, addPc, addTx, addRep, addAcc,
                     finPc, finTx, block, toProcess, toStore, storePc, expiries, crashes>>
      /\ UpdateTxStatus(expired, "failed") /\ expired' = {}
  BY Zenon DEF FailExpired, workerVars, dbVars, addVars, finVars, blockVars
<1>2. Types /\ WorkerInv /\ LocalInv /\ KnownInv /\ LoadedOnce
  BY Zenon DEF QueueInv
<1>3. /\ PoolType'
      /\ \A t \in Txs \cap expired : status'[t] = "failed" /\ t \notin wip'
      /\ \A t \in Txs \ expired : status'[t] = status[t] /\ (t \in wip' <=> t \in wip)
  BY <1>1, <1>2, UpdateTxStatusIs, Zenon DEF Types, Status
<1>4. StateType' /\ AddType' /\ FinType' /\ BlockType' /\ BoundType'
  BY <1>1, <1>2, Zenon DEF Types, StateType, AddType, FinType, BlockType, BoundType, MaxExpiries, MaxCrashes
<1>5. WorkerInv'
  BY <1>1, <1>2, Zenon DEF WorkerInv, ExecErrors
<1>6. LocalInv'
  BY <1>1, <1>2, Zenon DEF LocalInv
<1>7. InWorker' = InWorker /\ InPipeline' = InPipeline
  BY <1>1, Zenon DEF InWorker, InPipeline
<1>8. UnderWay \subseteq Txs
  BY <1>2, UnderWayIs, Zenon DEF WorkerInv
<1>9. \A t \in UnderWay' : t \in UnderWay
  BY <1>1, <1>7, Zenon DEF UnderWay
<1>10. \A t \in Txs : status'[t] = "none" => status[t] = "none"
  BY <1>3, Zenon
<1>11. KnownInv'
  BY <1>2, <1>8, <1>9, <1>10, KnownKept, Zenon
<1>12. InWorker \subseteq Txs
  BY <1>8, Zenon DEF UnderWay
<1>13. LoadedOnce'
  BY <1>1, <1>2, <1>3, <1>7, <1>12, Zenon DEF LoadedOnce, Entered, ExecErrors
<1> QED BY <1>3, <1>4, <1>5, <1>6, <1>11, <1>13, Zenon DEF QueueInv, Types

\* A worker without queues.
LEMMA EmptyWorker ==
  ASSUME NEW Q, Q = [a \in Addrs |-> NewAddrQueue([nonce |-> 0, balance |-> 0])]
  PROVE  Agree(Q, <<>>, {}) /\ HeldIn(Q, {}) = {} /\ AllApart(Q, {})
<1>1. [nonce |-> 0, balance |-> 0] \in Account
  BY DEF Account
<1>2. NewAddrQueue([nonce |-> 0, balance |-> 0]) \in AddrQueue
  BY <1>1, NewQueueIs, Zenon
<1>3. Q \in [Addrs -> AddrQueue]
  BY <1>2, Zenon
<1>4. <<>> \in Seq(Txs) /\ Range(<<>>) = {} /\ Len(<<>>) = 0
  BY DEF Range
<1>5. 1 .. 0 = {} /\ UNION {Q[a].readyTx : a \in {}} = {}
  OBVIOUS
<1>8. \A p \in Nat : Cut(<<>>, 1, p) /\ 1 \in 1 .. Len(<<>>) + 1
  BY <1>4 DEF Cut
<1>6. ListIs(<<>>, UNION {Q[a].readyTx : a \in {}})
  BY <1>4, <1>5, <1>8, Zenon DEF ListIs
<1>7. HeldIn(Q, {}) = {}
  BY Zenon DEF HeldIn
<1> QED BY <1>3, <1>6, <1>7, Zenon DEF Agree, AllApart

\* Nothing is in an empty pipeline.
LEMMA EmptyPipeline ==
  /\ Range(<<>>) \cup UNION {Range(b.txs) : b \in Range(<<>>) \cup Range(<<>>)} = {}
  /\ \A S : <<>> \in Seq(S)
<1>1. Range(<<>>) = {}
  BY DEF Range
<1>2. \A S : <<>> \in Seq(S)
  OBVIOUS
<1> QED BY <1>1, <1>2, Zenon

LEMMA RestartKeeps ==
  ASSUME QueueInv, Restart, deployment' = deployment
  PROVE  QueueInv'
<1>1. /\ wip' = {} /\ found' = {} /\ sorted' = <<>> /\ im' = stored
      /\ queue' = [a \in Addrs |-> NewAddrQueue([nonce |-> 0, balance |-> 0])]
      /\ addPc' = "idle" /\ addTx' = {} /\ addRep' = {} /\ finPc' = "idle" /\ finTx' = {}
      /\ block' = <<>> /\ toProcess' = <<>> /\ toStore' = <<>> /\ storePc' = "idle" /\ expired' = {}
      /\ UNCHANGED <<status, stored, txTable, addAcc, expiries>>
  BY Zenon DEF Restart, dbVars
<1>2. Types /\ WorkerInv /\ LocalInv /\ KnownInv /\ LoadedOnce
  BY Zenon DEF QueueInv
<1>3. MaxCrashes \in Nat /\ crashes \in 0 .. MaxCrashes
  BY <1>2, Constants, Zenon DEF Types, BoundType, MaxCrashes
<1>4. crashes < MaxCrashes /\ crashes' = crashes + 1
  BY Zenon DEF Restart
<1>5. crashes' \in 0 .. MaxCrashes
  BY <1>3, <1>4
<1>6. Types'
  BY <1>1, <1>2, <1>5, EmptyPipeline, Zenon DEF Types, PoolType, StateType, AddType, FinType, BlockType, BoundType, MaxExpiries, MaxCrashes
<1>7. Agree(queue', <<>>, {}) /\ HeldIn(queue', {}) = {} /\ AllApart(queue', {})
  BY <1>1, EmptyWorker, Zenon
<1>8. WorkerInv'
  BY <1>1, <1>7, Zenon DEF WorkerInv
<1>9. LocalInv'
  BY <1>1, Zenon DEF LocalInv
<1>10. InWorker' = {} /\ InPipeline' = {}
  BY <1>1, <1>7, InWorkerIs, EmptyPipeline, Zenon DEF InPipeline
<1>11. KnownInv'
  BY <1>1, <1>10, Zenon DEF KnownInv, UnderWay
<1>12. LoadedOnce'
  BY <1>10, Zenon DEF LoadedOnce
<1> QED BY <1>6, <1>8, <1>9, <1>11, <1>12, Zenon DEF QueueInv

\* The initial states.
LEMMA QueueInitially == Init => QueueInv
<1> SUFFICES ASSUME Init
             PROVE  QueueInv
  OBVIOUS
<1>1. /\ status = [t \in Txs |-> "none"] /\ wip = {} /\ found = {} /\ sorted = <<>> /\ im = stored
      /\ queue = [a \in Addrs |-> NewAddrQueue([nonce |-> 0, balance |-> 0])]
      /\ stored = [a \in Addrs |-> [nonce |-> 0, balance |-> Funds[a]]] /\ txTable = {}
      /\ addPc = "idle" /\ addTx = {} /\ addRep = {} /\ addAcc = [nonce |-> 0, balance |-> 0]
      /\ finPc = "idle" /\ finTx = {}
      /\ block = <<>> /\ toProcess = <<>> /\ toStore = <<>> /\ storePc = "idle"
      /\ expired = {} /\ expiries = 0 /\ crashes = 0 /\ deployment \in Deployments
  BY Zenon DEF Init
<1>2. stored \in [Addrs -> Account] /\ addAcc \in Account
  <2>1. \A a \in Addrs : Funds[a] \in Nat
    BY ConstantsAssumption
  <2>2. \A a \in Addrs : [nonce |-> 0, balance |-> Funds[a]] \in Account
    BY <2>1 DEF Account
  <2>3. [nonce |-> 0, balance |-> 0] \in Account
    BY DEF Account
  <2> QED BY <1>1, <2>2, <2>3, Zenon
<1>3. MaxExpiries \in Nat /\ MaxCrashes \in Nat
  BY <1>1, Constants, Zenon DEF MaxExpiries, MaxCrashes
<1>4. 0 \in 0 .. MaxExpiries /\ 0 \in 0 .. MaxCrashes
  BY <1>3
<1>5. PoolType
  BY <1>1, Zenon DEF PoolType, Status
<1>6. Types
  BY <1>1, <1>2, <1>4, <1>5, EmptyPipeline, Zenon DEF Types, StateType, AddType, FinType, BlockType, BoundType
<1>7. Agree(queue, <<>>, {}) /\ HeldIn(queue, {}) = {} /\ AllApart(queue, {})
  BY <1>1, EmptyWorker, Zenon
<1>8. WorkerInv
  BY <1>1, <1>7, Zenon DEF WorkerInv
<1>9. LocalInv
  BY <1>1, Zenon DEF LocalInv
<1>10. InWorker = {} /\ InPipeline = {}
  BY <1>1, <1>7, InWorkerIs, EmptyPipeline, Zenon DEF InPipeline
<1>11. KnownInv /\ LoadedOnce
  BY <1>1, <1>10, Zenon DEF KnownInv, UnderWay, LoadedOnce
<1> QED BY <1>6, <1>8, <1>9, <1>11, Zenon DEF QueueInv

\* The steps of Next.
LEMMA Steps ==
  ASSUME Next
  PROVE  /\ deployment' = deployment
         /\ \/ \E t \in deployment.txs : SubmitTx(t)
            \/ \E t \in Txs : AddTxTracker(t)
            \/ ReadAccount \/ InstallQueue \/ FailDropped \/ FailReplaced \/ MarkWIP
            \/ GetBestFittingTx \/ ProcessSuccess \/ UpdateAfterSuccess
            \/ ProcessIntrinsicError \/ ProcessOtherError \/ ProcessAgain
            \/ CloseL2Block \/ ProcessL2Block \/ StoreL2Block \/ SelectTxs
            \/ ExpireTransactions \/ FailExpired \/ Restart
BY Zenon DEF Next, LoadFromPool, Finalizer, Pipeline

LEMMA QueuePreserved == QueueInv /\ [Next]_vars => QueueInv'
<1> SUFFICES ASSUME QueueInv, [Next]_vars
             PROVE  QueueInv'
  OBVIOUS
<1>1. CASE Next
  <2>1. deployment' = deployment
    BY <1>1, Steps, Zenon
  <2>2. \A t \in deployment.txs : t \in Txs
    BY Constants, Zenon DEF QueueInv, Types, BoundType
  <2>3. ASSUME NEW t \in deployment.txs, SubmitTx(t)
        PROVE  QueueInv'
    BY <2>1, <2>2, <2>3, SubmitTxKeeps, Zenon
  <2>4. ASSUME NEW t \in Txs, AddTxTracker(t)
        PROVE  QueueInv'
    BY <2>1, <2>4, AddTxTrackerKeeps, Zenon
  <2>5. CASE ReadAccount \/ InstallQueue \/ FailDropped \/ FailReplaced \/ MarkWIP
    BY <2>1, <2>5, ReadAccountKeeps, InstallQueueKeeps, FailDroppedKeeps, FailReplacedKeeps, MarkWIPKeeps, Zenon
  <2>6. CASE GetBestFittingTx \/ ProcessSuccess \/ UpdateAfterSuccess
             \/ ProcessIntrinsicError \/ ProcessOtherError \/ ProcessAgain
    BY <2>1, <2>6, GetBestFittingTxKeeps, ProcessSuccessKeeps, UpdateKeeps, ProcessOtherErrorKeeps,
       ProcessAgainKeeps, Zenon
  <2>7. CASE CloseL2Block \/ ProcessL2Block \/ StoreL2Block \/ SelectTxs
    BY <2>1, <2>7, CloseL2BlockKeeps, ProcessL2BlockKeeps, StoreL2BlockKeeps, SelectTxsKeeps, Zenon
  <2>8. CASE ExpireTransactions \/ FailExpired \/ Restart
    BY <2>1, <2>8, ExpireTransactionsKeeps, FailExpiredKeeps, RestartKeeps, Zenon
  <2> QED BY <1>1, <2>3, <2>4, <2>5, <2>6, <2>7, <2>8, Steps, Zenon
<1>2. CASE UNCHANGED vars
  <2>1. UNCHANGED <<deployment, status, wip, found, queue, sorted, im, stored, txTable, addPc, addTx, addRep,
                    addAcc, finPc, finTx, block, toProcess, toStore, storePc, expired, expiries, crashes>>
    BY <1>2, Zenon DEF vars, sequencerVars, poolVars, workerVars, dbVars, addVars, finVars, blockVars, boundVars
  <2>2. Types' /\ WorkerInv' /\ LocalInv'
    BY <2>1, Zenon DEF QueueInv, Types, PoolType, StateType, AddType, FinType, BlockType, BoundType,
       MaxExpiries, MaxCrashes, WorkerInv, ExecErrors, LocalInv
  <2>3. InWorker' = InWorker /\ InPipeline' = InPipeline
    BY <2>1, Zenon DEF InWorker, InPipeline
  <2>4. KnownInv' /\ LoadedOnce'
    BY <2>1, <2>3, Zenon DEF QueueInv, KnownInv, UnderWay, LoadedOnce, Entered, ExecErrors
  <2> QED BY <2>2, <2>4, Zenon DEF QueueInv
<1> QED BY <1>1, <1>2, Zenon

LEMMA QueueHolds == Spec => []QueueInv
BY QueueInitially, QueuePreserved, PTL DEF Spec

\* The variables have their types, every queue of the worker is consistent and
\* txSortedList is the list of the ready txs, after any steps of loadFromPool, the
\* finalizer, the pipeline, the expiry loop and restarts (worker.go, addrqueue.go and
\* txsorted_list.go keep three structures that say the same).
THEOREM QueuesStayConsistent == Spec => []QueuesConsistent
<1>1. QueueInv => QueuesConsistent
  BY QueueInvIs, Zenon
<1> QED BY <1>1, QueueHolds, PTL

-----------------------------------------------------------------------------
(* The queues follow the executor.                                         *)

\* acc is an earlier state of an account that is now at `now': its nonce is not
\* higher and, as only the account's own txs lower it, at the same nonce its balance
\* is not higher either.
Behind(acc, now) ==
  acc.nonce <= now.nonce /\ (acc.nonce = now.nonce => acc.balance <= now.balance)

\* The stored state, those the blocks B of the pipeline end in and the executor's
\* come one after the other.
RootsOf(B, s, m) == \A a \in Addrs :
  /\ Behind(s[a], m[a])
  /\ \A i \in 1 .. Len(B) : /\ Behind(B[i].root[a], m[a])
                            /\ s[a].nonce <= B[i].root[a].nonce
                            /\ \A j \in i .. Len(B) : B[i].root[a].nonce <= B[j].root[a].nonce

\* No queue is ahead of its account, one about to be created included.
QueuesBehind ==
  /\ \A a \in found : Behind([nonce |-> queue[a].nonce, balance |-> queue[a].balance], im[a])
  /\ addPc = "install" => \A t \in addTx : Behind(addAcc, im[From[t]])

\* As long as no queue was dropped: an account without a queue has not moved since
\* the last stored state, and a queue has the executor's nonce but for the sender the
\* finalizer is about to update.
FollowInv == expiries = 0 =>
  /\ \A t \in finTx : From[t] \in found
  /\ \A a \in Addrs \ found : stored[a].nonce = im[a].nonce
  /\ addPc = "install" => \A t \in addTx : addAcc.nonce = im[From[t]].nonce
  /\ \A a \in found : queue[a].nonce = im[a].nonce \/ (finPc = "update" /\ \E t \in finTx : From[t] = a)

NonceInv == RootsOf(Blocks, stored, im) /\ QueuesBehind /\ FollowInv

LEMMA AccountNat ==
  ASSUME NEW acc \in [Addrs -> Account], NEW a \in Addrs
  PROVE  acc[a] \in Account /\ acc[a].nonce \in Nat /\ acc[a].balance \in Nat
BY Zenon DEF Account

LEMMA RootNat ==
  ASSUME NEW B \in Seq(L2Block), NEW i \in 1 .. Len(B), NEW a \in Addrs
  PROVE  /\ B[i].root \in [Addrs -> Account]
         /\ B[i].root[a].nonce \in Nat /\ B[i].root[a].balance \in Nat
<1>1. B[i] \in L2Block
  BY Elements, Zenon
<1>2. B[i].root \in [Addrs -> Account]
  BY <1>1, Zenon DEF L2Block
<1> QED BY <1>2, AccountNat, Zenon

\* NonceFollows is a part of it.
LEMMA NonceInvIs == ASSUME QueueInv, NonceInv PROVE NonceFollows
<1>1. ASSUME NEW a \in found PROVE queue[a].nonce <= im[a].nonce
  <2>1. Behind([nonce |-> queue[a].nonce, balance |-> queue[a].balance], im[a])
    BY Zenon DEF NonceInv, QueuesBehind
  <2> QED BY <2>1 DEF Behind
<1>2. finPc # "update" /\ expiries = 0 => \A a \in found : queue[a].nonce = im[a].nonce
  BY Zenon DEF NonceInv, FollowInv
<1> QED BY <1>1, <1>2, Zenon DEF NonceFollows

\* An account stays behind when its account moves on.
LEMMA BehindMoves ==
  ASSUME NEW acc, NEW now \in Account, NEW next \in Account, acc.nonce \in Nat, acc.balance \in Nat,
         Behind(acc, now),
         next.nonce = now.nonce + 1 \/ (next.nonce = now.nonce /\ next.balance >= now.balance)
  PROVE  Behind(acc, next)
<1>1. now.nonce \in Nat /\ now.balance \in Nat /\ next.nonce \in Nat /\ next.balance \in Nat
  BY Zenon DEF Account
<1> QED BY <1>1 DEF Behind

\* The executor moves on.
LEMMA RootsMove ==
  ASSUME NEW B \in Seq(L2Block), NEW s \in [Addrs -> Account], NEW m \in [Addrs -> Account],
         NEW n \in [Addrs -> Account], RootsOf(B, s, m),
         \A a \in Addrs : n[a].nonce = m[a].nonce + 1 \/ (n[a].nonce = m[a].nonce /\ n[a].balance >= m[a].balance)
  PROVE  RootsOf(B, s, n)
<1> SUFFICES ASSUME NEW a \in Addrs
             PROVE  /\ Behind(s[a], n[a])
                    /\ \A i \in 1 .. Len(B) : Behind(B[i].root[a], n[a])
  BY Zenon DEF RootsOf
<1>1. s[a].nonce \in Nat /\ s[a].balance \in Nat /\ m[a] \in Account /\ n[a] \in Account
  BY AccountNat, Zenon
<1>2. Behind(s[a], n[a])
  BY <1>1, BehindMoves, Zenon DEF RootsOf
<1>3. ASSUME NEW i \in 1 .. Len(B) PROVE Behind(B[i].root[a], n[a])
  <2>1. B[i].root[a].nonce \in Nat /\ B[i].root[a].balance \in Nat
    BY RootNat, Zenon
  <2> QED BY <1>1, <2>1, BehindMoves, Zenon DEF RootsOf
<1> QED BY <1>2, <1>3, Zenon

\* A block ends in the executor's state.
LEMMA RootsAppend ==
  ASSUME NEW B \in Seq(L2Block), NEW s \in [Addrs -> Account], NEW m \in [Addrs -> Account],
         RootsOf(B, s, m), NEW e \in L2Block, e.root = m
  PROVE  RootsOf(Append(B, e), s, m)
<1> DEFINE C == Append(B, e)
<1>1. /\ C \in Seq(L2Block) /\ Len(C) = Len(B) + 1 /\ C[Len(B) + 1] = e /\ Len(B) \in Nat
      /\ \A i \in 1 .. Len(B) : C[i] = B[i]
  OBVIOUS
<1> HIDE DEF C
<1> SUFFICES ASSUME NEW a \in Addrs
             PROVE  /\ Behind(s[a], m[a])
                    /\ \A i \in 1 .. Len(C) : /\ Behind(C[i].root[a], m[a])
                            /\ s[a].nonce <= C[i].root[a].nonce
                            /\ \A j \in i .. Len(C) : C[i].root[a].nonce <= C[j].root[a].nonce
  BY Zenon DEF RootsOf, C
<1>2. /\ s[a].nonce \in Nat /\ s[a].balance \in Nat /\ m[a].nonce \in Nat /\ m[a].balance \in Nat
  BY AccountNat, Zenon
<1>3. Behind(s[a], m[a])
  BY Zenon DEF RootsOf
<1>4. ASSUME NEW i \in 1 .. Len(C)
      PROVE  /\ Behind(C[i].root[a], m[a])
             /\ s[a].nonce <= C[i].root[a].nonce
             /\ \A j \in i .. Len(C) : C[i].root[a].nonce <= C[j].root[a].nonce
  <2>1. CASE i = Len(B) + 1
    <3>1. C[i].root = m
      BY <1>1, <2>1, Zenon
    <3>2. Behind(m[a], m[a]) /\ s[a].nonce <= m[a].nonce /\ m[a].nonce <= m[a].nonce
      BY <1>2, <1>3 DEF Behind
    <3>3. \A j \in i .. Len(C) : j = i
      BY <1>1, <2>1
    <3> QED BY <3>1, <3>2, <3>3, Zenon
  <2>2. CASE i # Len(B) + 1
    <3>1. i \in 1 .. Len(B) /\ C[i] = B[i]
      BY <1>1, <2>2
    <3>2. /\ Behind(B[i].root[a], m[a]) /\ s[a].nonce <= B[i].root[a].nonce
          /\ \A j \in i .. Len(B) : B[i].root[a].nonce <= B[j].root[a].nonce
      BY <3>1, Zenon DEF RootsOf
    <3>3. ASSUME NEW j \in i .. Len(C) PROVE C[i].root[a].nonce <= C[j].root[a].nonce
      <4>1. CASE j = Len(B) + 1
        <5>1. B[i].root[a].nonce <= m[a].nonce
          BY <3>2, Zenon DEF Behind
        <5> QED BY <1>1, <3>1, <4>1, <5>1, Zenon
      <4>2. CASE j # Len(B) + 1
        <5>1. j \in i .. Len(B) /\ j \in 1 .. Len(B)
          BY <1>1, <4>2
        <5> QED BY <1>1, <3>1, <3>2, <5>1, Zenon
      <4> QED BY <4>1, <4>2, Zenon
    <3> QED BY <3>1, <3>2, <3>3, Zenon
  <2> QED BY <2>1, <2>2, Zenon
<1> QED BY <1>3, <1>4, Zenon

\* The state of the first block is stored.
LEMMA RootsStore ==
  ASSUME NEW B \in Seq(L2Block), NEW s \in [Addrs -> Account], NEW m \in [Addrs -> Account],
         RootsOf(B, s, m), 1 \in 1 .. Len(B)
  PROVE  /\ RootsOf(B, B[1].root, m)
         /\ \A a \in Addrs : s[a].nonce <= B[1].root[a].nonce /\ B[1].root[a].nonce <= m[a].nonce
<1>1. Len(B) \in Nat
  OBVIOUS
<1>2. \A i \in 1 .. Len(B) : i \in 1 .. Len(B)
  OBVIOUS
<1>3. \A a \in Addrs : \A i \in 1 .. Len(B) : B[1].root[a].nonce <= B[i].root[a].nonce
  BY Zenon DEF RootsOf
<1> QED BY <1>3, Zenon DEF RootsOf, Behind

\* The first block leaves.
LEMMA RootsDrop ==
  ASSUME NEW B \in Seq(L2Block), NEW C \in Seq(L2Block), NEW s, NEW m, RootsOf(B, s, m),
         Len(B) \in Nat, Len(C) = Len(B) - 1, \A i \in 1 .. Len(B) - 1 : C[i] = B[i + 1]
  PROVE  RootsOf(C, s, m)
<1>1. \A i \in 1 .. Len(C) : i + 1 \in 1 .. Len(B) /\ C[i] = B[i + 1]
  OBVIOUS
<1>2. ASSUME NEW i \in 1 .. Len(C), NEW j \in i .. Len(C)
      PROVE  j \in 1 .. Len(C) /\ j + 1 \in i + 1 .. Len(B)
  OBVIOUS
<1> SUFFICES ASSUME NEW a \in Addrs
             PROVE  /\ Behind(s[a], m[a])
                    /\ \A i \in 1 .. Len(C) : /\ Behind(C[i].root[a], m[a])
                            /\ s[a].nonce <= C[i].root[a].nonce
                            /\ \A j \in i .. Len(C) : C[i].root[a].nonce <= C[j].root[a].nonce
  BY Zenon DEF RootsOf
<1>3. ASSUME NEW i \in 1 .. Len(C)
      PROVE  /\ Behind(C[i].root[a], m[a])
             /\ s[a].nonce <= C[i].root[a].nonce
             /\ \A j \in i .. Len(C) : C[i].root[a].nonce <= C[j].root[a].nonce
  <2>1. /\ Behind(B[i + 1].root[a], m[a]) /\ s[a].nonce <= B[i + 1].root[a].nonce
        /\ \A j \in i + 1 .. Len(B) : B[i + 1].root[a].nonce <= B[j].root[a].nonce
    BY <1>1, Zenon DEF RootsOf
  <2> QED BY <1>1, <1>2, <2>1, Zenon
<1> QED BY <1>3, Zenon DEF RootsOf

\* AddTxTracker: what it does to the worker.
LEMMA AddStep ==
  ASSUME QueueInv, NEW t \in Txs, AddTxTracker(t)
  PROVE  /\ found' = found
         /\ \A b \in Addrs : queue'[b].nonce = queue[b].nonce /\ queue'[b].balance = queue[b].balance
         /\ \A u \in InWorker' : u \in InWorker \/ u = t
         /\ \A u \in InWorker : u \in InWorker' \/ (From[u] = From[t] /\ Nonce[u] = Nonce[t])
         /\ \/ addPc' \in {"dropped", "read"} /\ addRep' = addRep /\ InWorker' = InWorker
            \/ /\ addPc' = "added" /\ t \in InWorker'
               /\ \A u \in addRep' : u # t /\ u \in InWorker /\ From[u] = From[t] /\ Nonce[u] = Nonce[t]
<1>1. Agree(queue, sorted, found) /\ InWorker = HeldIn(queue, found) /\ InWorker' = HeldIn(queue', found')
  BY InWorkerIs, Zenon DEF QueueInv, WorkerInv
<1>2. CASE addPc' \in {"dropped", "read"} /\ UNCHANGED <<found, queue, sorted, addRep>>
  BY <1>1, <1>2, Zenon
<1>3. CASE From[t] \in found /\ Enqueue(t, queue[From[t]]) /\ found' = found
  <2> DEFINE r == queue[From[t]]
  <2>1. From[t] \in Addrs /\ r \in AddrQueue /\ Consistent(r, From[t])
    BY <1>1, <1>3, Constants, Zenon DEF Agree
  <2>2. found' = found \cup {From[t]}
    BY <1>3, Zenon
  <2> HIDE DEF r
  <2>3. From[t] \in found => r = queue[From[t]]
    BY Zenon DEF r
  <2>4. From[t] \notin found => Held(r) = {}
    BY <1>3, Zenon
  <2>5. Enqueue(t, r)
    BY <1>3, Zenon DEF r
  <2>6. /\ \A b \in Addrs : b # From[t] => queue'[b] = queue[b]
        /\ queue'[From[t]].nonce = r.nonce /\ queue'[From[t]].balance = r.balance
        /\ \A u \in HeldIn(queue', found') : u \in HeldIn(queue, found) \/ u = t
        /\ \A u \in HeldIn(queue, found) :
             u \in HeldIn(queue', found') \/ (From[u] = From[t] /\ Nonce[u] = Nonce[t])
        /\ \/ addPc' = "dropped" /\ addRep' = addRep /\ HeldIn(queue', found') = HeldIn(queue, found)
           \/ /\ addPc' = "added" /\ t \in HeldIn(queue', found')
              /\ \A u \in addRep' :
                   u # t /\ u \in HeldIn(queue, found) /\ From[u] = From[t] /\ Nonce[u] = Nonce[t]
    BY <1>1, <2>1, <2>2, <2>3, <2>4, <2>5, EnqueueIs, Zenon
  <2>7. \A b \in Addrs : queue'[b].nonce = queue[b].nonce /\ queue'[b].balance = queue[b].balance
    BY <2>6, Zenon DEF r
  <2> QED BY <1>1, <1>3, <2>6, <2>7, Zenon
<1> QED BY <1>2, <1>3, Zenon DEF AddTxTracker, workerVars

\* InstallQueue: the new queue starts from addAcc.
LEMMA InstallStep ==
  ASSUME QueueInv, InstallQueue
  PROVE  \E t \in addTx :
           /\ t \in Txs /\ From[t] \in Addrs /\ From[t] \notin found /\ found' = found \cup {From[t]}
           /\ \A b \in Addrs : b # From[t] => queue'[b] = queue[b]
           /\ queue'[From[t]].nonce = addAcc.nonce /\ queue'[From[t]].balance = addAcc.balance
           /\ InWorker \subseteq InWorker'
           /\ \A u \in InWorker' : u \in InWorker \/ u = t
           /\ \/ addPc' = "dropped" /\ addRep' = addRep
              \/ addPc' = "added" /\ t \in InWorker' /\ addRep' = {}
<1>1. PICK t \in addTx : found' = found \cup {From[t]} /\ Enqueue(t, NewAddrQueue(addAcc))
  BY Zenon DEF InstallQueue
<1>2. addPc = "install" /\ Types /\ WorkerInv /\ LocalInv
  BY Zenon DEF InstallQueue, QueueInv
<1>3. Agree(queue, sorted, found) /\ InWorker = HeldIn(queue, found) /\ InWorker' = HeldIn(queue', found')
  BY <1>2, InWorkerIs, Zenon DEF WorkerInv
<1>4. t \in Txs /\ From[t] \in Addrs /\ addAcc \in Account
  BY <1>2, Constants, Zenon DEF Types, AddType
<1>5. From[t] \notin found
  BY <1>2, Zenon DEF LocalInv
<1> DEFINE r == NewAddrQueue(addAcc)
<1>6. /\ r \in AddrQueue /\ Held(r) = {} /\ Consistent(r, From[t])
      /\ r.nonce = addAcc.nonce /\ r.balance = addAcc.balance
  BY <1>4, NewQueueIs, Zenon
<1>7. Enqueue(t, r)
  BY <1>1, Zenon
<1> HIDE DEF r
<1>8. From[t] \in found => r = queue[From[t]]
  BY <1>5, Zenon
<1>9. /\ \A b \in Addrs : b # From[t] => queue'[b] = queue[b]
      /\ queue'[From[t]].nonce = r.nonce /\ queue'[From[t]].balance = r.balance
      /\ \A u \in HeldIn(queue', found') : u \in HeldIn(queue, found) \/ u = t
      /\ \A u \in HeldIn(queue, found) :
           u \in HeldIn(queue', found') \/ (From[u] = From[t] /\ Nonce[u] = Nonce[t])
      /\ \/ addPc' = "dropped" /\ addRep' = addRep /\ HeldIn(queue', found') = HeldIn(queue, found)
         \/ /\ addPc' = "added" /\ t \in HeldIn(queue', found')
            /\ \A u \in addRep' :
                 u # t /\ u \in HeldIn(queue, found) /\ From[u] = From[t] /\ Nonce[u] = Nonce[t]
  BY <1>1, <1>3, <1>4, <1>6, <1>7, <1>8, EnqueueIs, Zenon
<1>10. \A u \in InWorker : From[u] # From[t]
  BY <1>3, <1>5, HeldInIs, Zenon
<1>11. \/ addPc' = "dropped" /\ addRep' = addRep
       \/ addPc' = "added" /\ t \in InWorker' /\ addRep' = {}
  BY <1>3, <1>9, <1>10, Zenon
<1> QED BY <1>1, <1>3, <1>4, <1>5, <1>6, <1>9, <1>10, <1>11, Zenon

\* A step that leaves the executor's accounts and the nonces of the queues alone.
LEMMA QuietNonce ==
  ASSUME QueueInv, NonceInv, RootsOf(Blocks', stored', im'), im' = im, found' = found, expiries' = expiries,
         \A a \in Addrs : stored[a].nonce = im[a].nonce => stored'[a].nonce = im[a].nonce,
         \A a \in found : queue'[a].nonce = queue[a].nonce /\ queue'[a].balance = queue[a].balance,
         addPc' = "install" => addPc = "install" /\ addTx' = addTx /\ addAcc' = addAcc,
         \/ finPc' = finPc /\ finTx' = finTx
         \/ finPc # "update" /\ \A t \in finTx' : From[t] \in found
  PROVE  NonceInv'
<1>1. QueuesBehind'
  BY Zenon DEF NonceInv, QueuesBehind
<1>2. FollowInv'
  BY Zenon DEF NonceInv, FollowInv
<1> QED BY <1>1, <1>2, Zenon DEF NonceInv

LEMMA ReadAccountNonce ==
  ASSUME QueueInv, NonceInv, ReadAccount
  PROVE  NonceInv'
<1>1. UNCHANGED <<found, queue, im, stored, addTx, finPc, finTx, toProcess, toStore, expiries>>
  BY Zenon DEF ReadAccount, workerVars, dbVars, finVars, blockVars, boundVars
<1>2. RootsOf(Blocks', stored', im')
  BY <1>1, Zenon DEF NonceInv, Blocks
<1>3. CASE addPc' = "dropped"
  BY <1>1, <1>2, <1>3, QuietNonce, Zenon
<1>4. CASE addPc' = "install" /\ \E t \in addTx : addAcc' = stored[From[t]]
  <2>1. PICK t \in addTx : addAcc' = stored[From[t]]
    BY <1>4, Zenon
  <2>2. (\A u \in addTx : u = t) /\ From[t] \notin found /\ From[t] \in Addrs
    <3>1. LocalInv /\ t \in Txs /\ addPc = "read"
      BY Zenon DEF QueueInv, Types, AddType, ReadAccount
    <3> QED BY <3>1, Constants, Zenon DEF LocalInv
  <2>3. Behind(stored[From[t]], im[From[t]])
    BY <2>2, Zenon DEF NonceInv, RootsOf
  <2>4. QueuesBehind'
    BY <1>1, <2>1, <2>2, <2>3, Zenon DEF NonceInv, QueuesBehind
  <2>5. FollowInv'
    BY <1>1, <2>1, <2>2, Zenon DEF NonceInv, FollowInv
  <2> QED BY <1>2, <2>4, <2>5, Zenon DEF NonceInv
<1> QED BY <1>3, <1>4, Zenon DEF ReadAccount

LEMMA InstallQueueNonce ==
  ASSUME QueueInv, NonceInv, InstallQueue
  PROVE  NonceInv'
<1>1. /\ UNCHANGED <<im, stored, addTx, addAcc, finPc, finTx, toProcess, toStore, expiries>>
      /\ addPc = "install"
  BY Zenon DEF InstallQueue, dbVars, finVars, blockVars, boundVars
<1>2. RootsOf(Blocks', stored', im')
  BY <1>1, Zenon DEF NonceInv, Blocks
<1>3. PICK t \in addTx :
           /\ t \in Txs /\ From[t] \in Addrs /\ From[t] \notin found /\ found' = found \cup {From[t]}
           /\ \A b \in Addrs : b # From[t] => queue'[b] = queue[b]
           /\ queue'[From[t]].nonce = addAcc.nonce /\ queue'[From[t]].balance = addAcc.balance
           /\ addPc' # "install"
  <2>1. \A x : x = "dropped" \/ x = "added" => x # "install"
    OBVIOUS
  <2> QED BY <2>1, InstallStep, Zenon
<1>4. found \subseteq Addrs
  BY Zenon DEF QueueInv, WorkerInv, Agree
<1>5. Behind(addAcc, im[From[t]]) /\ (expiries = 0 => addAcc.nonce = im[From[t]].nonce)
  BY <1>1, Zenon DEF NonceInv, QueuesBehind, FollowInv
<1>6. Behind([nonce |-> addAcc.nonce, balance |-> addAcc.balance], im[From[t]])
  BY <1>5 DEF Behind
<1>7. \A a \in found' : Behind([nonce |-> queue'[a].nonce, balance |-> queue'[a].balance], im[a])
  <2>1. \A a \in found : queue'[a] = queue[a]
    BY <1>3, <1>4, Zenon
  <2>2. \A a \in found : Behind([nonce |-> queue[a].nonce, balance |-> queue[a].balance], im[a])
    BY Zenon DEF NonceInv, QueuesBehind
  <2> QED BY <1>3, <1>6, <2>1, <2>2, Zenon
<1>8. QueuesBehind'
  BY <1>1, <1>3, <1>7, Zenon DEF QueuesBehind
<1>9. FollowInv'
  BY <1>1, <1>3, <1>4, <1>5, Zenon DEF NonceInv, FollowInv
<1> QED BY <1>2, <1>8, <1>9, Zenon DEF NonceInv

\* How a successful execution of t moves the accounts.
LEMMA SuccessMoves ==
  ASSUME QueueInv, NEW t \in finTx, Executable(t), im' = Executed(im, t)
  PROVE  /\ t \in Txs /\ From[t] \in Addrs /\ im \in [Addrs -> Account] /\ im' \in [Addrs -> Account]
         /\ im'[From[t]].nonce = im[From[t]].nonce + 1
         /\ \A a \in Addrs : a # From[t] => im'[a].nonce = im[a].nonce /\ im'[a].balance >= im[a].balance
         /\ \A a \in Addrs : \/ im'[a].nonce = im[a].nonce + 1
                             \/ im'[a].nonce = im[a].nonce /\ im'[a].balance >= im[a].balance
<1>1. t \in Txs /\ From[t] \in Addrs /\ im \in [Addrs -> Account] /\ Cost[t] <= im[From[t]].balance
  BY Constants, Zenon DEF QueueInv, Types, FinType, StateType, Executable
<1>2. /\ im' \in [Addrs -> Account]
      /\ im'[From[t]].nonce = im[From[t]].nonce + 1
      /\ \A a \in Addrs : a # From[t] => im'[a].nonce = im[a].nonce /\ im'[a].balance >= im[a].balance
  BY <1>1, ExecutedIs, Zenon
<1> QED BY <1>1, <1>2, Zenon

LEMMA ProcessSuccessNonce ==
  ASSUME QueueInv, NonceInv, ProcessSuccess
  PROVE  NonceInv'
<1>1. PICK t \in finTx : /\ Executable(t) /\ im' = Executed(im, t)
                         /\ Becomes(WorkerDeleteTx(Current, t))
  BY Zenon DEF ProcessSuccess
<1>2. /\ finPc = "process" /\ finPc' = "update"
      /\ UNCHANGED <<found, stored, addPc, addTx, addAcc, finTx, toProcess, toStore, expiries>>
  BY Zenon DEF ProcessSuccess, dbVars, addVars, boundVars
<1>3. /\ t \in Txs /\ From[t] \in Addrs /\ im \in [Addrs -> Account] /\ im' \in [Addrs -> Account]
      /\ \A a \in Addrs : a # From[t] => im'[a].nonce = im[a].nonce /\ im'[a].balance >= im[a].balance
      /\ \A a \in Addrs : \/ im'[a].nonce = im[a].nonce + 1
                          \/ im'[a].nonce = im[a].nonce /\ im'[a].balance >= im[a].balance
  BY <1>1, SuccessMoves, Zenon
<1>4. /\ Agree(queue, sorted, found) /\ queue \in [Addrs -> AddrQueue] /\ found \subseteq Addrs
      /\ addTx \subseteq Txs /\ addAcc \in Account /\ stored \in [Addrs -> Account] /\ Blocks \in Seq(L2Block)
  BY Concatenation, Zenon DEF QueueInv, WorkerInv, Agree, Types, AddType, StateType, BlockType, Blocks
<1>5. \A b \in Addrs : queue'[b].nonce = queue[b].nonce /\ queue'[b].balance = queue[b].balance
  BY <1>1, <1>3, <1>4, DeleteStep, Zenon
<1>6. RootsOf(Blocks', stored', im')
  <2>1. RootsOf(Blocks, stored, im')
    BY <1>3, <1>4, RootsMove, Zenon DEF NonceInv
  <2> QED BY <1>2, <2>1, Zenon DEF Blocks
<1>7. \A a \in Addrs : im[a] \in Account /\ im'[a] \in Account
  BY <1>3, Zenon
<1>8. ASSUME NEW a \in found
      PROVE  Behind([nonce |-> queue'[a].nonce, balance |-> queue'[a].balance], im'[a])
  <2> DEFINE acc == [nonce |-> queue[a].nonce, balance |-> queue[a].balance]
  <2>1. acc = [nonce |-> queue'[a].nonce, balance |-> queue'[a].balance]
    BY <1>4, <1>5, Zenon
  <2>2. Behind(acc, im[a])
    BY Zenon DEF NonceInv, QueuesBehind
  <2>3. queue[a].nonce \in Nat /\ queue[a].balance \in Nat
    BY <1>4, Fields, Zenon
  <2>4. acc.nonce \in Nat /\ acc.balance \in Nat
    BY <2>3
  <2> HIDE DEF acc
  <2>5. Behind(acc, im'[a])
    BY <1>3, <1>4, <1>7, <2>2, <2>4, BehindMoves, Zenon
  <2> QED BY <2>1, <2>5, Zenon
<1>9. ASSUME addPc = "install", NEW u \in addTx
      PROVE  Behind(addAcc, im'[From[u]])
  <2>1. From[u] \in Addrs /\ Behind(addAcc, im[From[u]])
    BY <1>4, <1>9, Constants, Zenon DEF NonceInv, QueuesBehind
  <2>2. addAcc.nonce \in Nat /\ addAcc.balance \in Nat
    BY <1>4, Zenon DEF Account
  <2> QED BY <1>3, <1>7, <2>1, <2>2, BehindMoves, Zenon
<1>10. QueuesBehind'
  BY <1>2, <1>8, <1>9, Zenon DEF QueuesBehind
<1>11. FollowInv'
  <2> SUFFICES ASSUME expiries = 0
               PROVE  /\ \A u \in finTx : From[u] \in found
                      /\ \A a \in Addrs \ found : stored[a].nonce = im'[a].nonce
                      /\ addPc = "install" => \A u \in addTx : addAcc.nonce = im'[From[u]].nonce
                      /\ \A a \in found : queue'[a].nonce = im'[a].nonce \/ From[t] = a
    BY <1>2, Zenon DEF FollowInv
  <2>1. /\ \A u \in finTx : From[u] \in found
        /\ \A a \in Addrs \ found : stored[a].nonce = im[a].nonce
        /\ addPc = "install" => \A u \in addTx : addAcc.nonce = im[From[u]].nonce
        /\ \A a \in found : queue[a].nonce = im[a].nonce
    BY <1>2, Zenon DEF NonceInv, FollowInv
  <2>2. addPc = "install" => \A u \in addTx : From[u] \notin found /\ From[u] \in Addrs
    BY <1>4, Constants, Zenon DEF QueueInv, LocalInv
  <2> QED BY <1>3, <1>4, <1>5, <2>1, <2>2, Zenon
<1> QED BY <1>6, <1>10, <1>11, Zenon DEF NonceInv

LEMMA UpdateNonce ==
  ASSUME QueueInv, NonceInv, UpdateAfterSuccess \/ ProcessIntrinsicError
  PROVE  NonceInv'
<1>1. PICK t \in finTx : From[t] \in Addrs /\ Refreshed(From[t])
  BY RefreshSteps, Zenon
<1>2. /\ finPc' = "idle" /\ finTx' = {}
      /\ UNCHANGED <<found, im, stored, addPc, addTx, addAcc, toProcess, toStore, expiries>>
  BY RefreshSteps, Zenon
<1>3. queue \in [Addrs -> AddrQueue] /\ found \subseteq Addrs /\ im \in [Addrs -> Account]
  BY Zenon DEF QueueInv, WorkerInv, Agree, Types, StateType
<1>4. RootsOf(Blocks', stored', im')
  BY <1>2, Zenon DEF NonceInv, Blocks
<1>5. ASSUME NEW a \in found
      PROVE  Behind([nonce |-> queue'[a].nonce, balance |-> queue'[a].balance], im[a])
  <2>1. /\ im[a].nonce \in Nat /\ im[a].balance \in Nat
        /\ queue[a].nonce \in Nat /\ queue[a].balance \in Nat
    BY <1>3, AccountNat, Fields, Zenon
  <2>2. CASE a = From[t]
    <3>1. queue'[a].nonce = im[a].nonce /\ queue'[a].balance = im[a].balance
      BY <1>1, <2>2, Zenon DEF Refreshed
    <3> QED BY <2>1, <3>1 DEF Behind
  <2>3. CASE a # From[t]
    <3>1. queue'[a].nonce = queue[a].nonce /\ queue'[a].balance \in {queue[a].balance, im[a].balance}
      BY <1>1, <1>3, <2>3, Zenon DEF Refreshed
    <3>2. Behind([nonce |-> queue[a].nonce, balance |-> queue[a].balance], im[a])
      BY Zenon DEF NonceInv, QueuesBehind
    <3> QED BY <2>1, <3>1, <3>2 DEF Behind
  <2> QED BY <2>2, <2>3, Zenon
<1>6. QueuesBehind'
  BY <1>2, <1>5, Zenon DEF NonceInv, QueuesBehind
<1>7. \A u \in finTx : u = t
  BY Zenon DEF QueueInv, LocalInv
<1>8. FollowInv'
  <2> SUFFICES ASSUME expiries = 0
               PROVE  /\ \A a \in Addrs \ found : stored[a].nonce = im[a].nonce
                      /\ addPc = "install" => \A u \in addTx : addAcc.nonce = im[From[u]].nonce
                      /\ \A a \in found : queue'[a].nonce = im[a].nonce
    BY <1>2, Zenon DEF FollowInv
  <2>1. /\ \A a \in Addrs \ found : stored[a].nonce = im[a].nonce
        /\ addPc = "install" => \A u \in addTx : addAcc.nonce = im[From[u]].nonce
        /\ \A a \in found : a # From[t] => queue[a].nonce = im[a].nonce
    BY <1>7, Zenon DEF NonceInv, FollowInv
  <2> QED BY <1>1, <1>3, <2>1, Zenon DEF Refreshed
<1> QED BY <1>4, <1>6, <1>8, Zenon DEF NonceInv

LEMMA ExpireNonce ==
  ASSUME QueueInv, NonceInv, ExpireTransactions
  PROVE  NonceInv'
<1>1. /\ UNCHANGED <<im, stored, addPc, addTx, addAcc, toProcess, toStore>> /\ expiries' = expiries + 1
  BY Zenon DEF ExpireTransactions, dbVars, addVars, blockVars
<1>2. /\ found' \subseteq found
      /\ \A b \in Addrs : queue'[b].nonce = queue[b].nonce /\ queue'[b].balance = queue[b].balance
  BY ExpireIs, Zenon DEF QueueInv, WorkerInv
<1>3. RootsOf(Blocks', stored', im')
  BY <1>1, Zenon DEF NonceInv, Blocks
<1>4. found \subseteq Addrs /\ MaxExpiries \in Nat /\ expiries \in 0 .. MaxExpiries
  BY Constants, Zenon DEF QueueInv, WorkerInv, Agree, Types, BoundType, MaxExpiries
<1>5. expiries' # 0
  BY <1>1, <1>4
<1>6. \A a \in found' : Behind([nonce |-> queue'[a].nonce, balance |-> queue'[a].balance], im[a])
  <2>1. \A a \in found' : Behind([nonce |-> queue[a].nonce, balance |-> queue[a].balance], im[a])
    BY <1>2, Zenon DEF NonceInv, QueuesBehind
  <2> QED BY <1>2, <1>4, <2>1, Zenon
<1>7. QueuesBehind'
  BY <1>1, <1>6, Zenon DEF NonceInv, QueuesBehind
<1>8. FollowInv'
  BY <1>5, Zenon DEF FollowInv
<1> QED BY <1>3, <1>7, <1>8, Zenon DEF NonceInv

\* An empty pipeline.
LEMMA RootsEmpty ==
  ASSUME NEW s \in [Addrs -> Account]
  PROVE  RootsOf(<<>> \o <<>>, s, s)
<1>1. <<>> \o <<>> = <<>> /\ Len(<<>>) = 0 /\ 1 .. 0 = {}
  OBVIOUS
<1>2. ASSUME NEW a \in Addrs PROVE Behind(s[a], s[a])
  <2>1. s[a].nonce \in Nat /\ s[a].balance \in Nat
    BY AccountNat, Zenon
  <2> QED BY <2>1 DEF Behind
<1> QED BY <1>1, <1>2, Zenon DEF RootsOf

LEMMA RestartNonce ==
  ASSUME QueueInv, NonceInv, Restart
  PROVE  NonceInv'
<1>1. /\ found' = {} /\ im' = stored /\ stored' = stored /\ addPc' = "idle" /\ finTx' = {}
      /\ toProcess' = <<>> /\ toStore' = <<>> /\ stored \in [Addrs -> Account]
  BY Zenon DEF Restart, dbVars, QueueInv, Types, StateType
<1>2. RootsOf(Blocks', stored', im')
  BY <1>1, RootsEmpty, Zenon DEF Blocks
<1>3. QueuesBehind' /\ FollowInv'
  BY <1>1, Zenon DEF QueuesBehind, FollowInv
<1> QED BY <1>2, <1>3, Zenon DEF NonceInv

LEMMA NonceInitially == Init => NonceInv
<1> SUFFICES ASSUME Init
             PROVE  NonceInv
  OBVIOUS
<1>1. stored \in [Addrs -> Account]
  BY QueueInitially, Zenon DEF QueueInv, Types, StateType
<1>2. im = stored /\ found = {} /\ addPc = "idle" /\ finTx = {} /\ toProcess = <<>> /\ toStore = <<>>
  BY Zenon DEF Init
<1>3. RootsOf(Blocks, stored, im)
  BY <1>1, <1>2, RootsEmpty, Zenon DEF Blocks
<1>4. QueuesBehind /\ FollowInv
  BY <1>2, Zenon DEF QueuesBehind, FollowInv
<1> QED BY <1>3, <1>4, Zenon DEF NonceInv

\* loadFromPool but for its two steps above.
LEMMA LoadNonce ==
  ASSUME QueueInv, NonceInv,
         (\E t \in Txs : SubmitTx(t) \/ AddTxTracker(t)) \/ FailDropped \/ FailReplaced \/ MarkWIP \/ FailExpired
  PROVE  NonceInv'
<1>1. UNCHANGED <<found, im, stored, finPc, finTx, toProcess, toStore, expiries>>
  <2>1. CASE \E t \in Txs : SubmitTx(t)
    BY <2>1, Zenon DEF SubmitTx, workerVars, dbVars, finVars, blockVars, boundVars
  <2>2. CASE \E t \in Txs : AddTxTracker(t)
    BY <2>2, AddStep, Zenon DEF AddTxTracker, dbVars, finVars, blockVars, boundVars
  <2>3. CASE FailDropped \/ FailReplaced \/ MarkWIP \/ FailExpired
    BY <2>3, Zenon DEF FailDropped, FailReplaced, MarkWIP, FailExpired, workerVars, dbVars, finVars, blockVars, boundVars
  <2> QED BY <2>1, <2>2, <2>3, Zenon
<1>2. \A a \in found : queue'[a].nonce = queue[a].nonce /\ queue'[a].balance = queue[a].balance
  <2>1. CASE \E t \in Txs : AddTxTracker(t)
    <3>1. found \subseteq Addrs
      BY Zenon DEF QueueInv, WorkerInv, Agree
    <3> QED BY <2>1, <3>1, AddStep, Zenon
  <2>2. CASE (\E t \in Txs : SubmitTx(t)) \/ FailDropped \/ FailReplaced \/ MarkWIP \/ FailExpired
    <3>1. queue' = queue
      BY <2>2, Zenon DEF SubmitTx, FailDropped, FailReplaced, MarkWIP, FailExpired, workerVars
    <3> QED BY <3>1, Zenon
  <2> QED BY <2>1, <2>2, Zenon
<1>3. addPc' = "install" => addPc = "install" /\ addTx' = addTx /\ addAcc' = addAcc
  <2>1. ASSUME NEW t \in Txs, AddTxTracker(t) PROVE addPc' # "install"
    <3>1. addPc' = "dropped" \/ addPc' = "read" \/ addPc' = "added"
      BY <2>1, AddStep, Zenon
    <3> QED BY <3>1
  <2>2. ASSUME FailDropped \/ FailReplaced \/ MarkWIP PROVE addPc' # "install"
    <3>1. addPc' = "idle" \/ addPc' = "mark"
      BY <2>2, Zenon DEF FailDropped, FailReplaced, MarkWIP
    <3> QED BY <3>1
  <2>3. ASSUME (\E t \in Txs : SubmitTx(t)) \/ FailExpired PROVE addPc' = addPc /\ addTx' = addTx /\ addAcc' = addAcc
    BY <2>3, Zenon DEF SubmitTx, FailExpired, addVars
  <2> QED BY <2>1, <2>2, <2>3, Zenon
<1>4. RootsOf(Blocks', stored', im')
  BY <1>1, Zenon DEF NonceInv, Blocks
<1> QED BY <1>1, <1>2, <1>3, <1>4, QuietNonce, Zenon

LEMMA FinalizerNonce ==
  ASSUME QueueInv, NonceInv, GetBestFittingTx \/ ProcessOtherError \/ ProcessAgain, deployment' = deployment
  PROVE  NonceInv'
<1>1. UNCHANGED <<found, im, stored, addPc, addTx, addAcc, toProcess, toStore, expiries>> /\ finPc # "update"
  <2>1. UNCHANGED <<found, im, stored, addPc, addTx, addAcc, toProcess, toStore, expiries>>
    BY Zenon DEF GetBestFittingTx, ProcessOtherError, ProcessAgain, workerVars, dbVars, addVars, blockVars, boundVars
  <2>2. finPc = "idle" \/ finPc = "process"
    BY Zenon DEF GetBestFittingTx, ProcessOtherError, ProcessAgain
  <2>3. finPc # "update"
    BY <2>2
  <2> QED BY <2>1, <2>3, Zenon
<1>2. found \subseteq Addrs /\ Agree(queue, sorted, found)
  BY Zenon DEF QueueInv, WorkerInv, Agree
<1>3. \A t \in finTx' : From[t] \in found
  <2>1. CASE GetBestFittingTx
    BY <1>2, <2>1, GetBestFittingTxKeeps, InWorkerIs, HeldInIs, Zenon
  <2>2. CASE ProcessOtherError \/ ProcessAgain
    BY <2>2, Zenon DEF ProcessOtherError, ProcessAgain
  <2> QED BY <2>1, <2>2, Zenon
<1>4. \A a \in found : queue'[a].nonce = queue[a].nonce /\ queue'[a].balance = queue[a].balance
  <2>1. CASE GetBestFittingTx \/ ProcessAgain
    BY <2>1, Zenon DEF GetBestFittingTx, ProcessAgain, workerVars
  <2>2. CASE ProcessOtherError
    <3>1. PICK t \in finTx : Becomes(WorkerDeleteTx(Current, t))
      BY <2>2, Zenon DEF ProcessOtherError
    <3>2. t \in Txs
      BY Zenon DEF QueueInv, Types, FinType
    <3> QED BY <1>2, <3>1, <3>2, DeleteStep, Zenon
  <2> QED BY <2>1, <2>2, Zenon
<1>5. RootsOf(Blocks', stored', im')
  BY <1>1, Zenon DEF NonceInv, Blocks
<1> QED BY <1>1, <1>3, <1>4, <1>5, QuietNonce, Zenon

LEMMA PipelineNonce ==
  ASSUME QueueInv, NonceInv, CloseL2Block \/ ProcessL2Block \/ StoreL2Block \/ SelectTxs
  PROVE  NonceInv'
<1>1. UNCHANGED <<found, im, addPc, addTx, addAcc, finPc, finTx, expiries>>
  BY Zenon DEF CloseL2Block, ProcessL2Block, StoreL2Block, SelectTxs, workerVars, addVars, finVars, boundVars
<1>2. /\ Types /\ Agree(queue, sorted, found) /\ found \subseteq Addrs
      /\ im \in [Addrs -> Account] /\ stored \in [Addrs -> Account] /\ Blocks \in Seq(L2Block)
      /\ toStore \in Seq(L2Block) /\ toProcess \in Seq(L2Block)
  BY Concatenation, Zenon DEF QueueInv, WorkerInv, Agree, Types, StateType, BlockType, Blocks
<1>3. \A a \in found : queue'[a].nonce = queue[a].nonce /\ queue'[a].balance = queue[a].balance
  <2>1. CASE CloseL2Block \/ StoreL2Block
    BY <2>1, Zenon DEF CloseL2Block, StoreL2Block, workerVars
  <2>2. CASE ProcessL2Block
    <3>1. queue' = WithPending(Range(Head(toProcess).txs), {}) /\ Range(Head(toProcess).txs) \in SUBSET Txs
      BY <1>2, <2>2, ProcessIs, Zenon DEF ProcessL2Block
    <3> QED BY <1>2, <3>1, PendingIs, Zenon
  <2>3. CASE SelectTxs
    <3>1. queue' = WithPending({}, Range(Head(toStore).txs)) /\ {} \in SUBSET Txs
      BY <2>3, Zenon DEF SelectTxs
    <3> QED BY <1>2, <3>1, PendingIs, Zenon
  <2> QED BY <2>1, <2>2, <2>3, Zenon
<1>4. RootsOf(Blocks, stored, im)
  BY Zenon DEF NonceInv
<1>5. /\ RootsOf(Blocks', stored', im')
      /\ \A a \in Addrs : stored[a].nonce = im[a].nonce => stored'[a].nonce = im[a].nonce
  <2>1. CASE CloseL2Block
    <3> DEFINE e == [txs |-> block, root |-> im]
    <3>1. e \in L2Block /\ Blocks' = Append(Blocks, e) /\ stored' = stored
      BY <1>2, <2>1, CloseIs, Zenon DEF CloseL2Block, dbVars
    <3>2. e.root = im
      OBVIOUS
    <3> HIDE DEF e
    <3>3. RootsOf(Append(Blocks, e), stored, im)
      BY <1>2, <1>4, <3>1, <3>2, RootsAppend, Zenon
    <3> QED BY <1>1, <3>1, <3>3, Zenon
  <2>2. CASE ProcessL2Block
    <3>1. Blocks' = Blocks /\ stored' = stored
      BY <1>2, <2>2, ProcessIs, Zenon DEF ProcessL2Block, dbVars
    <3> QED BY <1>1, <1>4, <3>1, Zenon
  <2>3. CASE StoreL2Block
    <3>1. toStore # <<>> /\ stored' = Head(toStore).root /\ Blocks' = Blocks
      BY <2>3, Zenon DEF StoreL2Block, Blocks
    <3>2. Len(Blocks) \in Nat \ {0} /\ Blocks[1] = Head(toStore)
      BY <1>2, <3>1, DropBlock DEF Blocks
    <3>3. 1 \in 1 .. Len(Blocks)
      BY <3>2
    <3>4. /\ RootsOf(Blocks, Blocks[1].root, im)
          /\ \A a \in Addrs : stored[a].nonce <= Blocks[1].root[a].nonce /\ Blocks[1].root[a].nonce <= im[a].nonce
      BY <1>2, <1>4, <3>3, RootsStore, Zenon
    <3>5. stored' = Blocks[1].root
      BY <3>1, <3>2, Zenon
    <3>6. ASSUME NEW a \in Addrs, stored[a].nonce = im[a].nonce PROVE stored'[a].nonce = im[a].nonce
      <4>1. im[a].nonce <= Blocks[1].root[a].nonce /\ Blocks[1].root[a].nonce <= im[a].nonce
        BY <3>4, <3>6, Zenon
      <4>2. im[a].nonce \in Nat /\ Blocks[1].root[a].nonce \in Nat
        BY <1>2, <3>3, AccountNat, RootNat, Zenon
      <4>3. Blocks[1].root[a].nonce = im[a].nonce
        BY <4>1, <4>2
      <4> QED BY <3>5, <4>3, Zenon
    <3> QED BY <1>1, <3>1, <3>4, <3>5, <3>6, Zenon
  <2>4. CASE SelectTxs
    <3>1. toStore # <<>> /\ stored' = stored
      BY <2>4, Zenon DEF SelectTxs, dbVars, QueueInv, LocalInv
    <3>2. /\ Blocks' \in Seq(L2Block) /\ Len(Blocks) \in Nat /\ Len(Blocks') = Len(Blocks) - 1
          /\ \A i \in 1 .. Len(Blocks) - 1 : Blocks'[i] = Blocks[i + 1]
      BY <1>2, <2>4, <3>1, SelectIs, Zenon
    <3>3. RootsOf(Blocks', stored, im)
      BY <1>2, <1>4, <3>2, RootsDrop, Zenon
    <3> QED BY <1>1, <3>1, <3>3, Zenon
  <2> QED BY <2>1, <2>2, <2>3, <2>4, Zenon
<1> QED BY <1>1, <1>3, <1>5, QuietNonce, Zenon

LEMMA NoncePreserved == QueueInv /\ NonceInv /\ [Next]_vars => NonceInv'
<1> SUFFICES ASSUME QueueInv, NonceInv, [Next]_vars
             PROVE  NonceInv'
  OBVIOUS
<1>1. CASE Next
  <2>1. deployment' = deployment /\ \A t \in deployment.txs : t \in Txs
    BY <1>1, Steps, Constants, Zenon DEF QueueInv, Types, BoundType
  <2>2. CASE \/ \E t \in deployment.txs : SubmitTx(t)
             \/ \E t \in Txs : AddTxTracker(t)
             \/ FailDropped \/ FailReplaced \/ MarkWIP \/ FailExpired
    BY <2>1, <2>2, LoadNonce, Zenon
  <2>3. CASE ReadAccount \/ InstallQueue
    BY <2>3, ReadAccountNonce, InstallQueueNonce, Zenon
  <2>4. CASE GetBestFittingTx \/ ProcessSuccess \/ UpdateAfterSuccess
             \/ ProcessIntrinsicError \/ ProcessOtherError \/ ProcessAgain
    BY <2>1, <2>4, FinalizerNonce, ProcessSuccessNonce, UpdateNonce, Zenon
  <2>5. CASE CloseL2Block \/ ProcessL2Block \/ StoreL2Block \/ SelectTxs
    BY <2>5, PipelineNonce, Zenon
  <2>6. CASE ExpireTransactions \/ Restart
    BY <2>6, ExpireNonce, RestartNonce, Zenon
  <2> QED BY <1>1, <2>2, <2>3, <2>4, <2>5, <2>6, Steps, Zenon
<1>2. CASE UNCHANGED vars
  <2>1. UNCHANGED <<found, queue, im, stored, addPc, addTx, addAcc, finPc, finTx, toProcess, toStore, expiries>>
    BY <1>2, Zenon DEF vars, sequencerVars, workerVars, dbVars, addVars, finVars, blockVars, boundVars
  <2> QED BY <2>1, Zenon DEF NonceInv, Blocks, QueuesBehind, FollowInv
<1> QED BY <1>1, <1>2, Zenon

LEMMA NonceHolds == Spec => []NonceInv
<1>1. Init /\ [][Next]_vars /\ []QueueInv => []NonceInv
  BY NonceInitially, NoncePreserved, PTL
<1> QED BY <1>1, QueueHolds, PTL DEF Spec

\* No queue runs ahead of the executor's nonce; and until the expiry loop drops a
\* queue, between the finalizer's steps every queue has exactly that nonce, although
\* loadFromPool creates it from the last stored state that it reads without
\* workerMutex (worker.go, AddTxTracker).
THEOREM QueuesFollow == Spec => []NonceFollows
<1>1. QueueInv /\ NonceInv => NonceFollows
  BY NonceInvIs, Zenon
<1> QED BY <1>1, QueueHolds, NonceHolds, PTL
=============================================================================
