--------------------------- MODULE StateSyncProofs ---------------------------
(***************************************************************************)
(* The executor has stored the state of every committed batch, for any     *)
(* trusted node, any L1 and any number of failures and restarts.  Nothing  *)
(* is assumed of the data the trusted node and the L1 give.                *)
(***************************************************************************)
EXTENDS StateSync, SequenceTheorems, WellFoundedInduction, TLAPS

-----------------------------------------------------------------------------
(* The shape of a database: its tables, the columns of a batch, and that   *)
(* every virtual batch has a row.                                          *)

IsSeq(q) == Len(q) \in Nat /\ q = [i \in 1 .. Len(q) |-> q[i]]
IsRow(r) ==
  r = [data |-> r.data, root |-> r.root, wip |-> r.wip, forced |-> r.forced, ler |-> r.ler]
IsDB(d) ==
  /\ d = [blocks |-> d.blocks, rows |-> d.rows, virtual |-> d.virtual,
          verified |-> d.verified, forced |-> d.forced, seqs |-> d.seqs]
  /\ IsSeq(d.rows)
  /\ \A b \in 1 .. Len(d.rows) : IsRow(d.rows[b])
  /\ DOMAIN d.virtual \subseteq 1 .. Len(d.rows)

Roots(d) == {d.rows[b].root : b \in 1 .. Len(d.rows)}

\* A sequence has the shape of one.
LEMMA SeqIsSeq ==
  ASSUME NEW S, NEW q \in Seq(S)
  PROVE  IsSeq(q)
BY DEF IsSeq

\* An appended element leaves the others alone.
LEMMA AppendSeq ==
  ASSUME NEW q, NEW x, IsSeq(q)
  PROVE  /\ IsSeq(Append(q, x)) /\ Len(Append(q, x)) = Len(q) + 1
         /\ Append(q, x)[Len(q) + 1] = x
         /\ \A i \in 1 .. Len(q) : Append(q, x)[i] = q[i]
<1> DEFINE S == {q[i] : i \in 1 .. Len(q)} \cup {x}
<1>1. q \in Seq(S)
  BY DEF IsSeq
<1>2. x \in S
  OBVIOUS
<1> HIDE DEF S
<1>3. Append(q, x) \in Seq(S) /\ Len(Append(q, x)) = Len(q) + 1
  BY <1>1, <1>2
<1>4. Append(q, x)[Len(q) + 1] = x /\ \A i \in 1 .. Len(q) : Append(q, x)[i] = q[i]
  BY <1>1, <1>2
<1>5. IsSeq(Append(q, x))
  BY <1>3, SeqIsSeq, Zenon
<1> QED BY <1>3, <1>4, <1>5, Zenon

\* A prefix has the first elements.
LEMMA PrefixSeq ==
  ASSUME NEW q, IsSeq(q), NEW n \in 0 .. Len(q)
  PROVE  /\ IsSeq(SubSeq(q, 1, n)) /\ Len(SubSeq(q, 1, n)) = n
         /\ \A i \in 1 .. n : SubSeq(q, 1, n)[i] = q[i]
<1> DEFINE S == {q[i] : i \in 1 .. Len(q)}
<1>1. q \in Seq(S)
  BY DEF IsSeq
<1> HIDE DEF S
<1> QED BY <1>1 DEF IsSeq

\* The greatest element of a bounded set of numbers is one of them.
LEMMA MaxOfBounded ==
  ASSUME NEW n \in Nat, NEW S, S \subseteq 0 .. n, S # {}
  PROVE  Max(S) \in S
<1> DEFINE T == {n - x : x \in S}
<1>1. T \subseteq Nat
  <2>1. \A x \in S : n - x \in Nat
    OBVIOUS
  <2> QED BY <2>1, Zenon
<1>0. T # {}
  BY Zenon
<1>2. PICK m \in T : \A y \in T : ~(<<y, m>> \in OpToRel(<, Nat))
  BY <1>0, <1>1, WFMin, NatLessThanWellFounded, Zenon
<1>3. \A y \in T : m <= y
  <2>1. \A y \in T : y \in Nat /\ m \in Nat /\ ~(y < m)
    BY <1>1, <1>2, Zenon DEF OpToRel
  <2> QED BY <2>1
<1>4. PICK x \in S : m = n - x
  OBVIOUS
<1>5. \A y \in S : x >= y
  BY <1>3, <1>4
<1> QED BY <1>5, Zenon DEF Max

-----------------------------------------------------------------------------
(* What the operations of the database keep.                               *)

\* e is a database with the batches of d.
SameRows(d, e) == IsDB(e) /\ e.rows = d.rows

\* The tables but the batches and the virtual batches do not matter.
LEMMA OtherTables ==
  ASSUME NEW d, IsDB(d), NEW x
  PROVE  /\ SameRows(d, [d EXCEPT !.blocks = x])
         /\ SameRows(d, [d EXCEPT !.verified = x])
         /\ SameRows(d, [d EXCEPT !.forced = x])
         /\ SameRows(d, [d EXCEPT !.seqs = x])
BY DEF IsDB, SameRows

\* The same batches have the same roots.
LEMMA SameRoots ==
  ASSUME NEW d, NEW e, SameRows(d, e)
  PROVE  Roots(e) = Roots(d) /\ IsDB(e) /\ Len(e.rows) = Len(d.rows)
BY Zenon DEF SameRows, Roots

\* AddVirtualBatch of a batch that has a row.
LEMMA AddVirtualBatchDB ==
  ASSUME NEW d, IsDB(d), NEW b \in 1 .. Len(d.rows), NEW n,
         AddVirtualBatch(d, b, n) # NoDB
  PROVE  SameRows(d, AddVirtualBatch(d, b, n))
<1> DEFINE v == Insert(d.virtual, b, n)
<1>1. DOMAIN v \subseteq 1 .. Len(d.rows)
  BY Zenon DEF IsDB, Insert
<1>2. AddVirtualBatch(d, b, n) = [d EXCEPT !.virtual = v]
  BY Zenon DEF AddVirtualBatch
<1> HIDE DEF v
<1> QED BY <1>1, <1>2, Zenon DEF IsDB, SameRows

\* Reset leaves the batches alone.
LEMMA ResetDB ==
  ASSUME NEW d, IsDB(d), NEW n, Reset(d, n) # NoDB
  PROVE  SameRows(d, Reset(d, n))
<1> DEFINE virtual == {b \in DOMAIN d.virtual : d.virtual[b] <= n}
           v == Restrict(d.virtual, virtual)
           bl == Restrict(d.blocks, {m \in DOMAIN d.blocks : m <= n})
           ve == Restrict(d.verified, {b \in DOMAIN d.verified \cap virtual : d.verified[b].block <= n})
           fo == Restrict(d.forced, {f \in DOMAIN d.forced : d.forced[f].block <= n})
<1>1. DOMAIN v \subseteq 1 .. Len(d.rows)
  BY Zenon DEF IsDB, Restrict
<1>2. Reset(d, n) = [d EXCEPT !.blocks = bl, !.virtual = v, !.verified = ve, !.forced = fo]
  BY Zenon DEF Reset
<1> HIDE DEF virtual, v, bl, ve, fo
<1> QED BY <1>1, <1>2, Zenon DEF IsDB, SameRows

\* ResetTrustedState keeps the first batches.
LEMMA ResetTrustedStateDB ==
  ASSUME NEW d, IsDB(d), NEW n \in 0 .. Len(d.rows)
  PROVE  LET e == ResetTrustedState(d, n)
         IN IsDB(e) /\ Roots(e) \subseteq Roots(d) /\ Len(e.rows) = n
<1> DEFINE e == ResetTrustedState(d, n)
           rows == SubSeq(d.rows, 1, n)
           v == Restrict(d.virtual, {b \in DOMAIN d.virtual : b <= n})
           ve == Restrict(d.verified, {b \in DOMAIN d.verified : b <= n})
           se == Restrict(d.seqs, {b \in DOMAIN d.seqs : b <= n /\ d.seqs[b] <= n})
<1>1. DOMAIN v \subseteq 1 .. n
  BY DEF IsDB, Restrict
<1>2. e = [d EXCEPT !.rows = rows, !.virtual = v, !.verified = ve, !.seqs = se]
  BY Zenon DEF ResetTrustedState
<1>3. IsSeq(rows) /\ Len(rows) = n /\ \A i \in 1 .. n : rows[i] = d.rows[i]
  BY PrefixSeq, Zenon DEF IsDB
<1> HIDE DEF e, rows, v, ve, se
<1>4. e = [blocks |-> d.blocks, rows |-> rows, virtual |-> v, verified |-> ve,
           forced |-> d.forced, seqs |-> se]
  BY <1>2, Zenon DEF IsDB
<1>5. n <= Len(d.rows) /\ Len(d.rows) \in Nat
  BY DEF IsDB, IsSeq
<1>6. IsDB(e)
  BY <1>1, <1>3, <1>4, <1>5 DEF IsDB
<1>7. Roots(e) \subseteq Roots(d)
  BY <1>3, <1>4, <1>5 DEF Roots
<1>8. Len(e.rows) = n
  BY <1>3, <1>4, Zenon
<1> QED BY <1>6, <1>7, <1>8, Zenon DEF e

\* A batch is appended.
LEMMA AppendRow ==
  ASSUME NEW d, IsDB(d), NEW r, IsRow(r)
  PROVE  LET e == [d EXCEPT !.rows = Append(@, r)]
         IN /\ IsDB(e) /\ Roots(e) = Roots(d) \cup {r.root}
            /\ Len(e.rows) = Len(d.rows) + 1 /\ e.rows[Len(d.rows) + 1] = r
<1> DEFINE rows == Append(d.rows, r)
           e == [d EXCEPT !.rows = Append(@, r)]
<1>1. /\ IsSeq(rows) /\ Len(rows) = Len(d.rows) + 1 /\ rows[Len(d.rows) + 1] = r
      /\ \A i \in 1 .. Len(d.rows) : rows[i] = d.rows[i]
  BY AppendSeq DEF IsDB
<1>2. e = [blocks |-> d.blocks, rows |-> rows, virtual |-> d.virtual,
           verified |-> d.verified, forced |-> d.forced, seqs |-> d.seqs]
  BY DEF IsDB
<1>3. Len(d.rows) \in Nat
  BY Zenon DEF IsDB, IsSeq
<1> HIDE DEF rows, e
<1>4. IsDB(e)
  BY <1>1, <1>2, <1>3 DEF IsDB
<1>5. Roots(e) = Roots(d) \cup {r.root}
  BY <1>1, <1>2, <1>3 DEF Roots
<1>6. e.rows = rows
  BY <1>2, Zenon
<1> QED BY <1>1, <1>4, <1>5, <1>6, Zenon DEF e

\* ProcessAndStoreClosedBatch appends batch b.
LEMMA ProcessAndStoreDB ==
  ASSUME NEW d, IsDB(d), NEW b, NEW data, NEW forced,
         ProcessAndStoreClosedBatch(d, b, data, forced) # NoDB
  PROVE  LET e == ProcessAndStoreClosedBatch(d, b, data, forced)
         IN /\ IsDB(e) /\ b \in 1 .. Len(e.rows)
            /\ Roots(e) = Roots(d) \cup {RootOf(e, b)}
<1> DEFINE r == Closed(data, Execute(RootOf(d, b - 1), data), forced)
           e == [d EXCEPT !.rows = Append(@, r)]
<1>1. ProcessAndStoreClosedBatch(d, b, data, forced) = e /\ CanOpen(d, b, forced)
  BY Zenon DEF ProcessAndStoreClosedBatch
<1>2. b = Len(d.rows) + 1 /\ Len(d.rows) \in Nat
  BY <1>1, Zenon DEF CanOpen, LastBatch, IsDB, IsSeq
<1>3. IsRow(r)
  BY Zenon DEF IsRow, Closed
<1> HIDE DEF r
<1>4. /\ IsDB(e) /\ Roots(e) = Roots(d) \cup {r.root}
      /\ Len(e.rows) = Len(d.rows) + 1 /\ e.rows[Len(d.rows) + 1] = r
  BY <1>3, AppendRow, Zenon
<1> HIDE DEF e
<1>5. RootOf(e, b) = r.root /\ b \in 1 .. Len(e.rows)
  BY <1>2, <1>4 DEF RootOf
<1> QED BY <1>1, <1>4, <1>5, Zenon

\* A batch of the database is changed.
LEMMA UpdateRow ==
  ASSUME NEW d, IsDB(d), NEW b \in DOMAIN d.rows, NEW r, IsRow(r)
  PROVE  LET e == [d EXCEPT !.rows[b] = r]
         IN IsDB(e) /\ Roots(e) \subseteq Roots(d) \cup {r.root}
<1> DEFINE rows == [d.rows EXCEPT ![b] = r]
           e == [d EXCEPT !.rows = rows]
<1>1. Len(d.rows) \in Nat /\ d.rows \in Seq({d.rows[i] : i \in 1 .. Len(d.rows)} \cup {r})
  BY DEF IsDB, IsSeq
<1>2. IsSeq(rows) /\ Len(rows) = Len(d.rows)
  <2> DEFINE T == {d.rows[i] : i \in 1 .. Len(d.rows)} \cup {r}
  <2>1. d.rows \in Seq(T) /\ r \in T
    BY <1>1, Zenon
  <2> HIDE DEF T
  <2>2. rows \in Seq(T) /\ Len(rows) = Len(d.rows)
    BY <2>1, ExceptSeq DEF IsDB, IsSeq
  <2> QED BY <2>2, SeqIsSeq, Zenon
<1>3. \A i \in 1 .. Len(d.rows) : rows[i] = IF i = b THEN r ELSE d.rows[i]
  BY Zenon DEF IsDB, IsSeq
<1>4. DOMAIN d.rows = 1 .. Len(d.rows)
  BY Zenon DEF IsDB, IsSeq
<1>5. \A i \in 1 .. Len(d.rows) : IsRow(rows[i])
  BY <1>3, <1>4, Zenon DEF IsDB
<1>6. e.rows = rows /\ e = [blocks |-> d.blocks, rows |-> rows, virtual |-> d.virtual,
           verified |-> d.verified, forced |-> d.forced, seqs |-> d.seqs]
  BY DEF IsDB
<1>7. [d EXCEPT !.rows[b] = r] = e
  OBVIOUS
<1> HIDE DEF rows, e
<1>8. IsDB(e)
  BY <1>2, <1>5, <1>6 DEF IsDB
<1>9. Roots(e) \subseteq Roots(d) \cup {r.root}
  BY <1>2, <1>3, <1>6, Zenon DEF Roots
<1> QED BY <1>7, <1>8, <1>9, Zenon

\* AddBlock changes the table of blocks only.
LEMMA AddBlockDB ==
  ASSUME NEW d, IsDB(d), NEW n, NEW block, AddBlock(d, n, block) # NoDB
  PROVE  SameRows(d, AddBlock(d, n, block))
<1> DEFINE x == Insert(d.blocks, n, block)
<1>1. AddBlock(d, n, block) = [d EXCEPT !.blocks = x]
  BY Zenon DEF AddBlock
<1> HIDE DEF x
<1>2. SameRows(d, [d EXCEPT !.blocks = x])
  BY OtherTables, Zenon
<1> QED BY <1>1, <1>2, Zenon

\* The last virtual batch has a row.
LEMMA LastVirtualBound ==
  ASSUME NEW d, IsDB(d)
  PROVE  LastVirtual(d) \in 0 .. Len(d.rows)
<1> DEFINE T == DOMAIN d.virtual \cup {0}
<1>1. Len(d.rows) \in Nat /\ T \subseteq 0 .. Len(d.rows) /\ T # {}
  BY DEF IsDB, IsSeq
<1> HIDE DEF T
<1>2. Max(T) \in T
  BY <1>1, MaxOfBounded, Zenon
<1> QED BY <1>1, <1>2, Zenon DEF LastVirtual, T

\* A database with one batch.
LEMMA OneBatchDB ==
  ASSUME NEW rows, IsSeq(rows), Len(rows) = 1, IsRow(rows[1]), NEW v, DOMAIN v = {1},
         NEW bl, NEW ve, NEW fo, NEW se
  PROVE  LET d == [blocks |-> bl, rows |-> rows, virtual |-> v, verified |-> ve,
                   forced |-> fo, seqs |-> se]
         IN IsDB(d) /\ Roots(d) = {rows[1].root}
<1> DEFINE d == [blocks |-> bl, rows |-> rows, virtual |-> v, verified |-> ve,
                 forced |-> fo, seqs |-> se]
<1>1. d.rows = rows /\ d.virtual = v
  OBVIOUS
<1>2. 1 .. Len(rows) = {1}
  OBVIOUS
<1>3. IsDB(d)
  BY <1>1, <1>2, Zenon DEF IsDB
<1> HIDE DEF d
<1>4. Roots(d) = {rows[1].root}
  BY <1>1, <1>2, Zenon DEF Roots
<1> QED BY <1>3, <1>4, Zenon DEF d

-----------------------------------------------------------------------------
(* The outcome of the work of a transaction.                               *)

IsOutcome(o) ==
  /\ o = [status |-> o.status, db |-> o.db, roots |-> o.roots, batch |-> o.batch,
          cleaned |-> o.cleaned, pool |-> o.pool]
  /\ o.status \in {"ok", "error", "fatal"}

\* A transaction that succeeds leaves a database with roots of S and those the
\* executor was given.
Good(o, S) ==
  /\ IsOutcome(o)
  /\ o.status = "ok" => IsDB(o.db) /\ Roots(o.db) \subseteq S \cup o.roots

\* A transaction starts with a database.
LEMMA OkGood ==
  ASSUME NEW d, IsDB(d), NEW S, Roots(d) \subseteq S
  PROVE  Good(Ok(d), S) /\ Ok(d).db = d /\ Ok(d).status = "ok" /\ Ok(d).roots = {}
BY Zenon DEF Good, Ok, IsOutcome

\* A transaction that fails leaves nothing.
LEMMA FailsGood ==
  ASSUME NEW o, IsOutcome(o), NEW S
  PROVE  /\ Good(Fails(o), S) /\ Fails(o).status = "error"
         /\ Good(Dies(o), S) /\ Dies(o).status = "fatal"
BY DEF Good, Fails, Dies, IsOutcome

\* A transaction whose database is replaced.
LEMMA SetDBGood ==
  ASSUME NEW o, IsOutcome(o), NEW S, NEW d, IsDB(d), Roots(d) \subseteq S \cup o.roots
  PROVE  /\ Good([o EXCEPT !.db = d], S)
         /\ [o EXCEPT !.db = d].db = d /\ [o EXCEPT !.db = d].status = o.status
         /\ [o EXCEPT !.db = d].roots = o.roots
BY DEF Good, IsOutcome

\* The executor is given a root.
LEMMA StoresGood ==
  ASSUME NEW o, IsOutcome(o), NEW S, NEW r,
         o.status = "ok" => IsDB(o.db) /\ Roots(o.db) \subseteq S \cup o.roots \cup {r}
  PROVE  /\ Good(Stores(o, r), S) /\ Stores(o, r).status = o.status
         /\ Stores(o, r).db = o.db
BY DEF Good, IsOutcome, Stores

\* AddVirtual of a batch that has a row.
LEMMA AddVirtualGood ==
  ASSUME NEW o, NEW S, Good(o, S), NEW b, NEW n,
         o.status = "ok" => b \in 1 .. Len(o.db.rows)
  PROVE  Good(AddVirtual(o, b, n), S)
<1> DEFINE e == AddVirtualBatch(o.db, b, n)
<1>1. CASE o.status # "ok"
  BY <1>1 DEF AddVirtual
<1>2. CASE o.status = "ok" /\ e = NoDB
  BY <1>2, FailsGood, Zenon DEF AddVirtual, Gives, Good
<1>3. CASE o.status = "ok" /\ e # NoDB
  <2>1. SameRows(o.db, e)
    BY <1>3, AddVirtualBatchDB DEF Good
  <2>2. IsDB(e) /\ Roots(e) \subseteq S \cup o.roots
    BY <1>3, <2>1, SameRoots DEF Good
  <2>3. AddVirtual(o, b, n) = [o EXCEPT !.db = e]
    BY <1>3, Zenon DEF AddVirtual, Gives
  <2> HIDE DEF e
  <2> QED BY <2>2, <2>3, SetDBGood DEF Good
<1> QED BY <1>1, <1>2, <1>3

\* StoreBatch gives the executor the root of the batch it stores.
LEMMA StoreBatchGood ==
  ASSUME NEW o, NEW S, Good(o, S), o.status = "ok", NEW b, NEW data, NEW forced
  PROVE  LET p == StoreBatch(o, b, data, forced)
         IN Good(p, S) /\ (p.status = "ok" => b \in 1 .. Len(p.db.rows))
<1> DEFINE e == ProcessAndStoreClosedBatch(o.db, b, data, forced)
<1>1. CASE e = NoDB
  BY <1>1, FailsGood DEF StoreBatch, Gives, Good
<1>2. CASE e # NoDB
  <2>1. /\ IsDB(e) /\ b \in 1 .. Len(e.rows)
        /\ Roots(e) = Roots(o.db) \cup {RootOf(e, b)}
    BY <1>2, ProcessAndStoreDB DEF Good
  <2> DEFINE p == [o EXCEPT !.db = e]
  <2>2. Gives(o, e) = p
    BY <1>2, Zenon DEF Gives
  <2>3. IsOutcome(p) /\ p.db = e /\ p.status = "ok" /\ p.roots = o.roots
    BY DEF IsOutcome, Good
  <2>4. StoreBatch(o, b, data, forced) = Stores(p, RootOf(p.db, b))
    BY <2>2, <2>3 DEF StoreBatch
  <2> HIDE DEF e, p
  <2>5. Roots(p.db) \subseteq S \cup p.roots \cup {RootOf(p.db, b)}
    BY <2>1, <2>3 DEF Good
  <2> QED BY <2>1, <2>3, <2>4, <2>5, StoresGood
<1> QED BY <1>1, <1>2

\* A forced batch of a sequence never succeeds.
LEMMA ForcedInSequenceGood ==
  ASSUME NEW o, NEW S, Good(o, S), NEW b, NEW data
  PROVE  Good(ForcedInSequence(o, b, data), S)
<1>1. Good(Fails(o), S) /\ Good(Dies(o), S)
  BY FailsGood, Zenon DEF Good
<1>2. ForcedInSequence(o, b, data) \in {Fails(o), Dies(o)}
  BY Zenon DEF ForcedInSequence
<1> QED BY <1>1, <1>2

\* One batch of a sequence, discarding the trusted state or not.
LEMMA SequencedBatchGood ==
  ASSUME NEW o, NEW S, Good(o, S), o.status = "ok", NEW b, NEW batch, NEW n
  PROVE  Good(SequencedBatch(o, b, batch, n), S)
<1>1. Good(ForcedInSequence(o, b, batch.data), S)
  BY ForcedInSequenceGood, Zenon
<1>2. ASSUME b \in DOMAIN o.db.rows
      PROVE  b \in 1 .. Len(o.db.rows)
  BY <1>2, Zenon DEF Good, IsDB, IsSeq
<1>3. ASSUME Mismatch(o.db, b, batch.data)
      PROVE  Good(AddVirtual(StoreBatch(Discard(o, b), b, batch.data, NoForced), b, n), S)
  <2> DEFINE p == Discard(o, b)
             e == ResetTrustedState(o.db, b - 1)
             back == o.pool \cup ReorgPool(o.db)
  <2>1. b - 1 \in 0 .. Len(o.db.rows)
    BY <1>2, <1>3 DEF Mismatch
  <2>2. IsDB(e) /\ Roots(e) \subseteq Roots(o.db)
    BY <2>1, ResetTrustedStateDB, Zenon DEF Good
  <2>0. p = [o EXCEPT !.cleaned = TRUE, !.pool = back, !.db = e]
    BY Zenon DEF Discard
  <2> HIDE DEF p, e, back
  <2>3. IsOutcome(p) /\ p.db = e /\ p.status = "ok" /\ p.roots = o.roots
    BY <2>0, Zenon DEF IsOutcome, Good
  <2>4. Good(p, S)
    BY <2>2, <2>3, Zenon DEF Good
  <2>5. /\ Good(StoreBatch(p, b, batch.data, NoForced), S)
        /\ StoreBatch(p, b, batch.data, NoForced).status = "ok" =>
             b \in 1 .. Len(StoreBatch(p, b, batch.data, NoForced).db.rows)
    BY <2>3, <2>4, StoreBatchGood
  <2>6. Good(AddVirtual(StoreBatch(p, b, batch.data, NoForced), b, n), S)
    BY <2>5, AddVirtualGood, Zenon
  <2> QED BY <2>6, Zenon DEF p
<1>4. ASSUME b \in DOMAIN o.db.rows
      PROVE  Good(AddVirtual(o, b, n), S)
  BY <1>2, <1>4, AddVirtualGood, Zenon
<1>5. Good(AddVirtual(StoreBatch(o, b, batch.data, NoForced), b, n), S)
  BY StoreBatchGood, AddVirtualGood
<1> QED BY <1>1, <1>3, <1>4, <1>5 DEF SequencedBatch

\* The row of the sequence.
LEMMA EndSequenceGood ==
  ASSUME NEW o, NEW S, Good(o, S), NEW ev
  PROVE  Good(EndSequence(o, ev), S)
<1> DEFINE x == Insert(o.db.seqs, ev.first, ev.first + Len(ev.batches) - 1)
           e == [o.db EXCEPT !.seqs = x]
<1>1. CASE o.status # "ok"
  BY <1>1, Zenon DEF EndSequence
<1>2. CASE o.status = "ok"
  <2>1. EndSequence(o, ev) = Gives(o, e)
    BY <1>2, Zenon DEF EndSequence, AddSequence
  <2>2. SameRows(o.db, e)
    <3> HIDE DEF x
    <3> QED BY <1>2, OtherTables, Zenon DEF Good
  <2>3. IsDB(e) /\ Roots(e) \subseteq S \cup o.roots
    BY <1>2, <2>2, SameRoots DEF Good
  <2>4. Good(Fails(o), S)
    BY FailsGood, Zenon DEF Good
  <2> HIDE DEF e
  <2>5. Good([o EXCEPT !.db = e], S)
    BY <2>3, SetDBGood, Zenon DEF Good
  <2> QED BY <2>1, <2>4, <2>5 DEF Gives
<1> QED BY <1>1, <1>2

\* processSequenceForceBatch
LEMMA SequenceForceBatchesGood ==
  ASSUME NEW d, IsDB(d), NEW S, Roots(d) \subseteq S, NEW n, NEW ev
  PROVE  Good(SequenceForceBatches(d, n, ev), S)
<1> DEFINE e == ResetTrustedState(d, LastVirtual(d))
           k == Ok(e)
           o == [k EXCEPT !.cleaned = TRUE]
           f == NextForced(o.db)
           p == StoreBatch(o, ev.first, ev.batches[1].data, f)
<1>1. IsDB(e) /\ Roots(e) \subseteq S
  BY LastVirtualBound, ResetTrustedStateDB
<1> HIDE DEF e
<1>2. Good(o, S) /\ o.status = "ok"
  <2>1. Good(k, S) /\ k.status = "ok"
    BY <1>1, OkGood
  <2>2. o = [k EXCEPT !.cleaned = TRUE]
    OBVIOUS
  <2> HIDE DEF k, o
  <2>3. IsOutcome(o) /\ o.status = "ok" /\ o.db = k.db /\ o.roots = k.roots
    BY <2>1, <2>2, Zenon DEF Good, IsOutcome
  <2> QED BY <2>1, <2>3, Zenon DEF Good
<1> HIDE DEF o
<1>3. Good(Fails(o), S)
  BY <1>2, FailsGood DEF Good
<1> HIDE DEF f
<1>4. Good(p, S) /\ (p.status = "ok" => ev.first \in 1 .. Len(p.db.rows))
  BY <1>2, StoreBatchGood, Zenon
<1> HIDE DEF p
<1>5. Good(EndSequence(AddVirtual(p, ev.first, n), ev), S)
  BY <1>4, AddVirtualGood, EndSequenceGood
<1>6. SequenceForceBatches(d, n, ev) \in {Fails(o), EndSequence(AddVirtual(p, ev.first, n), ev)}
  BY Zenon DEF SequenceForceBatches, e, k, o, f, p
<1> QED BY <1>3, <1>5, <1>6

\* A change of another table.
LEMMA GivesGood ==
  ASSUME NEW d, IsDB(d), NEW S, Roots(d) \subseteq S, NEW e, e = NoDB \/ SameRows(d, e)
  PROVE  Good(Gives(Ok(d), e), S)
<1> DEFINE o == Ok(d)
<1>1. Good(o, S) /\ o.roots = {}
  BY OkGood, Zenon
<1> HIDE DEF o
<1>2. Good(Fails(o), S)
  BY <1>1, FailsGood DEF Good
<1>3. CASE e = NoDB
  BY <1>2, <1>3 DEF Gives, o
<1>4. CASE SameRows(d, e) /\ e # NoDB
  <2>1. IsDB(e) /\ Roots(e) \subseteq S
    BY <1>4, SameRoots, Zenon
  <2>2. Good([o EXCEPT !.db = e], S)
    BY <1>1, <2>1, SetDBGood DEF Good
  <2> QED BY <1>4, <2>2 DEF Gives, o
<1> QED BY <1>3, <1>4

\* processVerifyBatches
LEMMA VerifyBatchesGood ==
  ASSUME NEW d, IsDB(d), NEW S, Roots(d) \subseteq S, NEW n, NEW ev
  PROVE  Good(VerifyBatches(d, n, ev), S)
<1> DEFINE bs == LastVerified(d) + 1 .. ev.batch
           v == [b \in DOMAIN d.verified \cup bs |->
                   IF b \in bs THEN [block |-> n, root |-> ev.root] ELSE d.verified[b]]
           e == AddVerifiedBatches(d, bs, n, ev.root)
<1>1. e \in {NoDB, [d EXCEPT !.verified = v]}
  BY Zenon DEF AddVerifiedBatches
<1> HIDE DEF v, bs
<1>2. e = NoDB \/ SameRows(d, e)
  <2>1. SameRows(d, [d EXCEPT !.verified = v])
    BY OtherTables, Zenon
  <2> QED BY <1>1, <2>1, Zenon
<1> HIDE DEF e
<1>3. Good(Gives(Ok(d), e), S)
  BY <1>2, GivesGood
<1>4. Good(Fails(Ok(d)), S)
  BY OkGood, FailsGood, Zenon DEF Good
<1>5. VerifyBatches(d, n, ev) \in {Fails(Ok(d)), Gives(Ok(d), e)}
  BY Zenon DEF VerifyBatches, e, bs
<1> QED BY <1>3, <1>4, <1>5

\* The events but SequenceBatches.
LEMMA ProcessEventGood ==
  ASSUME NEW d, IsDB(d), NEW S, Roots(d) \subseteq S, NEW n, NEW ev
  PROVE  Good(ProcessEvent(d, n, ev), S)
<1>1. Good(SequenceForceBatches(d, n, ev), S)
  BY SequenceForceBatchesGood, Zenon
<1>2. Good(Gives(Ok(d), AddForcedBatch(d, ev.num, ev.data, n)), S)
  <2> DEFINE e == AddForcedBatch(d, ev.num, ev.data, n)
             x == Insert(d.forced, ev.num, [block |-> n, data |-> ev.data])
  <2>1. e \in {NoDB, [d EXCEPT !.forced = x]}
    BY Zenon DEF AddForcedBatch
  <2> HIDE DEF x
  <2>2. e = NoDB \/ SameRows(d, e)
    <3>1. SameRows(d, [d EXCEPT !.forced = x])
      BY OtherTables, Zenon
    <3> QED BY <2>1, <3>1, Zenon
  <2> HIDE DEF e
  <2>3. Good(Gives(Ok(d), e), S)
    BY <2>2, GivesGood
  <2> QED BY <2>3, Zenon DEF e
<1>3. Good(VerifyBatches(d, n, ev), S)
  BY VerifyBatchesGood, Zenon
<1>4. Good(Ok(d), S)
  BY OkGood, Zenon
<1> QED BY <1>1, <1>2, <1>3, <1>4 DEF ProcessEvent

\* A transaction that gives the executor one root.
LEMMA StoresOk ==
  ASSUME NEW d, NEW r
  PROVE  LET o == Stores(Ok(d), r)
         IN IsOutcome(o) /\ o.status = "ok" /\ o.db = d /\ o.roots = {r}
<1> DEFINE k == Ok(d)
           o == [k EXCEPT !.roots = k.roots \cup {r}]
<1>1. IsOutcome(k) /\ k.status = "ok" /\ k.db = d /\ k.roots = {}
  BY Zenon DEF IsOutcome, Ok
<1>2. Stores(Ok(d), r) = o
  BY Zenon DEF Stores
<1> HIDE DEF k
<1>3. IsOutcome(o) /\ o.status = "ok" /\ o.db = d /\ o.roots = {r}
  BY <1>1 DEF IsOutcome
<1> QED BY <1>2, <1>3

\* A batch of the trusted node that the database has not: its root is given to
\* the executor.
LEMMA FullProcessGood ==
  ASSUME IsDB(db), NEW b, NEW t, NEW root, NEW previous
  PROVE  Good(FullProcess(b, t, root, previous), Roots(db))
<1> DEFINE new == Execute(previous.root, t.data)
           row == [data |-> t.data, root |-> new, wip |-> ~t.closed, forced |-> t.forced,
                   ler |-> LerStored(t)]
           o == Stores(Ok(db), new)
           e == [db EXCEPT !.rows = Append(@, row)]
           kept == [row EXCEPT !.ler = TRUE]
           p == [o EXCEPT !.db.rows = Append(@, row), !.batch = kept]
<1>1. Good(Fails(Ok(db)), Roots(db))
  BY OkGood, FailsGood DEF Good
<1> HIDE DEF new
<1>2. IsOutcome(o) /\ o.status = "ok" /\ o.db = db /\ o.roots = {new}
  BY StoresOk, Zenon
<1>3. IsRow(row) /\ row.root = new
  BY Zenon DEF IsRow
<1> HIDE DEF o, row
<1>4. Good(Dies(o), Roots(db))
  BY <1>2, FailsGood, Zenon
<1>5. IsDB(e) /\ Roots(e) = Roots(db) \cup {new}
  BY <1>3, AppendRow, Zenon
<1> HIDE DEF kept
<1>6. p = [o EXCEPT !.db = e, !.batch = kept]
  BY <1>2, Zenon DEF IsOutcome
<1> HIDE DEF e, p
<1>7. Good(p, Roots(db))
  BY <1>2, <1>5, <1>6, Zenon DEF Good, IsOutcome
<1>8. FullProcess(b, t, root, previous) \in {Fails(Ok(db)), Dies(o), p}
  BY Zenon DEF FullProcess, o, p, row, new, kept
<1> QED BY <1>1, <1>4, <1>7, <1>8

\* A batch the database has, with new data: its root is given to the executor.
LEMMA IncrementalProcessGood ==
  ASSUME IsDB(db), NEW b, NEW t, NEW root, NEW current
  PROVE  Good(IncrementalProcess(b, t, root, current), Roots(db))
<1> DEFINE new == Execute(current.root, t.data)
           row == [current EXCEPT !.data = t.data, !.root = new, !.wip = ~t.closed, !.ler = TRUE]
           o == Stores(Ok(db), new)
           r == [db.rows[b] EXCEPT !.data = t.data, !.root = new,
                                   !.wip = @ /\ ~t.closed, !.ler = LerStored(t)]
           e == [db EXCEPT !.rows[b] = r]
           p == [o EXCEPT !.batch = row]
           q == [o EXCEPT !.batch = row, !.db.rows[b] = r]
<1>1. Good(Fails(Ok(db)), Roots(db))
  BY OkGood, FailsGood DEF Good
<1>2. IsOutcome(o) /\ o.status = "ok" /\ o.db = db /\ o.roots = {new}
  BY StoresOk, Zenon
<1> HIDE DEF o, row
<1>3. Good(Dies(o), Roots(db)) /\ Good(Fails(o), Roots(db))
  BY <1>2, FailsGood, Zenon
<1>4. Good(p, Roots(db))
  <2> HIDE DEF new
  <2>1. IsOutcome(p) /\ p.status = "ok" /\ p.db = db /\ p.roots = {new}
    BY <1>2 DEF IsOutcome
  <2> HIDE DEF p
  <2> QED BY <2>1, Zenon DEF Good
<1>5. b \in DOMAIN db.rows => IsRow(r) /\ r.root = new
  <2> DEFINE wip == db.rows[b].wip /\ ~t.closed
             ler == LerStored(t)
  <2>1. r = [db.rows[b] EXCEPT !.data = t.data, !.root = new, !.wip = wip, !.ler = ler]
    BY Zenon
  <2>2. b \in DOMAIN db.rows => IsRow(db.rows[b])
    BY Zenon DEF IsDB, IsSeq
  <2> HIDE DEF new, r, wip, ler
  <2> QED BY <2>1, <2>2, Zenon DEF IsRow
<1>6. q = [o EXCEPT !.batch = row, !.db = e]
  <2> HIDE DEF r
  <2>1. q = [o EXCEPT !.batch = row, !.db = [o.db EXCEPT !.rows[b] = r]]
    BY <1>2, Zenon DEF IsOutcome
  <2> HIDE DEF q
  <2> QED BY <1>2, <2>1
<1>7. IsDB(e) /\ Roots(e) \subseteq Roots(db) \cup {new}
  <2> HIDE DEF new, r
  <2>1. b \in DOMAIN db.rows => IsDB(e) /\ Roots(e) \subseteq Roots(db) \cup {new}
    BY <1>5, UpdateRow
  <2>2. b \notin DOMAIN db.rows => IsDB(e) /\ Roots(e) \subseteq Roots(db) \cup {new}
    <3>1. ASSUME b \notin DOMAIN db.rows PROVE e = db
      BY <3>1, Zenon DEF IsDB, IsSeq
    <3> QED BY <3>1, Zenon
  <2> QED BY <2>1, <2>2, Zenon
<1>8. Good(q, Roots(db))
  <2> HIDE DEF new, e, q
  <2>1. IsOutcome(q) /\ q.status = "ok" /\ q.db = e /\ q.roots = {new}
    BY <1>2, <1>6, Zenon DEF IsOutcome
  <2> QED BY <1>7, <2>1, Zenon DEF Good
<1>9. IncrementalProcess(b, t, root, current) \in {Fails(Ok(db)), Fails(o), Dies(o), p, q}
  BY Zenon DEF IncrementalProcess, o, row
<1> QED BY <1>1, <1>3, <1>4, <1>8, <1>9

\* One batch of the trusted node.
LEMMA ProcessTrustedBatchGood ==
  ASSUME IsDB(db), NEW b, NEW t, NEW root, NEW current, NEW previous
  PROVE  Good(ProcessTrustedBatch(b, t, root, current, previous), Roots(db))
<1>1. Good(Ok(db), Roots(db)) /\ Good(Fails(Ok(db)), Roots(db))
  BY OkGood, FailsGood, Zenon DEF Good
<1>2. Good(FullProcess(b, t, root, previous), Roots(db))
  BY FullProcessGood, Zenon
<1>3. Good(IncrementalProcess(b, t, root, current), Roots(db))
  BY IncrementalProcessGood, Zenon
<1> QED BY <1>1, <1>2, <1>3 DEF ProcessTrustedBatch

-----------------------------------------------------------------------------
(* The inductive invariant.                                                *)

\* The roots of d are stored once the flush is fulfilled, or when nothing was sent
\* to be flushed; as long as the executor is the one of the flush, they are at
\* least pending.
Covered(d, fl, ex) ==
  /\ IsDB(d)
  /\ fl.fulfilled => Roots(d) \subseteq ex.stored
  /\ ~fl.sent => Roots(d) \subseteq ex.stored
  /\ fl.prover = ex.prover => Roots(d) \subseteq ex.stored \cup ex.pending

FlushType == [prover : Nat, sent : BOOLEAN, fulfilled : BOOLEAN]

\* The committed roots are stored and those of the open transaction are covered.
\* A prover id is never used again, so a flush of an executor that restarted is
\* not taken for one of the executor that runs.
DurableInv ==
  /\ IsDB(db) /\ Roots(db) \subseteq executor.stored
  /\ executor = [prover |-> executor.prover, pending |-> executor.pending, stored |-> executor.stored]
  /\ executor.prover \in Nat \ {0}
  /\ flush \in FlushType
  /\ flush.prover <= executor.prover
  /\ flush.prover = NoProver => ~flush.sent
  /\ InTx => Covered(tx.db, flush, executor)

\* The genesis state is stored.
LEMMA DurableInit == Init => DurableInv
<1> SUFFICES ASSUME Init PROVE DurableInv
  OBVIOUS
<1> DEFINE r == Closed(<<>>, <<>>, NoForced)
           rows == <<r>>
<1>1. IsRow(r) /\ r.root = <<>>
  BY Zenon DEF Closed, IsRow
<1> HIDE DEF r
<1>2. IsSeq(rows) /\ Len(rows) = 1 /\ rows[1] = r
  BY DEF IsSeq
<1> DEFINE v == <<1>>
           bl == <<[hash |-> 0, ev |-> Quiet]>>
<1>3. DOMAIN v = {1}
  OBVIOUS
<1>4. db = [blocks |-> bl, rows |-> rows, virtual |-> v, verified |-> <<>>, forced |-> <<>>, seqs |-> v]
  BY Zenon DEF Init, GenesisDB, r
<1> HIDE DEF rows, v, bl
<1>5. IsDB(db) /\ Roots(db) = {r.root}
  BY <1>1, <1>2, <1>3, <1>4, OneBatchDB
<1>6. Roots(db) \subseteq {<<>>}
  BY <1>1, <1>5
<1>7. executor = [prover |-> 1, pending |-> {}, stored |-> {<<>>}] /\ pc = "top"
      /\ flush = [prover |-> 0, sent |-> FALSE, fulfilled |-> FALSE]
  BY Zenon DEF Init, Fresh, NoProver
<1> QED BY <1>5, <1>6, <1>7 DEF DurableInv, InTx, NoProver, FlushType

\* A step that changes nothing of what the invariant is about.
LEMMA DurableUnchanged ==
  ASSUME DurableInv, UNCHANGED <<executor, db, flush>>, UNCHANGED <<pc, tx>> \/ ~InTx'
  PROVE  DurableInv'
BY Zenon DEF DurableInv, InTx

\* The transaction ends without a commit, the flush is forgotten or not.
LEMMA DurableFails ==
  ASSUME DurableInv, UNCHANGED <<executor, db>>, flush' \in {flush, Fresh}, pc' = "top"
  PROVE  DurableInv'
<1>1. CASE flush' = flush
  BY <1>1 DEF DurableInv, InTx
<1>2. CASE flush' = Fresh
  BY <1>2 DEF DurableInv, InTx, Fresh, NoProver, FlushType
<1> QED BY <1>1, <1>2

\* The transaction is committed.
LEMMA DurableCommits ==
  ASSUME DurableInv, UNCHANGED executor, Covered(tx.db, flush, executor),
         flush.fulfilled \/ ~Pending, db' = tx.db, ~InTx',
         flush' \in FlushType, flush'.prover \in {flush.prover, executor.prover},
         flush'.sent = flush.sent
  PROVE  DurableInv'
<1>1. IsDB(tx.db) /\ Roots(tx.db) \subseteq executor.stored
  <2>1. CASE flush.fulfilled \/ ~flush.sent
    BY <2>1 DEF Covered
  <2>2. CASE ~Pending /\ flush.sent
    BY <2>2 DEF Covered, Pending
  <2> QED BY <2>1, <2>2
<1>2. IsDB(db)' /\ Roots(db)' \subseteq executor.stored
  BY <1>1
<1> QED BY <1>2 DEF DurableInv, NoProver

\* Work on a transaction that was open with database d: what it adds is given to
\* the executor, and the flush is the one of this executor.
LEMMA DurableWorks ==
  ASSUME DurableInv, NEW o, NEW d, Covered(d, flush, executor), Good(o, Roots(d)),
         Ran(o), PendingFlush(o), o.status = "ok", ~OtherProver(o), tx'.db = o.db
  PROVE  DurableInv'
<1>1. /\ executor'.prover = executor.prover /\ executor'.stored = executor.stored
      /\ executor'.pending = executor.pending \cup (o.roots \ executor.stored)
      /\ executor' = [prover |-> executor'.prover, pending |-> executor'.pending,
                      stored |-> executor'.stored]
  BY DEF DurableInv, Ran
<1>2. db' = db
  BY Zenon DEF Ran
<1>3. IsDB(db)' /\ Roots(db)' \subseteq executor'.stored
  BY <1>1, <1>2 DEF DurableInv
<1>4. IsDB(o.db) /\ Roots(o.db) \subseteq Roots(d) \cup o.roots
  BY DEF Good
<1>5. CASE o.roots = {}
  <2>1. flush' = flush
    BY <1>5 DEF PendingFlush
  <2>2. Covered(o.db, flush, executor')
    BY <1>1, <1>4, <1>5 DEF Covered
  <2>3. Covered(tx.db, flush, executor)'
    BY <2>1, <2>2
  <2> QED BY <1>1, <1>3, <2>1, <2>3 DEF DurableInv
<1>6. CASE o.roots # {}
  <2>1. flush' = [prover |-> executor.prover, sent |-> TRUE, fulfilled |-> FALSE]
    BY <1>6 DEF PendingFlush
  <2>2. Roots(d) \subseteq executor.stored \cup executor.pending
    BY <1>6 DEF OtherProver, Covered, DurableInv
  <2>3. Roots(o.db) \subseteq executor'.stored \cup executor'.pending
    BY <1>1, <1>4, <2>2
  <2>4. Covered(o.db, flush', executor')
    BY <1>4, <2>1, <2>3 DEF Covered
  <2>5. Covered(tx.db, flush, executor)'
    BY <2>4
  <2>6. flush' \in FlushType /\ flush'.prover <= executor'.prover /\ flush'.prover # NoProver
    BY <1>1, <2>1 DEF DurableInv, FlushType, NoProver
  <2> QED BY <1>1, <1>3, <2>5, <2>6 DEF DurableInv
<1> QED BY <1>5, <1>6

\* Work that fails or ends the process.
LEMMA DurableStops ==
  ASSUME DurableInv, NEW o, Ran(o), PendingFlush(o) \/ flush' = Fresh, pc' = "top"
  PROVE  DurableInv'
<1>1. /\ executor'.prover = executor.prover /\ executor'.stored = executor.stored
      /\ executor' = [prover |-> executor'.prover, pending |-> executor'.pending,
                      stored |-> executor'.stored]
  BY DEF DurableInv, Ran
<1>2. db' = db
  BY DEF Ran
<1>3. IsDB(db)' /\ Roots(db)' \subseteq executor'.stored
  BY <1>1, <1>2 DEF DurableInv
<1>4. /\ flush' \in FlushType /\ flush'.prover <= executor'.prover
      /\ flush'.prover = NoProver => ~flush'.sent
  <2>1. CASE flush' = flush
    BY <1>1, <2>1 DEF DurableInv
  <2>2. CASE flush' = [prover |-> executor.prover, sent |-> TRUE, fulfilled |-> FALSE]
    BY <1>1, <2>2 DEF DurableInv, FlushType, NoProver
  <2>3. CASE flush' = Fresh
    BY <1>1, <2>3 DEF DurableInv, FlushType, NoProver, Fresh
  <2> QED BY <2>1, <2>2, <2>3 DEF PendingFlush
<1> QED BY <1>1, <1>3, <1>4 DEF DurableInv, InTx

\* The committed database is covered.
LEMMA CommittedCovered == DurableInv => Covered(db, flush, executor)
BY DEF DurableInv, Covered

\* The work on an L1 block.
LEMMA WorksDurable ==
  ASSUME DurableInv, NEW o, NEW d, Covered(d, flush, executor), Good(o, Roots(d)),
         NEW done, NEW next, Works(o, done, next)
  PROVE  DurableInv'
<1>1. CASE o.status = "fatal" \/ OtherProver(o)
  BY <1>1, DurableStops DEF Works, Die, Idle
<1>2. CASE o.status = "error" /\ ~OtherProver(o)
  BY <1>2, DurableStops DEF Works, L1Error, Idle
<1>3. CASE o.status = "ok" /\ ~OtherProver(o)
  <2>1. Ran(o) /\ PendingFlush(o) /\ tx' = [db |-> o.db, batch |-> NoBatch, done |-> done]
    BY <1>3, Zenon DEF Works
  <2>2. tx'.db = o.db
    BY <2>1, Zenon
  <2> QED BY <1>3, <2>1, <2>2, DurableWorks
<1> QED BY <1>1, <1>2, <1>3 DEF Good, IsOutcome

\* A batch of the trusted node.
LEMMA SyncTrustedBatchDurable == DurableInv /\ SyncTrustedBatch => DurableInv'
<1> SUFFICES ASSUME DurableInv, SyncTrustedBatch PROVE DurableInv'
  OBVIOUS
<1>1. PICK live \in SUBSET DOMAIN cache :
        LET kept == Restrict(cache, live)
            current == Working(kept, cur)
            previous == Working(kept, cur - 1)
            o == ProcessTrustedBatch(cur, trusted[cur], Data(trusted, cur), current, previous)
        IN /\ Ran(o)
           /\ CASE o.status = "fatal" \/ OtherProver(o) -> Die
                [] o.status = "error" -> TrustedError /\ PendingFlush(o)
                [] OTHER -> /\ cache' = Set(Set(kept, cur, current), cur - 1, previous)
                            /\ tx' = [db |-> o.db, batch |-> o.batch, done |-> 0]
                            /\ PendingFlush(o) /\ pc' = "flush"
                            /\ UNCHANGED <<last, cur, goal, from, known, todo>>
  BY Zenon DEF SyncTrustedBatch
<1> DEFINE kept == Restrict(cache, live)
           current == Working(kept, cur)
           previous == Working(kept, cur - 1)
           o == ProcessTrustedBatch(cur, trusted[cur], Data(trusted, cur), current, previous)
<1>2. Good(o, Roots(db))
  BY ProcessTrustedBatchGood, Zenon DEF DurableInv
<1>3. Covered(db, flush, executor)
  BY CommittedCovered, Zenon
<1>4. /\ Ran(o)
      /\ \/ (o.status = "fatal" \/ OtherProver(o)) /\ Die
         \/ o.status = "error" /\ TrustedError /\ PendingFlush(o)
         \/ /\ o.status \notin {"fatal", "error"} /\ ~OtherProver(o)
            /\ tx' = [db |-> o.db, batch |-> o.batch, done |-> 0]
            /\ PendingFlush(o)
  BY <1>1, Zenon
<1> HIDE DEF o
<1>5. CASE (o.status = "fatal" \/ OtherProver(o)) /\ Die
  BY <1>4, <1>5, DurableStops DEF Die, Idle
<1>6. CASE o.status = "error" /\ TrustedError /\ PendingFlush(o)
  BY <1>4, <1>6, DurableStops DEF TrustedError, Idle
<1>7. CASE /\ o.status \notin {"fatal", "error"} /\ ~OtherProver(o)
           /\ tx' = [db |-> o.db, batch |-> o.batch, done |-> 0]
           /\ PendingFlush(o)
  <2>1. o.status = "ok"
    BY <1>2, <1>7, Zenon DEF Good, IsOutcome
  <2>2. tx'.db = o.db
    BY <1>7, Zenon
  <2> QED BY <1>2, <1>3, <1>4, <1>7, <2>1, <2>2, DurableWorks
<1> QED BY <1>4, <1>5, <1>6, <1>7

\* An L1 block.
LEMMA ProcessBlockRangeDurable == DurableInv /\ ProcessBlockRange => DurableInv'
<1> SUFFICES ASSUME DurableInv, ProcessBlockRange PROVE DurableInv'
  OBVIOUS
<1> DEFINE block == NextBlock
           d == AddBlock(db, block.n, [hash |-> block.hash, ev |-> block.ev])
<1>1. \/ Works(Fails(Ok(db)), 0, "flush")
      \/ d # NoDB /\ Works(Ok(d), 0, "sequence")
      \/ d # NoDB /\ Works(ProcessEvent(d, block.n, block.ev), 0, "flush")
  BY Zenon DEF ProcessBlockRange
<1>2. IsDB(db) /\ Covered(db, flush, executor)
  BY CommittedCovered, Zenon DEF DurableInv
<1>3. d # NoDB => IsDB(d) /\ Roots(d) \subseteq Roots(db)
  BY <1>2, AddBlockDB, SameRoots
<1> HIDE DEF d
<1>4. CASE Works(Fails(Ok(db)), 0, "flush")
  <2>1. Good(Fails(Ok(db)), Roots(db))
    BY <1>2, OkGood, FailsGood DEF Good
  <2> QED BY <1>2, <1>4, <2>1, WorksDurable
<1>5. CASE d # NoDB /\ Works(Ok(d), 0, "sequence")
  <2>1. Good(Ok(d), Roots(db))
    BY <1>3, <1>5, OkGood
  <2> QED BY <1>2, <1>5, <2>1, WorksDurable
<1>6. CASE d # NoDB /\ Works(ProcessEvent(d, block.n, block.ev), 0, "flush")
  <2>1. Good(ProcessEvent(d, block.n, block.ev), Roots(db))
    BY <1>3, <1>6, ProcessEventGood
  <2> QED BY <1>2, <1>6, <2>1, WorksDurable
<1> QED BY <1>1, <1>4, <1>5, <1>6

\* A batch of a sequence: the transaction is open already.
LEMMA ProcessSequenceBatchesDurable == DurableInv /\ ProcessSequenceBatches => DurableInv'
<1> SUFFICES ASSUME DurableInv, ProcessSequenceBatches PROVE DurableInv'
  OBVIOUS
<1> DEFINE block == NextBlock
           ev == block.ev
           i == tx.done + 1
           o == SequencedBatch(Ok(tx.db), ev.first + i - 1, ev.batches[i], block.n)
<1>1. Works(o, i, "sequence") \/ Works(EndSequence(o, ev), i, "flush")
  BY Zenon DEF ProcessSequenceBatches
<1>2. Covered(tx.db, flush, executor) /\ IsDB(tx.db)
  BY Zenon DEF ProcessSequenceBatches, DurableInv, InTx, Covered
<1>3. Good(o, Roots(tx.db))
  BY <1>2, OkGood, SequencedBatchGood
<1> HIDE DEF o
<1>4. Good(EndSequence(o, ev), Roots(tx.db))
  BY <1>3, EndSequenceGood
<1> QED BY <1>1, <1>2, <1>3, <1>4, WorksDurable

\* Commit ends the transaction.
LEMMA CommitEnds ==
  ASSUME Commit
  PROVE  ~InTx' /\ db' = tx.db /\ UNCHANGED executor
BY Zenon DEF Commit, CommitTrusted, CommitBlock, InTx

\* checkFlushID, and the loop that waits.
LEMMA FlushDurable == DurableInv /\ (CheckFlushID \/ FlushIsStored) => DurableInv'
<1> SUFFICES ASSUME DurableInv, CheckFlushID \/ FlushIsStored PROVE DurableInv'
  OBVIOUS
<1>1. Covered(tx.db, flush, executor)
  BY Zenon DEF CheckFlushID, FlushIsStored, DurableInv, InTx
<1>2. CASE flush.fulfilled /\ Commit /\ UNCHANGED flush
  BY <1>1, <1>2, CommitEnds, DurableCommits DEF DurableInv
<1>3. CASE Die /\ UNCHANGED <<env, executor, db, pool, faults>>
  BY <1>3, DurableFails, Zenon DEF Die, Idle
<1>4. CASE ~Pending /\ Fulfilled /\ Commit
  <2>1. /\ flush' \in FlushType /\ flush'.prover = executor.prover /\ flush'.sent = flush.sent
    BY <1>4, Zenon DEF Fulfilled, DurableInv, FlushType
  <2> QED BY <1>1, <1>4, <2>1, CommitEnds, DurableCommits
<1>5. CASE UNCHANGED <<executor, db, tx, flush>> /\ pc = "flush" /\ pc' = "wait"
  <2>1. Covered(tx.db, flush, executor)'
    BY <1>1, <1>5
  <2>2. IsDB(db)' /\ Roots(db)' \subseteq executor'.stored
    BY <1>5 DEF DurableInv
  <2> QED BY <1>5, <2>1, <2>2 DEF DurableInv
<1>6. CASE FlushIsStored
  <2>1. /\ flush' \in FlushType /\ flush'.prover = flush.prover /\ flush'.sent = flush.sent
    BY <1>6, Zenon DEF FlushIsStored, DurableInv, FlushType
  <2>2. ~Pending /\ Commit
    BY <1>6 DEF FlushIsStored
  <2> QED BY <1>1, <2>1, <2>2, CommitEnds, DurableCommits
<1>7. CASE CheckFlushID
  BY <1>2, <1>3, <1>4, <1>5, <1>7 DEF CheckFlushID, memory
<1> QED BY <1>6, <1>7

\* checkReorg: a reset leaves the batches alone.
LEMMA CheckReorgDurable == DurableInv /\ CheckReorg => DurableInv'
<1> SUFFICES ASSUME DurableInv, CheckReorg PROVE DurableInv'
  OBVIOUS
<1> DEFINE good == Max({n \in DOMAIN db.blocks : Canonical(n)})
           d == Reset(db, good)
<1>1. /\ UNCHANGED <<executor, flush>> /\ pc' \in {"top", "range"}
      /\ db' \in {db, d} /\ (db' = d => d # NoDB \/ db' = db)
  BY DEF CheckReorg, L1Error, Idle
<1> HIDE DEF good
<1>2. d # NoDB => SameRows(db, d)
  BY ResetDB, Zenon DEF DurableInv
<1> HIDE DEF d
<1>3. IsDB(db') /\ Roots(db') \subseteq executor.stored
  <2>1. CASE db' = db
    BY <2>1 DEF DurableInv
  <2>2. CASE db' = d /\ d # NoDB
    BY <1>2, <2>2, SameRoots DEF DurableInv
  <2> QED BY <1>1, <2>1, <2>2
<1>4. IsDB(db)' /\ Roots(db)' \subseteq executor.stored
  BY <1>3, Zenon
<1> QED BY <1>1, <1>4 DEF DurableInv, InTx

\* The executor stores what is pending, or restarts under a new prover id.
LEMMA ExecutorDurable == DurableInv /\ (ExecutorStores \/ ExecutorRestarts) => DurableInv'
<1> SUFFICES ASSUME DurableInv, ExecutorStores \/ ExecutorRestarts PROVE DurableInv'
  OBVIOUS
<1>1. UNCHANGED <<db, tx, flush, pc>>
  BY Zenon DEF ExecutorStores, ExecutorRestarts, memory, control
<1>2. \/ executor' = [prover |-> executor.prover, pending |-> {},
                      stored |-> executor.stored \cup executor.pending]
      \/ executor' = [prover |-> executor.prover + 1, pending |-> {}, stored |-> executor.stored]
  BY Zenon DEF ExecutorStores, ExecutorRestarts, DurableInv
<1>3. flush.prover \in Nat /\ flush.sent \in BOOLEAN /\ flush.fulfilled \in BOOLEAN
  BY Zenon DEF DurableInv, FlushType
<1>4. ASSUME NEW d, Covered(d, flush, executor)
      PROVE  Covered(d, flush, executor')
  <2>1. CASE executor' = [prover |-> executor.prover, pending |-> {},
                          stored |-> executor.stored \cup executor.pending]
    BY <1>4, <2>1 DEF Covered
  <2>2. CASE executor' = [prover |-> executor.prover + 1, pending |-> {}, stored |-> executor.stored]
    BY <1>3, <1>4, <2>2 DEF Covered, DurableInv
  <2> QED BY <1>2, <2>1, <2>2
<1>5. InTx' => Covered(tx.db, flush, executor)'
  <2>1. InTx' => Covered(tx.db, flush, executor')
    BY <1>1, <1>4 DEF DurableInv, InTx
  <2>2. Covered(tx.db, flush, executor') => Covered(tx.db, flush, executor)'
    BY <1>1, Zenon
  <2> QED BY <2>1, <2>2, Zenon
<1>6. IsDB(db)' /\ Roots(db)' \subseteq executor'.stored
  BY <1>1, <1>2 DEF DurableInv
<1> QED BY <1>1, <1>2, <1>3, <1>5, <1>6 DEF DurableInv

\* A call fails, the node restarts, or the answer to a commit is lost.
LEMMA FaultsDurable ==
  DurableInv /\ (CallFails \/ NodeRestarts \/ CommitUnanswered) => DurableInv'
<1> SUFFICES ASSUME DurableInv, CallFails \/ NodeRestarts \/ CommitUnanswered PROVE DurableInv'
  OBVIOUS
<1>1. CASE CallFails
  BY <1>1, DurableFails, Zenon DEF CallFails, Error, TrustedError, L1Error, Idle
<1>2. CASE NodeRestarts
  BY <1>2, DurableFails, Zenon DEF NodeRestarts, Die, Idle
<1>3. CASE CommitUnanswered
  <2>1. Covered(tx.db, flush, executor) /\ flush.fulfilled
    BY <1>3, Zenon DEF CommitUnanswered, DurableInv, InTx
  <2>2. db' = tx.db /\ UNCHANGED <<executor, flush>> /\ pc' = "top"
    BY <1>3, Zenon DEF CommitUnanswered, TrustedError, Idle
  <2>3. ~InTx'
    BY <2>2, Zenon DEF InTx
  <2> QED BY <2>1, <2>2, <2>3, DurableCommits DEF DurableInv
<1> QED BY <1>1, <1>2, <1>3, Zenon

\* Every step keeps the invariant.
LEMMA DurableNext == DurableInv /\ [Next]_vars => DurableInv'
<1> SUFFICES ASSUME DurableInv, [Next]_vars PROVE DurableInv'
  OBVIOUS
<1>1. CASE UNCHANGED vars
  BY <1>1, DurableUnchanged, Zenon DEF vars, memory, control
<1>2. CASE TrustedNode
  <2>1. TrustedChanges
    BY <1>2, Zenon DEF TrustedNode, TrustedOpens, TrustedAdds, TrustedCloses,
       TrustedForces, TrustedResyncs
  <2> QED BY <2>1, DurableUnchanged, Zenon DEF TrustedChanges, memory, control
<1>3. CASE L1
  <2>1. CASE L1Reorg
    BY <2>1, DurableUnchanged, Zenon DEF L1Reorg, memory, control
  <2>2. CASE \E ev : L1Adds(ev)
    BY <2>2, DurableUnchanged, Zenon DEF L1Adds, memory, control
  <2> QED BY <1>3, <2>1, <2>2, Zenon
            DEF L1, L1Block, L1Sequence, L1Diverges, L1Force, L1SequenceForce, L1Verify
<1>4. CASE Loop
  <2>1. UNCHANGED <<executor, db, flush>> /\ ~InTx'
    BY <1>4, Zenon DEF Loop, memory, InTx
  <2> QED BY <2>1, DurableUnchanged, Zenon
<1>5. CASE TrustedBatchGone
  BY <1>5, DurableFails DEF TrustedBatchGone, TrustedError, Idle
<1>6. CASE GetRange
  <2>1. UNCHANGED <<executor, db, flush>> /\ ~InTx'
    BY <1>6, Zenon DEF GetRange, L1Error, Idle, InTx
  <2> QED BY <2>1, DurableUnchanged
<1>7. CASE SyncTrustedBatch
  BY <1>7, SyncTrustedBatchDurable
<1>8. CASE CheckReorg
  BY <1>8, CheckReorgDurable
<1>9. CASE ProcessBlockRange
  BY <1>9, ProcessBlockRangeDurable
<1>10. CASE ProcessSequenceBatches
  BY <1>10, ProcessSequenceBatchesDurable
<1>11. CASE CheckFlushID \/ FlushIsStored
  BY <1>11, FlushDurable
<1>12. CASE ExecutorStores \/ ExecutorRestarts
  BY <1>12, ExecutorDurable
<1>13. CASE CallFails \/ NodeRestarts \/ CommitUnanswered
  BY <1>13, FaultsDurable, Zenon
<1> QED BY <1>1, <1>2, <1>3, <1>4, <1>5, <1>6, <1>7, <1>8, <1>9, <1>10, <1>11, <1>12, <1>13
        DEF Next, Sync, Faults

\* checkFlushID: whatever the trusted node and the L1 give, and whatever fails or
\* restarts, a batch is committed only when the executor has stored its state.
THEOREM StateIsDurable == Spec => []RootsAreDurable
<1>1. DurableInv => RootsAreDurable
  <2> SUFFICES ASSUME DurableInv, NEW b \in Rows PROVE db.rows[b].root \in executor.stored
    BY Zenon DEF RootsAreDurable
  <2>1. b \in 1 .. Len(db.rows)
    BY Zenon DEF DurableInv, Rows, IsDB, IsSeq
  <2> QED BY <2>1, Zenon DEF DurableInv, Roots
<1> QED BY <1>1, DurableInit, DurableNext, PTL DEF Spec
=============================================================================
