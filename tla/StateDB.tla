------------------------------ MODULE StateDB ------------------------------
(***************************************************************************)
(* The tables of the state database the synchronizer writes, and the       *)
(* functions of state/ and state/pgstatestorage/ it writes them with.      *)
(*                                                                         *)
(* A database d has the tables                                             *)
(*   blocks    L1 blocks by number, each with its hash and its event       *)
(*   rows      state.batch: rows[b] is batch b (the genesis batch 0 is     *)
(*             left out: it has no data and its root is the empty one)     *)
(*   virtual   state.virtual_batch: the L1 block that sequenced batch b    *)
(*   verified  state.verified_batch: the block and the root of batch b     *)
(*   forced    state.forced_batch: the block and the data of forced batch  *)
(*   seqs      state.sequences: the last batch of the sequence from b      *)
(* The data of a batch is the sequence of its L2 blocks and a state root   *)
(* is the sequence of all the L2 blocks executed up to it, so that two     *)
(* roots are equal when the same blocks were executed in the same order.   *)
(* An operator that may fail returns NoDB, and the transaction is rolled   *)
(* back.                                                                   *)
(***************************************************************************)
EXTENDS Naturals, Sequences, FiniteSets, FiniteSetsExt, Functions

NoDB == [failed |-> TRUE]
NoForced == 0

\* One run of the executor over data.
Execute(root, data) == root \o data

LastBatch(d) == Len(d.rows)
LastBlock(d) == Max(DOMAIN d.blocks)
LastVirtual(d) == Max(DOMAIN d.virtual \cup {0})
LastVerified(d) == Max(DOMAIN d.verified \cup {0})
RootOf(d, b) == IF b = 0 THEN <<>> ELSE d.rows[b].root

\* INSERT into a table with a primary key.
Insert(table, key, value) ==
  [k \in DOMAIN table \cup {key} |-> IF k = key THEN value ELSE table[k]]

AddBlock(d, n, block) ==
  IF n \in DOMAIN d.blocks THEN NoDB ELSE [d EXCEPT !.blocks = Insert(@, n, block)]

\* OpenBatch: the number follows the last one, the last batch is closed, and a
\* forced batch is in its table (a foreign key).
CanOpen(d, b, forced) ==
  /\ b = LastBatch(d) + 1
  /\ LastBatch(d) > 0 => ~d.rows[LastBatch(d)].wip
  /\ forced # NoForced => forced \in DOMAIN d.forced

Closed(data, root, forced) ==
  [data |-> data, root |-> root, wip |-> FALSE, forced |-> forced, ler |-> TRUE]

\* ProcessAndStoreClosedBatch and ProcessAndStoreClosedBatchV2.
ProcessAndStoreClosedBatch(d, b, data, forced) ==
  IF ~CanOpen(d, b, forced) THEN NoDB
  ELSE [d EXCEPT !.rows = Append(@, Closed(data, Execute(RootOf(d, b - 1), data), forced))]

AddVirtualBatch(d, b, n) ==
  IF b \in DOMAIN d.virtual THEN NoDB ELSE [d EXCEPT !.virtual = Insert(@, b, n)]

AddSequence(d, from, to) == [d EXCEPT !.seqs = Insert(@, from, to)]

\* AddVerifiedBatch: a verified batch references a virtual one.
AddVerifiedBatches(d, batches, n, root) ==
  IF ~(batches \subseteq DOMAIN d.virtual \ DOMAIN d.verified) THEN NoDB
  ELSE [d EXCEPT !.verified = [b \in DOMAIN @ \cup batches |->
          IF b \in batches THEN [block |-> n, root |-> root] ELSE @[b]]]

AddForcedBatch(d, f, data, n) ==
  IF f \in DOMAIN d.forced THEN NoDB
  ELSE [d EXCEPT !.forced = Insert(@, f, [block |-> n, data |-> data])]

\* GetNextForcedBatches: the stored ones after the last one that is virtual.
NextForced(d) ==
  LET done == {d.rows[b].forced : b \in DOMAIN d.virtual}
      left == {f \in DOMAIN d.forced : f > Max(done \cup {NoForced})}
  IN IF left = {} THEN NoForced ELSE Min(left)

\* ResetTrustedState deletes batches; virtual batches, their verification and
\* sequences go with them (ON DELETE CASCADE).
ResetTrustedState(d, last) ==
  [d EXCEPT !.rows = SubSeq(@, 1, last),
            !.virtual = Restrict(@, {b \in DOMAIN @ : b <= last}),
            !.verified = Restrict(@, {b \in DOMAIN @ : b <= last}),
            !.seqs = Restrict(@, {b \in DOMAIN @ : b <= last /\ @[b] <= last})]

\* Mutant: the verified batches stay.
ResetKeepsVerified(d, last) ==
  [d EXCEPT !.blocks = Restrict(@, {n \in DOMAIN @ : n <= last}),
            !.virtual = Restrict(@, {b \in DOMAIN @ : @[b] <= last}),
            !.forced = Restrict(@, {f \in DOMAIN @ : @[f].block <= last})]

\* Reset deletes L1 blocks; what they brought goes with them, batches and
\* sequences stay.  A batch that references a forced batch keeps it from being
\* deleted: that foreign key does not cascade.
Reset(d, last) ==
  LET virtual == {b \in DOMAIN d.virtual : d.virtual[b] <= last}
  IN IF \E b \in DOMAIN d.rows : /\ d.rows[b].forced \in DOMAIN d.forced
                                 /\ d.forced[d.rows[b].forced].block > last
     THEN NoDB
     ELSE [d EXCEPT !.blocks = Restrict(@, {n \in DOMAIN @ : n <= last}),
                    !.virtual = Restrict(@, virtual),
                    !.verified = Restrict(@, {b \in DOMAIN @ \cap virtual : @[b].block <= last}),
                    !.forced = Restrict(@, {f \in DOMAIN @ : @[f].block <= last})]
=============================================================================
