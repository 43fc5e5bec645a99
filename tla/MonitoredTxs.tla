---------------------------- MODULE MonitoredTxs ----------------------------
(***************************************************************************)
(* What the L1 transaction manager promises to the components that give it *)
(* transactions (the sequence sender): the data of a row takes effect on   *)
(* the L1 at most once, and only while the row is pending; the row is      *)
(* reported as confirmed only after the state has the L1 block in which it *)
(* took effect; it is done only after that report.                         *)
(***************************************************************************)
EXTENDS Naturals

CONSTANT Ids

VARIABLES
  row,      \* the stage of each row
  effects,  \* where on the L1 the data of a row took effect
  l1,       \* number of the last L1 block
  known     \* number of the last L1 block the state has

mvars == <<row, effects, l1, known>>

Stages == {"none", "pending", "confirmed", "done"}
Effect == [block : Nat, id : Ids]

Effective(i) == \E e \in effects : e.id = i
EffectKnown(i) == \E e \in effects : e.id = i /\ e.block <= known

Init == row = [i \in Ids |-> "none"] /\ effects = {} /\ l1 = 0 /\ known = 0

Add(i) ==
  /\ row[i] = "none"
  /\ row' = [row EXCEPT ![i] = "pending"]
  /\ UNCHANGED <<effects, l1, known>>

\* A new L1 block in which the data of row i takes effect ...
TakeEffect(i) ==
  /\ row[i] = "pending" /\ ~Effective(i)
  /\ l1' = l1 + 1
  /\ effects' = effects \cup {[block |-> l1 + 1, id |-> i]}
  /\ UNCHANGED <<row, known>>

\* ... or in which nothing of the node does.
OtherBlock == l1' = l1 + 1 /\ UNCHANGED <<row, effects, known>>

Learn ==
  /\ known < l1
  /\ known' = known + 1
  /\ UNCHANGED <<row, effects, l1>>

Confirm(i) ==
  /\ row[i] = "pending" /\ EffectKnown(i)
  /\ row' = [row EXCEPT ![i] = "confirmed"]
  /\ UNCHANGED <<effects, l1, known>>

Finish(i) ==
  /\ row[i] = "confirmed"
  /\ row' = [row EXCEPT ![i] = "done"]
  /\ UNCHANGED <<effects, l1, known>>

Next ==
  \/ OtherBlock \/ Learn
  \/ \E i \in Ids : Add(i) \/ TakeEffect(i) \/ Confirm(i) \/ Finish(i)

Spec == Init /\ [][Next]_mvars
=============================================================================
