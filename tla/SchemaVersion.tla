---------------------------- MODULE SchemaVersion ----------------------------
(***************************************************************************)
(* What pkg/migrate promises of a database whose files all run in a        *)
(* transaction: the schema is always exactly "the first n migrations",     *)
(* schema and tracking table change together, and one step forward or back *)
(* is one indivisible change of n.                                         *)
(***************************************************************************)
EXTENDS Integers

CONSTANT Versions  \* the migrations, numbered in their sort order

VARIABLES recorded, effect

Init ==
  /\ recorded = {}
  /\ effect = [v \in Versions |-> 0]

Forward(v) ==
  /\ v \notin recorded
  /\ \A w \in Versions : w < v => w \in recorded
  /\ recorded' = recorded \cup {v}
  /\ effect' = [effect EXCEPT ![v] = 1]

Backward(v) ==
  /\ v \in recorded
  /\ \A w \in recorded : w <= v
  /\ recorded' = recorded \ {v}
  /\ effect' = [effect EXCEPT ![v] = 0]

Next == \E v \in Versions : Forward(v) \/ Backward(v)

Spec == Init /\ [][Next]_<<recorded, effect>>
=============================================================================
