------------------------------- MODULE MCSync -------------------------------
(***************************************************************************)
(* Instances of Sync for TLC: counters of the client A and B, and values   *)
(* from -4 to 3.                                                           *)
(***************************************************************************)
EXTENDS Sync

MCOwner == [k |-> "A", l |-> "B", f |-> "A", a |-> "B"]

Cond(k, valueType, value, type) ==
  [obj |-> k, valueType |-> valueType, value |-> value, testType |-> type]

(* Two conditions on one counter, with one on another between them; and a  *)
(* relative one.                                                           *)
MCAwaits ==
  {<<Cond("k", "Absolute", 1, "PositiveComparison"),
     Cond("l", "Absolute", 0, "NegativeTransition"),
     Cond("k", "Absolute", 0, "PositiveTransition")>>,
   <<Cond("k", "Relative", -1, "NegativeComparison")>>}
MCFenceAwaits == {<<"f", "f">>}
MCNewValues == {-1, 2}

MCAlarms ==
  {[counter |-> "k", value |-> 0, delta |-> 2],
   [counter |-> "k", value |-> 0, testType |-> "PositiveTransition", delta |-> 0],
   [counter |-> "l", valueType |-> "Relative", value |-> -1,
    testType |-> "NegativeComparison", delta |-> -1],
   [counter |-> None]}
=============================================================================
