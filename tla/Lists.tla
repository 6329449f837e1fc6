------------------------------- MODULE Lists -------------------------------
(***************************************************************************)
(* A list from which entries are deleted, as by xorg_list_del in           *)
(* include/list.h, SyncDeleteTriggerFromSyncObject in Xext/sync/sync.c and *)
(* ClientWakeup in dix/dixutils.c.  Keep is SelectSeq with the places that *)
(* stay in the list; it is written without recursion, so that its          *)
(* properties can be proved.                                               *)
(***************************************************************************)
EXTENDS Integers, Sequences, FiniteSets

(* The number of places up to i, and the place that has j up to it.        *)
Rank(places, i) == Cardinality({h \in places : h <= i})
Nth(places, j) == CHOOSE i \in places : Rank(places, i) = j

Keep(list, places) ==
  [j \in 1..Cardinality(places) |-> list[Nth(places, j)]]
=============================================================================
