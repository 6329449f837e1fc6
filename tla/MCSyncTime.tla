----------------------------- MODULE MCSyncTime -----------------------------
(***************************************************************************)
(* Instances of SyncTime for TLC, with values from -8 to 7.                *)
(***************************************************************************)
EXTENDS SyncTime

On(k, valueType, v, type, delta, await) ==
  [counter |-> k, valueType |-> valueType, value |-> v, testType |-> type,
   delta |-> delta, await |-> await]

Server(valueType, v, delta, await) ==
  On("SERVERTIME", valueType, v, "PositiveComparison", delta, await)

Idle(v, type) == On("IDLETIME", "Absolute", v, type, 0, TRUE)

(* One watcher on each counter: a periodic alarm, or an Await, on the      *)
(* time, and an Await of more or of less idle time.                        *)
MCAsks ==
  [timed |-> {Server("Relative", 2, 2, FALSE), Server("Absolute", 5, 0, TRUE)},
   idle |-> {Idle(3, "PositiveComparison"), Idle(1, "NegativeComparison"),
             Idle(1, "NegativeTransition")}]
=============================================================================
