----------------------------- MODULE DeviceOrder -----------------------------
(***************************************************************************)
(* What freezing promises about the events of a device, whatever grabs     *)
(* come and go: they are processed in the order in which they came, none   *)
(* is lost, and none is processed twice.  An event that finds older ones   *)
(* of its device held back waits behind them; the only one that may be     *)
(* left out is a motion that a later motion of the same device replaces.   *)
(***************************************************************************)
EXTENDS Naturals, Sequences

CONSTANTS Devices,
          Event   \* records with the fields dev, id and type

VARIABLES held,   \* per device, the events held back
          done    \* per device, the number of the last event processed

orderVars == <<held, done>>

Init ==
  /\ held = [d \in Devices |-> {}]
  /\ done = [d \in Devices |-> 0]

(* Events are numbered as they arrive: the oldest and the newest of those  *)
(* held back are the ones with the least and with the greatest number.     *)
Oldest(d) == {e \in held[d] : \A f \in held[d] : e.id <= f.id}
Newest(d) == {e \in held[d] : \A f \in held[d] : f.id <= e.id}

(* The event is newer than all that is known of its device.                *)
IsNew(e) ==
  /\ e.id > done[e.dev]
  /\ \A f \in held[e.dev] : e.id > f.id

(* An event is processed as it arrives: nothing older may be waiting.      *)
Pass(e) ==
  /\ IsNew(e)
  /\ held[e.dev] = {}
  /\ done' = [done EXCEPT ![e.dev] = e.id]
  /\ UNCHANGED held

(* An event is held back, behind the others of its device.                 *)
Hold(e) ==
  /\ IsNew(e)
  /\ held' = [held EXCEPT ![e.dev] = @ \cup {e}]
  /\ UNCHANGED done

(* A motion takes the place of the motion held back just before it.        *)
Replace(e) ==
  /\ IsNew(e)
  /\ e.type = "Motion"
  /\ \E f \in Newest(e.dev) :
       /\ f.type = "Motion"
       /\ held' = [held EXCEPT ![e.dev] = (@ \ {f}) \cup {e}]
  /\ UNCHANGED done

(* The oldest event held back is processed.                                *)
Play(d) ==
  \E e \in Oldest(d) :
    /\ done' = [done EXCEPT ![d] = e.id]
    /\ held' = [held EXCEPT ![d] = @ \ {e}]

(* At most one event is handled per step.                                  *)
Next ==
  \/ \E d \in Devices : Play(d)
  \/ \E e \in Event : Pass(e) \/ Hold(e) \/ Replace(e)

Spec == Init /\ [][Next]_orderVars
=============================================================================
