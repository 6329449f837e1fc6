---------------------------- MODULE DeviceGrabs ----------------------------
(***************************************************************************)
(* Active and passive grabs of the master pointer and the master keyboard, *)
(* and the freezing and replaying of their events: dix/events.c, with      *)
(* ProcessDeviceEvent of Xext/xinput/exevents.c, the passive grabs of      *)
(* dix/grabs.c and the part of CloseDownClient and DeleteWindow that       *)
(* undoes grabs.                                                           *)
(*                                                                         *)
(* All of this runs in the main thread.  What makes it hard is that the    *)
(* functions call each other: thawing a device plays the events that were  *)
(* held back, playing an event may activate or deactivate a grab, and that *)
(* freezes and thaws devices in turn, all in the middle of the request or  *)
(* event that came first.  The calls that are under way are the variable   *)
(* stack; a request or a new event is looked at when it is empty.          *)
(*                                                                         *)
(* Each device has one button or key.  Slave devices, touches, gestures,   *)
(* XI2 enter and focus grabs, cursors and confinement are left out, and so *)
(* are time stamps: a request with an outdated one does nothing.           *)
(***************************************************************************)
EXTENDS Naturals, Sequences, SequencesExt, FiniteSets, FiniteSetsExt

CONSTANTS
  Clients,
  Windows,       \* the windows under the pointer, from the root down
  Owner,         \* the client that created a window, or NoClient
  NoClient,
  ActiveGrabs,   \* what clients ask for with GrabPointer and GrabKeyboard
  PassiveGrabs,  \* what clients ask for with GrabButton and GrabKey
  Selecting,     \* clients and windows on which they select button presses
  Destroyable,   \* windows that are destroyed by a request
  MaxEvents      \* bound: device events in this instance

Devices == {"pointer", "keyboard"}
Paired == [pointer |-> "keyboard", keyboard |-> "pointer"]
devices == <<"pointer", "keyboard">>      \* inputInfo.devices

(* A request for a grab; modes are the pointer mode and the keyboard mode. *)
GrabRequest == [client : Clients, dev : Devices, window : Range(Windows),
                modes : {"Sync", "Async"} \X {"Sync", "Async"}]

ASSUME GrabsAssumption ==
  /\ NoClient \notin Clients
  /\ Windows \in Seq(Range(Windows))
  /\ Windows # << >>
  /\ IsInjective(Windows)
  /\ NoClient \notin Range(Windows)
  /\ Owner \in [Range(Windows) -> Clients \cup {NoClient}]
  /\ ActiveGrabs \subseteq GrabRequest
  /\ PassiveGrabs \subseteq GrabRequest
  /\ Destroyable \subseteq {Last(Windows)}      \* windows without children
  /\ \A w \in Range(Windows) \ {Last(Windows)} : Owner[w] = NoClient
  /\ Selecting \subseteq Clients \X Range(Windows)
  /\ MaxEvents \in Nat

VARIABLES
  grab,          \* deviceGrab.grab: the active grab, or NullGrab
  fromPassive,   \* deviceGrab.fromPassiveGrab
  state,         \* deviceGrab.sync.state
  other,         \* deviceGrab.sync.other: the grab of another device that
                 \* freezes this one
  frozen,        \* deviceGrab.sync.frozen, and with it processInputProc
  event,         \* deviceGrab.sync.event
  pending,       \* syncEvents.pending
  playing,       \* syncEvents.playingEvents
  passive,       \* the passive grabs: wPassiveGrabs of all windows
  trace,         \* sprite and focus trace: the ones of Windows that are
                 \* mapped, in the order of Windows
  alive,         \* clients that are not clientGone
  stack,         \* calls under way, the innermost first
  next,          \* the number of the next device event
  posted,        \* whether the device's key or button was last posted as down
  done           \* history: the last event processed, per device

sync == <<state, other, frozen>>
input == <<next, posted, done>>
world == <<passive, trace, alive>>
vars == <<grab, fromPassive, state, other, frozen, event, pending, playing,
          passive, trace, alive, stack, next, posted, done>>

FrozenStates == {"FROZEN_NO_EVENT", "FROZEN_WITH_EVENT"}
GrabState == FrozenStates \cup
  {"NOT_GRABBED", "THAWED", "FREEZE_NEXT_EVENT", "FREEZE_BOTH_NEXT_EVENT"}
EventType == {"Press", "Release", "Motion"}
Event == [dev : Devices, id : 1..MaxEvents, type : EventType]

(* A grab record is known by its address.  Those allocated for a device    *)
(* are told apart by a number; two of them may be in use, while the grab   *)
(* is replaced by a new one.                                               *)
NullGrab == [dev |-> "none", nr |-> 0, client |-> NoClient, window |-> NoClient]
Grab == [dev : Devices, nr : 1..3, client : Clients, window : Range(Windows)]

NoEvent == [dev |-> "none", id |-> 0, type |-> "none"]

(* AllocGrab returns memory that is not in use.                            *)
AllocGrab(r) ==
  LET inUse == {grab[r.dev]} \cup {other[e] : e \in Devices}
      nr == CHOOSE n \in 1..3 :
              \A g \in inUse : g.dev = r.dev => g.nr # n
  IN  [dev |-> r.dev, nr |-> nr, client |-> r.client, window |-> r.window]

GrabbedBy(d, c) == grab[d] # NullGrab /\ grab[d].client = c
SyncedBy(oth, d, c) == oth[d] # NullGrab /\ oth[d].client = c

(* The modes of a grab as seen from a device.                              *)
thisMode(d, m) == IF d = "pointer" THEN m[1] ELSE m[2]
otherMode(d, m) == IF d = "pointer" THEN m[2] ELSE m[1]

---------------------------------------------------------------------------
(* ComputeFreezes, after sync.state and sync.other have been given the     *)
(* values st and oth: freeze and thaw the devices, and unless events are   *)
(* being played already, replay and play, before the calls in rest go on.  *)
ComputeFreezes(st, oth, replay, rest) ==
  /\ state' = st
  /\ other' = oth
  /\ frozen' = [d \in Devices |-> oth[d] # NullGrab \/ st[d] \in FrozenStates]
  /\ IF playing \/ (replay = << >> /\ pending = << >>)
       THEN /\ stack' = rest
            /\ UNCHANGED playing
       ELSE /\ stack' = replay \o <<[op |-> "PlayReleasedEvents"]>> \o rest
            /\ playing' = TRUE

(* A grab with the given modes has just become active on the device.       *)
CheckGrabForSyncs(d, g, m, rest) ==
  LET p == Paired[d]
      own == IF thisMode(d, m) = "Async" /\ SyncedBy(other, d, g.client)
               THEN NullGrab ELSE other[d]
      its == IF otherMode(d, m) = "Sync" THEN g
             ELSE IF SyncedBy(other, p, g.client) THEN NullGrab
             ELSE other[p]
  IN  ComputeFreezes(
        [state EXCEPT ![d] = IF thisMode(d, m) = "Sync" THEN "FROZEN_NO_EVENT"
                             ELSE "THAWED"],
        [other EXCEPT ![d] = own, ![p] = its], << >>, rest)

(* ActivatePointerGrab and ActivateKeyboardGrab.                           *)
ActivateGrab(r, isPassive, rest) ==
  LET g == AllocGrab(r)
  IN  /\ grab' = [grab EXCEPT ![r.dev] = g]
      /\ fromPassive' = [fromPassive EXCEPT ![r.dev] = isPassive]
      /\ CheckGrabForSyncs(r.dev, g, r.modes, rest)

(* Variant: other devices are left frozen by the grab.                     *)
DeactivateKeepsOther(d, oth, replay, rest) ==
  /\ grab' = [grab EXCEPT ![d] = NullGrab]
  /\ fromPassive' = [fromPassive EXCEPT ![d] = FALSE]
  /\ ComputeFreezes([state EXCEPT ![d] = "NOT_GRABBED"], oth, replay, rest)

(* DeactivatePointerGrab and DeactivateKeyboardGrab.  AllowSome has freed  *)
(* the device from the grabs in oth before it replays.                     *)
Deactivate(d, oth, replay, rest) ==
  /\ grab' = [grab EXCEPT ![d] = NullGrab]
  /\ fromPassive' = [fromPassive EXCEPT ![d] = FALSE]
  /\ ComputeFreezes(
       [state EXCEPT ![d] = "NOT_GRABBED"],
       [e \in Devices |-> IF oth[e] = grab[d] THEN NullGrab ELSE oth[e]],
       replay, rest)

DeactivateGrab(d, rest) == Deactivate(d, other, << >>, rest)

(* ActivatePassiveGrab: what ActivateGrabNoDelivery does when ActivateGrab *)
(* returns, which is after the events that this thawed, is a call of its   *)
(* own on the stack.                                                       *)
ActivatePassiveGrab(pg, e, rest) ==
  ActivateGrab(pg, TRUE, <<[op |-> "GrabActivated", event |-> e]>> \o rest)

(* CheckDeviceGrabs: the passive grab that the event activates is the      *)
(* first one found going down those windows of the trace.                  *)
CheckDeviceGrabs(e, windows) ==
  LET matching(w) == {pg \in passive : pg.window = w /\ pg.dev = e.dev}
      at == {i \in DOMAIN Windows :
               Windows[i] \in windows /\ matching(Windows[i]) # {}}
  IN  IF e.type # "Press" \/ grab[e.dev] # NullGrab \/ at = {} THEN {}
      ELSE matching(Windows[Min(at)])

(* DeliverDeviceEvents or DeliverFocusedEvent: a button press that reaches *)
(* a client starts an implicit grab.  Event masks are left out: it reaches *)
(* any of those that may have selected it, or none.                        *)
Deliver(e, rest) ==
  \/ /\ e.dev = "pointer"
     /\ e.type = "Press"
     /\ \E s \in Selecting :
          /\ s[1] \in alive
          /\ s[2] \in trace
          /\ ActivateGrab([client |-> s[1], dev |-> e.dev, window |-> s[2],
                           modes |-> <<"Async", "Async">>], TRUE, rest)
  \/ /\ stack' = rest
     /\ UNCHANGED <<grab, fromPassive, sync, playing>>

(* FreezeThisEventIfNeededForSyncGrab.                                     *)
FreezeThisEvent(e) ==
  LET d == e.dev
      p == Paired[d]
      both == state[d] = "FREEZE_BOTH_NEXT_EVENT"
      pair == both /\ state[p] = "FREEZE_BOTH_NEXT_EVENT"
              /\ grab[p].client = grab[d].client
  IN  IF state[d] \notin {"FREEZE_NEXT_EVENT", "FREEZE_BOTH_NEXT_EVENT"}
      THEN UNCHANGED <<sync, event>>
      ELSE /\ state' = [state EXCEPT ![d] = "FROZEN_WITH_EVENT",
                          ![p] = IF pair THEN "FROZEN_NO_EVENT" ELSE @]
           /\ other' = [other EXCEPT ![p] = IF both /\ ~pair THEN grab[d] ELSE @]
           /\ frozen' = [frozen EXCEPT ![d] = TRUE, ![p] = @ \/ both]
           /\ event' = [event EXCEPT ![d] = e]

(* ProcessDeviceEvent.  Whether a grabbed event reaches the grabbing       *)
(* client is up to the event mask of the grab; keyboard grabs have all     *)
(* keyboard events in theirs.                                              *)
ProcessDeviceEvent(e, rest) ==
  LET d == e.dev
      releases == e.type = "Release" /\ fromPassive[d]
      masks == IF grab[d].client \notin alive THEN {FALSE}
               ELSE IF d = "keyboard" THEN {TRUE} ELSE BOOLEAN
  IN  /\ done' = [done EXCEPT ![d] = e.id]
      /\ IF grab[d] = NullGrab
         THEN /\ UNCHANGED event
              /\ \/ \E pg \in CheckDeviceGrabs(e, trace) :
                      ActivatePassiveGrab(pg, e, rest)
                 \/ /\ CheckDeviceGrabs(e, trace) = {}
                    /\ Deliver(e, rest)
         ELSE \E delivered \in masks :
                IF releases
                THEN /\ DeactivateGrab(d, rest)
                     /\ UNCHANGED event
                ELSE /\ IF delivered /\ e.type # "Motion"
                          THEN FreezeThisEvent(e)
                          ELSE UNCHANGED <<sync, event>>
                     /\ stack' = rest
                     /\ UNCHANGED <<grab, fromPassive, playing>>

---------------------------------------------------------------------------
Init ==
  /\ grab = [d \in Devices |-> NullGrab]
  /\ fromPassive = [d \in Devices |-> FALSE]
  /\ state = [d \in Devices |-> "NOT_GRABBED"]
  /\ other = [d \in Devices |-> NullGrab]
  /\ frozen = [d \in Devices |-> FALSE]
  /\ event = [d \in Devices |-> NoEvent]
  /\ pending = << >>
  /\ playing = FALSE
  /\ passive = {}
  /\ trace = Range(Windows)
  /\ alive = Clients
  /\ stack = << >>
  /\ next = 1
  /\ posted = [d \in Devices |-> FALSE]
  /\ done = [d \in Devices |-> 0]

Idle == stack = << >>
Running(op) == stack # << >> /\ Head(stack).op = op

(* Variant: a motion replaces whatever came before it.                     *)
EnqueueEventOver(e) ==
  /\ frozen[e.dev]
  /\ pending' = IF pending # << >> /\ e.type = "Motion"
                   THEN Front(pending) \o <<e>> ELSE Append(pending, e)
  /\ UNCHANGED <<grab, fromPassive, sync, event, playing, stack, done>>

(* EnqueueEvent: the event of a frozen device is held back; a motion takes *)
(* the place of the last event when that is a motion of the same device.   *)
EnqueueEvent(e) ==
  /\ frozen[e.dev]
  /\ pending' =
       IF pending # << >> /\ e.type = "Motion"
          /\ Last(pending).type = "Motion" /\ Last(pending).dev = e.dev
       THEN Front(pending) \o <<e>>
       ELSE Append(pending, e)
  /\ UNCHANGED <<grab, fromPassive, sync, event, playing, stack, done>>

(* The event queue hands over an event of the device: the button or key    *)
(* goes down or up, or the pointer moves.                                  *)
InputEvent(d, type) ==
  LET e == [dev |-> d, id |-> next, type |-> type]
  IN  /\ Idle
      /\ next <= MaxEvents
      /\ type = (IF posted[d] THEN "Release" ELSE "Press")
         \/ (type = "Motion" /\ d = "pointer")
      /\ next' = next + 1
      /\ posted' = [posted EXCEPT ![d] = IF type = "Motion" THEN @ ELSE ~@]
      /\ \/ EnqueueEvent(e)
         \/ /\ ~frozen[d]
            /\ ProcessDeviceEvent(e, << >>)
            /\ UNCHANGED pending
      /\ UNCHANGED world

(* GrabDevice, called by ProcGrabPointer and ProcGrabKeyboard.             *)
GrabDevice(r) ==
  /\ Idle
  /\ r.client \in alive
  /\ grab[r.dev] = NullGrab \/ GrabbedBy(r.dev, r.client)  \* AlreadyGrabbed
  /\ r.window \in trace                            \* GrabNotViewable
  /\ ~(/\ frozen[r.dev]                                   \* GrabFrozen
       /\ other[r.dev] # NullGrab
       /\ other[r.dev].client # r.client)
  /\ ActivateGrab(r, FALSE, << >>)
  /\ UNCHANGED <<event, pending, world, input>>

(* ProcUngrabPointer and ProcUngrabKeyboard.                               *)
UngrabDevice(c, d) ==
  /\ Idle
  /\ c \in alive
  /\ GrabbedBy(d, c)
  /\ DeactivateGrab(d, << >>)
  /\ UNCHANGED <<event, pending, world, input>>

(* The conditions AllowSome computes before it does anything.              *)
thisGrabbed(c, d) == GrabbedBy(d, c)
thisSynced(c, d) ==
  \E e \in Devices \ {d} : GrabbedBy(e, c) /\ other[d] = grab[e]
othersFrozen(c, d) ==
  \E e \in Devices \ {d} : GrabbedBy(e, c) /\ state[e] \in FrozenStates

(* All devices the client has grabbed, or all but one, go to a state, and  *)
(* those its grabs have frozen are let go.                                 *)
SetAll(c, devs, st) ==
  ComputeFreezes(
    [e \in Devices |-> IF e \in devs /\ GrabbedBy(e, c) THEN st ELSE state[e]],
    [e \in Devices |-> IF e \in devs /\ SyncedBy(other, e, c) THEN NullGrab
                       ELSE other[e]],
    << >>, << >>)

(* AllowSome, called by ProcAllowEvents and ProcXIAllowEvents.             *)
AllowSome(c, d, newState) ==
  LET released ==
        IF thisSynced(c, d) THEN [other EXCEPT ![d] = NullGrab] ELSE other
  IN  /\ Idle
      /\ c \in alive
      /\ \/ thisGrabbed(c, d) /\ state[d] \in FrozenStates
         \/ thisSynced(c, d)
      /\ \/ /\ newState = "THAWED"
            /\ ComputeFreezes(
                 IF thisGrabbed(c, d) THEN [state EXCEPT ![d] = "THAWED"]
                 ELSE state, released, << >>, << >>)
            /\ UNCHANGED <<grab, fromPassive>>
         \/ /\ newState = "FREEZE_NEXT_EVENT"
            /\ thisGrabbed(c, d)
            /\ ComputeFreezes([state EXCEPT ![d] = "FREEZE_NEXT_EVENT"],
                              released, << >>, << >>)
            /\ UNCHANGED <<grab, fromPassive>>
         \/ /\ newState = "THAWED_BOTH"
            /\ othersFrozen(c, d)
            /\ SetAll(c, Devices, "THAWED")
            /\ UNCHANGED <<grab, fromPassive>>
         \/ /\ newState = "FREEZE_BOTH_NEXT_EVENT"
            /\ othersFrozen(c, d)
            /\ SetAll(c, Devices, "FREEZE_BOTH_NEXT_EVENT")
            /\ UNCHANGED <<grab, fromPassive>>
         \/ /\ newState = "NOT_GRABBED"
            /\ thisGrabbed(c, d)
            /\ state[d] = "FROZEN_WITH_EVENT"
            /\ Deactivate(d, released,
                 <<[op |-> "Replay", dev |-> d, window |-> grab[d].window]>>,
                 << >>)
         \/ /\ newState = "THAW_OTHERS"
            /\ othersFrozen(c, d)
            /\ SetAll(c, Devices \ {d}, "THAWED")
            /\ UNCHANGED <<grab, fromPassive>>
      /\ UNCHANGED <<event, pending, world, input>>

(* ProcGrabButton and ProcGrabKey: AddPassiveGrabToList refuses a grab of  *)
(* another client's combination and replaces the client's own.             *)
GrabButton(r) ==
  LET same == {pg \in passive : pg.window = r.window /\ pg.dev = r.dev}
  IN  /\ Idle
      /\ r.client \in alive
      /\ r.window \in trace
      /\ \A pg \in same : pg.client = r.client                \* BadAccess
      /\ passive' = (passive \ same) \cup {r}
      /\ UNCHANGED <<grab, fromPassive, sync, event, pending, playing, trace,
                     alive, stack, input>>

(* ProcUngrabButton and ProcUngrabKey.                                     *)
UngrabButton(pg) ==
  /\ Idle
  /\ pg \in passive
  /\ passive' = passive \ {pg}
  /\ UNCHANGED <<grab, fromPassive, sync, event, pending, playing, trace,
                 alive, stack, input>>

---------------------------------------------------------------------------
(* The calls that are under way.                                           *)

(* The part of ComputeFreezes that replays the event the device was frozen *)
(* with, below the window of the grab that was released.                   *)
Replay ==
  /\ Running("Replay")
  /\ LET call == Head(stack)
         e == event[call.dev]
         below == {w \in trace : \E i, j \in DOMAIN Windows :
                                   i < j /\ Windows[i] = call.window
                                         /\ Windows[j] = w}
         windows == IF call.window \in trace THEN below ELSE {}
     IN  \/ \E pg \in CheckDeviceGrabs(e, windows) :
              ActivatePassiveGrab(pg, e, Tail(stack))
         \/ /\ CheckDeviceGrabs(e, windows) = {}
            /\ Deliver(e, Tail(stack))
  /\ UNCHANGED <<event, pending, world, input>>

(* Variant: only the oldest event is looked at.                            *)
ReleasedFirst == {i \in DOMAIN pending : i = 1 /\ ~frozen[pending[i].dev]}

(* PlayReleasedEvents: the first event held back whose device is not       *)
(* frozen is processed, and the search starts again; when there is none,   *)
(* ComputeFreezes ends.                                                    *)
Released == {i \in DOMAIN pending : ~frozen[pending[i].dev]}

PlayReleasedEvents ==
  /\ Running("PlayReleasedEvents")
  /\ \/ /\ Released # {}
        /\ pending' = RemoveAt(pending, Min(Released))
        /\ ProcessDeviceEvent(pending[Min(Released)], stack)
     \/ /\ Released = {}
        /\ playing' = FALSE
        /\ stack' = Tail(stack)
        /\ UNCHANGED <<grab, fromPassive, sync, event, pending, done>>
  /\ UNCHANGED <<world, next, posted>>

(* Variant: the event is not saved for a replay.                           *)
GrabActivatedForgets ==
  /\ Running("GrabActivated")
  /\ LET d == Head(stack).event.dev
     IN  state' = [state EXCEPT ![d] =
                     IF @ = "FROZEN_NO_EVENT" THEN "FROZEN_WITH_EVENT" ELSE @]
  /\ stack' = Tail(stack)
  /\ UNCHANGED <<grab, fromPassive, other, frozen, event, pending, playing,
                 world, input>>

(* The end of ActivateGrabNoDelivery.                                      *)
GrabActivated ==
  /\ Running("GrabActivated")
  /\ LET e == Head(stack).event
     IN  /\ state' = [state EXCEPT ![e.dev] =
                        IF @ = "FROZEN_NO_EVENT" THEN "FROZEN_WITH_EVENT" ELSE @]
         /\ event' = [event EXCEPT ![e.dev] = e]
  /\ stack' = Tail(stack)
  /\ UNCHANGED <<grab, fromPassive, other, frozen, pending, playing, world,
                 input>>

(* Variants: one round only; rounds without end.                           *)
ReleaseRoundOnce(c, left, over) ==
  [op |-> "ReleaseActiveGrabs", client |-> c, left |-> left, over |-> TRUE]

ReleaseRoundAgain(c, left, over) ==
  [op |-> "ReleaseActiveGrabs", client |-> c, left |-> left, over |-> FALSE]

(* ReleaseActiveGrabs goes over the devices until it finds no grab of the  *)
(* client in a whole round: playing events may have activated new ones.    *)
ReleaseRound(c, left, over) ==
  [op |-> "ReleaseActiveGrabs", client |-> c, left |-> left, over |-> over]

ReleaseActiveGrabs ==
  /\ Running("ReleaseActiveGrabs")
  /\ LET call == Head(stack)
         c == call.client
         rest == Tail(stack)
     IN  \/ /\ call.left # << >>
            /\ GrabbedBy(Head(call.left), c)
            /\ DeactivateGrab(Head(call.left),
                 <<ReleaseRound(c, Tail(call.left), FALSE)>> \o rest)
            /\ UNCHANGED alive
         \/ /\ call.left # << >>
            /\ ~GrabbedBy(Head(call.left), c)
            /\ stack' = <<ReleaseRound(c, Tail(call.left), call.over)>> \o rest
            /\ UNCHANGED <<grab, fromPassive, sync, playing, alive>>
         \/ /\ call.left = << >>
            /\ ~call.over
            /\ stack' = <<ReleaseRound(c, devices, TRUE)>> \o rest
            /\ UNCHANGED <<grab, fromPassive, sync, playing, alive>>
         \/ /\ call.left = << >>
            /\ call.over
            /\ stack' = rest
            /\ alive' = alive \ {c}            \* clientGone
            /\ UNCHANGED <<grab, fromPassive, sync, playing>>
  /\ UNCHANGED <<event, pending, passive, trace, input>>

(* DeleteWindow: the grabs of the window go when it is unmapped, and again *)
(* with the passive grabs when its resources are freed.                    *)
WindowCalls(w) ==
  <<[op |-> "UnrealizeWindow", window |-> w, left |-> devices \o devices],
    [op |-> "FreeWindow", window |-> w, left |-> devices \o devices]>>

(* DeleteWindowFromAnyEvents looks at inputInfo.pointer and .keyboard      *)
(* first, and then at all the devices.                                     *)
DeleteWindowFromAnyEvents ==
  /\ Running("UnrealizeWindow") \/ Running("FreeWindow")
  /\ LET call == Head(stack)
         w == call.window
         on == call.left # << >> /\ grab[Head(call.left)].window = w
         rest == <<[call EXCEPT !.left = Tail(@)]>> \o Tail(stack)
     IN  \/ /\ on
            /\ DeactivateGrab(Head(call.left), rest)
            /\ UNCHANGED <<passive, trace>>
         \/ /\ call.left # << >>
            /\ ~on
            /\ stack' = rest
            /\ UNCHANGED <<grab, fromPassive, sync, playing, passive, trace>>
         \/ /\ call.left = << >>
            /\ stack' = Tail(stack)
            /\ trace' = trace \ {w}
            /\ passive' = IF call.op = "FreeWindow"
                            THEN {pg \in passive : pg.window # w} ELSE passive
            /\ UNCHANGED <<grab, fromPassive, sync, playing>>
  /\ UNCHANGED <<event, pending, alive, input>>

(* FreeClientResources: what the client has created is freed in the order  *)
(* of the hash table, which is any order.                                  *)
FreeClientResources ==
  /\ Running("FreeClientResources")
  /\ LET c == Head(stack).client
         grabs == {pg \in passive : pg.client = c}
         wins == {w \in trace : Owner[w] = c}
     IN  \/ \E pg \in grabs :
              /\ passive' = passive \ {pg}
              /\ UNCHANGED stack
         \/ \E w \in wins :
              /\ stack' = WindowCalls(w) \o stack
              /\ UNCHANGED passive
         \/ /\ grabs = {} /\ wins = {}
            /\ stack' = Tail(stack)
            /\ UNCHANGED passive
  /\ UNCHANGED <<grab, fromPassive, sync, event, pending, playing, trace,
                 alive, input>>

(* CloseDownClient of a client whose resources are not retained.           *)
CloseDownClient(c) ==
  /\ Idle
  /\ c \in alive
  /\ stack' = <<ReleaseRound(c, devices, TRUE),
                [op |-> "FreeClientResources", client |-> c]>>
  /\ UNCHANGED <<grab, fromPassive, sync, event, pending, playing, world, input>>

(* ProcDestroyWindow.                                                      *)
DestroyWindow(w) ==
  /\ Idle
  /\ w \in trace \cap Destroyable
  /\ stack' = WindowCalls(w)
  /\ UNCHANGED <<grab, fromPassive, sync, event, pending, playing, world, input>>

Calls ==
  \/ Replay
  \/ PlayReleasedEvents
  \/ GrabActivated
  \/ ReleaseActiveGrabs
  \/ DeleteWindowFromAnyEvents
  \/ FreeClientResources

NewState == {"THAWED", "FREEZE_NEXT_EVENT", "THAWED_BOTH",
             "FREEZE_BOTH_NEXT_EVENT", "NOT_GRABBED", "THAW_OTHERS"}

Next ==
  \/ Calls
  \/ \E d \in Devices, t \in EventType : InputEvent(d, t)
  \/ \E c \in Clients :
       \/ CloseDownClient(c)
       \/ \E d \in Devices :
            \/ UngrabDevice(c, d)
            \/ \E s \in NewState : AllowSome(c, d, s)
  \/ \E r \in ActiveGrabs : GrabDevice(r)
  \/ \E r \in PassiveGrabs : GrabButton(r)
  \/ \E pg \in passive : UngrabButton(pg)
  \/ \E w \in Range(Windows) : DestroyWindow(w)

Spec == Init /\ [][Next]_vars

(* The server finishes what it has begun.                                  *)
FairSpec == Spec /\ WF_vars(Calls)

---------------------------------------------------------------------------
Call ==
  [op : {"PlayReleasedEvents"}]
  \cup [op : {"Replay"}, dev : Devices, window : Range(Windows)]
  \cup [op : {"GrabActivated"}, event : Event]
  \cup [op : {"ReleaseActiveGrabs"}, client : Clients, left : Seq(Devices),
        over : BOOLEAN]
  \cup [op : {"UnrealizeWindow", "FreeWindow"}, window : Range(Windows),
        left : Seq(Devices)]
  \cup [op : {"FreeClientResources"}, client : Clients]

TypeOK ==
  /\ grab \in [Devices -> Grab \cup {NullGrab}]
  /\ fromPassive \in [Devices -> BOOLEAN]
  /\ state \in [Devices -> GrabState]
  /\ other \in [Devices -> Grab \cup {NullGrab}]
  /\ frozen \in [Devices -> BOOLEAN]
  /\ event \in [Devices -> Event \cup {NoEvent}]
  /\ pending \in Seq(Event)
  /\ playing \in BOOLEAN
  /\ passive \subseteq PassiveGrabs
  /\ trace \subseteq Range(Windows)
  /\ alive \subseteq Clients
  /\ stack \in Seq(Call)
  /\ next \in 1..(MaxEvents + 1)
  /\ posted \in [Devices -> BOOLEAN]
  /\ done \in [Devices -> 0..MaxEvents]

(* sync.other of a device is never a pointer to a grab that is gone: it is *)
(* the active grab of the other device of the pair.  CheckGrabForSyncs,    *)
(* the Deactivate functions and AllowSome keep it so without ever looking  *)
(* at who else points to a grab; AllowSome and GrabDevice dereference it.  *)
OtherIsActive ==
  \A d \in Devices : other[d] # NullGrab => grab[Paired[d]] = other[d]

(* A device is in a state other than NOT_GRABBED only with a grab, which   *)
(* FreezeThisEventIfNeededForSyncGrab and AllowSome dereference; between   *)
(* requests a frozen device is frozen by an active grab.                   *)
FrozenByGrab ==
  /\ \A d \in Devices : (state[d] = "NOT_GRABBED") = (grab[d] = NullGrab)
  /\ \A d \in Devices :
       frozen[d] = (other[d] # NullGrab \/ state[d] \in FrozenStates)

(* The fields of sync agree with each other and with the grabs in every    *)
(* state, in the middle of the calls too: each function reads those of the *)
(* other device, and none writes all of them.                              *)
GrabsConsistent == TypeOK /\ OtherIsActive /\ FrozenByGrab

(* Between requests no event is left in syncEvents.pending whose device is *)
(* not frozen: it would wait there for the next thaw of any device, while  *)
(* newer events of the device overtake it.                                 *)
NothingHeldForThawed ==
  Idle => /\ ~playing
          /\ \A i \in DOMAIN pending : frozen[pending[i].dev]

(* The event that a frozen device would replay is the last one of the      *)
(* device that was processed.                                              *)
ReplaysLastEvent ==
  \A d \in Devices :
    state[d] = "FROZEN_WITH_EVENT" => /\ event[d].dev = d
                                      /\ event[d].id = done[d]

(* A client that is gone has no grab: what it froze would stay frozen, and *)
(* nobody else could grab the device.                                      *)
NoGrabForTheDead ==
  Idle => \A d \in Devices : grab[d] # NullGrab => grab[d].client \in alive

(* No grab stays on a window that has been destroyed.                      *)
NoGrabOnDestroyedWindow ==
  Idle => \A d \in Devices :
            grab[d] # NullGrab => grab[d].window \in trace

(* Between requests no grab is left that ReleaseActiveGrabs or             *)
(* DeleteWindowFromAnyEvents should have undone.                           *)
NoGrabLeftBehind == NoGrabForTheDead /\ NoGrabOnDestroyedWindow

(* Each device's events are processed in order and exactly once: pending   *)
(* and what was played implement DeviceOrder.                              *)
Order == INSTANCE DeviceOrder WITH
  Event <- Event,
  held <- [d \in Devices |->
             {pending[i] : i \in {j \in DOMAIN pending : pending[j].dev = d}}]

EventsInOrder == Order!Spec

(* Whatever is begun ends: neither playing events, which starts again      *)
(* after each event, nor ReleaseActiveGrabs, which starts again after each *)
(* grab, goes on for ever.                                                 *)
CallsReturn == []<>Idle
=============================================================================
