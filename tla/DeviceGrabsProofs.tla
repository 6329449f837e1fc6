------------------------- MODULE DeviceGrabsProofs -------------------------
(***************************************************************************)
(* Theorems about DeviceGrabs, for every set of clients, windows, grabs    *)
(* and any number of events.                                               *)
(*                                                                         *)
(* The inductive invariant Inv has three parts.  SyncInv is about the      *)
(* devices: their grabs and what freezes them.  HeldInv is about the       *)
(* events that are held back or saved, and so about the calls that will    *)
(* process them.  WindowInv is about the calls that destroy a window.      *)
(* With ClientsInv, which needs an assumption on who owns windows, they    *)
(* imply the safety properties of DeviceGrabs; HeldInv also gives the      *)
(* refinement of DeviceOrder.                                              *)
(***************************************************************************)
EXTENDS DeviceGrabs, SetLemmas, SequenceTheorems

(* The grab of a device is one of its own.                                 *)
GrabOfDevice == \A d \in Devices : grab[d] # NullGrab => grab[d].dev = d

SyncInv == GrabOfDevice /\ OtherIsActive /\ FrozenByGrab

(* There is a call that plays events, if p, and never two of them.         *)
PlaysIn(calls, p) ==
  /\ p = (\E i \in DOMAIN calls : calls[i].op = "PlayReleasedEvents")
  /\ \A i, j \in DOMAIN calls :
       /\ calls[i].op = "PlayReleasedEvents"
       /\ calls[j].op = "PlayReleasedEvents"
       => i = j

(* playingEvents is set while there is one.                                *)
PlayedOnce == PlaysIn(stack, playing)

(* Whatever can be played is being played.                                 *)
HeldFrozen == ~playing => \A i \in DOMAIN pending : frozen[pending[i].dev]

(* Events are held in the order in which they came, and all those that are *)
(* held came after what has been processed.                                *)
HeldInOrder ==
  /\ \A i, j \in DOMAIN pending : i < j => pending[i].id < pending[j].id
  /\ \A i \in DOMAIN pending :
       done[pending[i].dev] < pending[i].id /\ pending[i].id < next
  /\ \A d \in Devices : done[d] < next

(* A replay comes first, while the device has no grab, and the event to    *)
(* replay is the one that was processed last.                              *)
ReplayFirst ==
  \A i \in DOMAIN stack : stack[i].op = "Replay" =>
    /\ i = 1
    /\ playing
    /\ grab[stack[i].dev] = NullGrab
    /\ event[stack[i].dev].dev = stack[i].dev
    /\ event[stack[i].dev].id = done[stack[i].dev]

(* The event with which a grab was activated is still the last one when    *)
(* the activation ends: what is played in between is another device's.     *)
ActivatedIsLast ==
  \A i \in DOMAIN stack : stack[i].op = "GrabActivated" =>
    /\ done[stack[i].event.dev] = stack[i].event.id
    /\ i > 1 => \A j \in DOMAIN pending :
                  pending[j].dev # stack[i].event.dev

HeldInv ==
  PlayedOnce /\ HeldFrozen /\ HeldInOrder /\ ReplayFirst
  /\ ActivatedIsLast /\ ReplaysLastEvent

(* A window is unmapped before it is freed, and only windows that are      *)
(* unmapped are freed.                                                     *)
UnmappedFirst ==
  \A i \in DOMAIN stack :
    /\ stack[i].op = "UnrealizeWindow" =>
         /\ i + 1 \in DOMAIN stack
         /\ stack[i + 1] = [op |-> "FreeWindow", window |-> stack[i].window,
                            left |-> devices \o devices]
    /\ stack[i].op = "FreeWindow" =>
         \/ stack[i].window \notin trace
         \/ /\ i > 1
            /\ stack[i - 1].op = "UnrealizeWindow"
            /\ stack[i - 1].window = stack[i].window

(* A grab on a window that is not mapped is one that FreeWindow will undo. *)
GrabOnTrace ==
  \A d \in Devices : grab[d] # NullGrab /\ grab[d].window \notin trace =>
    \E i \in DOMAIN stack : /\ stack[i].op = "FreeWindow"
                            /\ stack[i].window = grab[d].window
                            /\ \E k \in DOMAIN stack[i].left :
                                 stack[i].left[k] = d

WindowInv == UnmappedFirst /\ GrabOnTrace

Inv == TypeOK /\ SyncInv /\ HeldInv /\ WindowInv

---------------------------------------------------------------------------
(* Facts about the data.                                                   *)

LEMMA PairedProperties ==
  \A d \in Devices : /\ Paired[d] \in Devices
                     /\ Paired[d] # d
                     /\ Paired[Paired[d]] = d
                     /\ \A e \in Devices : e = d \/ e = Paired[d]
BY DEF Devices, Paired

LEMMA NullGrabProperties == NullGrab \notin Grab /\ NullGrab.dev \notin Devices
BY DEF NullGrab, Grab, Devices

LEMMA GrabFields ==
  ASSUME NEW g \in Grab
  PROVE  /\ g.dev \in Devices /\ g.nr \in 1..3 /\ g.client \in Clients
         /\ g.window \in Range(Windows)
BY DEF Grab

(* The types of what activating and deactivating a grab changes.           *)
GrabTypes ==
  /\ grab \in [Devices -> Grab \cup {NullGrab}]
  /\ fromPassive \in [Devices -> BOOLEAN]
  /\ state \in [Devices -> GrabState]
  /\ other \in [Devices -> Grab \cup {NullGrab}]
  /\ frozen \in [Devices -> BOOLEAN]
  /\ playing \in BOOLEAN

(* At most one grab of a device is in use when AllocGrab is called, so     *)
(* that there is a number left.                                            *)
LEMMA AllocGrabType ==
  ASSUME GrabTypes, SyncInv, NEW r \in GrabRequest
  PROVE  /\ AllocGrab(r) \in Grab
         /\ AllocGrab(r) # NullGrab
         /\ AllocGrab(r).dev = r.dev
         /\ AllocGrab(r).client = r.client
         /\ AllocGrab(r).window = r.window
<1> DEFINE inUse == {grab[r.dev]} \cup {other[e] : e \in Devices}
           Free(n) == \A g \in inUse : g.dev = r.dev => g.nr # n
<1>1. r.dev \in Devices /\ r.client \in Clients /\ r.window \in Range(Windows)
  BY DEF GrabRequest
<1>2. \A e \in Devices : other[e].dev = r.dev => other[e] = grab[r.dev]
  <2> SUFFICES ASSUME NEW e \in Devices, other[e].dev = r.dev
               PROVE  other[e] = grab[r.dev]
    OBVIOUS
  <2>1. other[e] # NullGrab
    BY <1>1, NullGrabProperties
  <2>2. grab[Paired[e]] = other[e] /\ Paired[e] \in Devices
    BY <2>1, PairedProperties DEF SyncInv, OtherIsActive
  <2>3. Paired[e] = r.dev
    BY <2>1, <2>2 DEF SyncInv, GrabOfDevice
  <2> QED  BY <2>2, <2>3
<1>3. \A g \in inUse : g.dev = r.dev => g = grab[r.dev]
  BY <1>2
<1>4. \E n \in 1..3 : Free(n)
  <2>1. CASE grab[r.dev].nr = 1
    <3>1. Free(2)
      BY <1>3, <2>1
    <3> QED  BY <3>1
  <2>2. CASE grab[r.dev].nr # 1
    <3>1. Free(1)
      BY <1>3, <2>2
    <3> QED  BY <3>1
  <2> QED  BY <2>1, <2>2
<1> DEFINE nr == CHOOSE n \in 1..3 : Free(n)
<1>5. nr \in 1..3
  <2> HIDE DEF Free
  <2> QED  BY <1>4
<1>6. AllocGrab(r) = [dev |-> r.dev, nr |-> nr, client |-> r.client,
                      window |-> r.window]
  BY DEF AllocGrab
<1> HIDE DEF nr
<1>7. AllocGrab(r) \in Grab
  BY <1>1, <1>5, <1>6 DEF Grab
<1> QED  BY <1>6, <1>7, NullGrabProperties

---------------------------------------------------------------------------
(* The devices.                                                            *)

(* ComputeFreezes freezes exactly those devices that it should, when each  *)
(* of them has been given a state and a grab that go with the grabs.       *)
LEMMA FreezesKeepSync ==
  ASSUME NEW st \in [Devices -> GrabState],
         NEW oth \in [Devices -> Grab \cup {NullGrab}],
         NEW replay, NEW rest,
         playing \in BOOLEAN,
         grab' \in [Devices -> Grab \cup {NullGrab}],
         fromPassive' \in [Devices -> BOOLEAN],
         GrabOfDevice',
         \A d \in Devices : oth[d] # NullGrab => grab'[Paired[d]] = oth[d],
         \A d \in Devices : (st[d] = "NOT_GRABBED") = (grab'[d] = NullGrab),
         ComputeFreezes(st, oth, replay, rest)
  PROVE  GrabTypes' /\ SyncInv'
<1>1. /\ state' = st
      /\ other' = oth
      /\ frozen' = [d \in Devices |-> oth[d] # NullGrab \/ st[d] \in FrozenStates]
      /\ playing' \in BOOLEAN
  BY DEF ComputeFreezes
<1>2. frozen' \in [Devices -> BOOLEAN]
  BY <1>1
<1>3. GrabTypes'
  BY <1>1, <1>2 DEF GrabTypes
<1>4. OtherIsActive'
  BY <1>1 DEF OtherIsActive
<1>5. FrozenByGrab'
  BY <1>1 DEF FrozenByGrab
<1> QED  BY <1>3, <1>4, <1>5 DEF SyncInv

(* A grab becomes active on a device that has none, or one of the same     *)
(* client.                                                                 *)
LEMMA ActivateKeepsSync ==
  ASSUME GrabTypes, SyncInv,
         NEW r \in GrabRequest, NEW isPassive \in BOOLEAN, NEW rest,
         grab[r.dev] = NullGrab \/ GrabbedBy(r.dev, r.client),
         ActivateGrab(r, isPassive, rest)
  PROVE  GrabTypes' /\ SyncInv'
<1> DEFINE d == r.dev
           p == Paired[r.dev]
           g == AllocGrab(r)
           m == r.modes
           own == IF thisMode(d, m) = "Async" /\ SyncedBy(other, d, g.client)
                    THEN NullGrab ELSE other[d]
           its == IF otherMode(d, m) = "Sync" THEN g
                  ELSE IF SyncedBy(other, p, g.client) THEN NullGrab
                  ELSE other[p]
           st == [state EXCEPT ![d] = IF thisMode(d, m) = "Sync"
                                      THEN "FROZEN_NO_EVENT" ELSE "THAWED"]
           oth == [other EXCEPT ![d] = own, ![p] = its]
<1>1. d \in Devices /\ p \in Devices /\ p # d /\ Paired[p] = d
      /\ \A e \in Devices : e = d \/ e = p
  BY PairedProperties DEF GrabRequest
<1>2. g \in Grab /\ g # NullGrab /\ g.dev = d /\ g.client = r.client
  BY AllocGrabType
<1>3. /\ grab' = [grab EXCEPT ![d] = g]
      /\ fromPassive' = [fromPassive EXCEPT ![d] = isPassive]
      /\ ComputeFreezes(st, oth, << >>, rest)
  BY DEF ActivateGrab, CheckGrabForSyncs
<1>4. grab' \in [Devices -> Grab \cup {NullGrab}]
      /\ fromPassive' \in [Devices -> BOOLEAN]
      /\ grab'[d] = g /\ grab'[p] = grab[p]
  BY <1>1, <1>2, <1>3 DEF GrabTypes
<1>5. st \in [Devices -> GrabState] /\ st[d] # "NOT_GRABBED" /\ st[p] = state[p]
  BY <1>1 DEF GrabTypes, GrabState, FrozenStates
<1>6. own \in Grab \cup {NullGrab} /\ own \in {NullGrab, other[d]}
  BY <1>1 DEF GrabTypes
<1>7. its \in Grab \cup {NullGrab} /\ its \in {NullGrab, g}
  <2>1. CASE other[p] = NullGrab
    BY <1>2, <2>1 DEF SyncedBy
  <2>2. CASE other[p] # NullGrab
    <3>1. grab[d] = other[p]
      BY <1>1, <2>2 DEF SyncInv, OtherIsActive
    <3>2. other[p].client = r.client
      BY <2>2, <3>1 DEF GrabbedBy
    <3> QED  BY <1>2, <2>2, <3>2 DEF SyncedBy
  <2> QED  BY <2>1, <2>2
<1> HIDE DEF g, own, its
<1>8. oth \in [Devices -> Grab \cup {NullGrab}] /\ oth[d] = own /\ oth[p] = its
  BY <1>1, <1>6, <1>7 DEF GrabTypes
<1> HIDE DEF st, oth
<1>9. GrabOfDevice'
  BY <1>1, <1>2, <1>4 DEF GrabOfDevice, SyncInv
<1>10. \A e \in Devices : oth[e] # NullGrab => grab'[Paired[e]] = oth[e]
  <2>1. other[d] # NullGrab => grab[p] = other[d]
    BY <1>1 DEF SyncInv, OtherIsActive
  <2> QED  BY <1>1, <1>4, <1>6, <1>7, <1>8, <2>1
<1>11. \A e \in Devices : (st[e] = "NOT_GRABBED") = (grab'[e] = NullGrab)
  <2>1. (state[p] = "NOT_GRABBED") = (grab[p] = NullGrab)
    BY <1>1 DEF SyncInv, FrozenByGrab
  <2> QED  BY <1>1, <1>2, <1>4, <1>5, <2>1
<1>12. playing \in BOOLEAN
  BY DEF GrabTypes
<1> QED  BY <1>3, <1>4, <1>5, <1>8, <1>9, <1>10, <1>11, <1>12, FreezesKeepSync

(* The grab of a device is undone, and devices that it froze are let go.   *)
LEMMA DeactivateKeepsSync ==
  ASSUME GrabTypes, SyncInv,
         NEW d \in Devices,
         NEW oth0 \in [Devices -> Grab \cup {NullGrab}],
         \A e \in Devices : oth0[e] \in {other[e], NullGrab},
         grab[d] # NullGrab,
         NEW replay, NEW rest,
         Deactivate(d, oth0, replay, rest)
  PROVE  GrabTypes' /\ SyncInv'
<1> DEFINE p == Paired[d]
           st == [state EXCEPT ![d] = "NOT_GRABBED"]
           oth == [e \in Devices |-> IF oth0[e] = grab[d] THEN NullGrab ELSE oth0[e]]
<1>1. p \in Devices /\ p # d /\ Paired[p] = d /\ \A e \in Devices : e = d \/ e = p
  BY PairedProperties
<1>2. /\ grab' = [grab EXCEPT ![d] = NullGrab]
      /\ fromPassive' = [fromPassive EXCEPT ![d] = FALSE]
      /\ ComputeFreezes(st, oth, replay, rest)
  BY DEF Deactivate
<1>3. grab' \in [Devices -> Grab \cup {NullGrab}]
      /\ fromPassive' \in [Devices -> BOOLEAN]
      /\ grab'[d] = NullGrab /\ grab'[p] = grab[p]
  BY <1>1, <1>2 DEF GrabTypes
<1>4. st \in [Devices -> GrabState] /\ st[d] = "NOT_GRABBED" /\ st[p] = state[p]
  BY <1>1 DEF GrabTypes, GrabState
<1>5. oth \in [Devices -> Grab \cup {NullGrab}]
  OBVIOUS
<1>6. GrabOfDevice'
  BY <1>1, <1>3 DEF GrabOfDevice, SyncInv
<1>7. \A e \in Devices : oth[e] # NullGrab => grab'[Paired[e]] = oth[e]
  <2>1. oth[d] \in {NullGrab, other[d]}
    OBVIOUS
  <2>2. oth[p] \in {NullGrab, other[p]} /\ oth[p] # grab[d]
    BY <1>1
  <2>3. other[d] # NullGrab => grab[p] = other[d]
    BY <1>1 DEF SyncInv, OtherIsActive
  <2>4. other[p] # NullGrab => grab[d] = other[p]
    BY <1>1 DEF SyncInv, OtherIsActive
  <2>5. oth[p] = NullGrab
    BY <2>2, <2>4
  <2> QED  BY <1>1, <1>3, <2>1, <2>3, <2>5
<1>8. \A e \in Devices : (st[e] = "NOT_GRABBED") = (grab'[e] = NullGrab)
  <2>1. (state[p] = "NOT_GRABBED") = (grab[p] = NullGrab)
    BY <1>1 DEF SyncInv, FrozenByGrab
  <2> QED  BY <1>1, <1>3, <1>4, <2>1
<1>9. playing \in BOOLEAN
  BY DEF GrabTypes
<1> HIDE DEF st, oth
<1> QED  BY <1>2, <1>3, <1>4, <1>5, <1>6, <1>7, <1>8, <1>9, FreezesKeepSync

(* States are changed for some devices with a grab, and devices let go.    *)
LEMMA SetStatesKeepsSync ==
  ASSUME GrabTypes, SyncInv,
         NEW st \in [Devices -> GrabState],
         NEW oth \in [Devices -> Grab \cup {NullGrab}],
         \A d \in Devices : \/ st[d] = state[d]
                            \/ st[d] # "NOT_GRABBED" /\ grab[d] # NullGrab,
         \A d \in Devices : oth[d] \in {other[d], NullGrab},
         NEW replay, NEW rest,
         ComputeFreezes(st, oth, replay, rest),
         UNCHANGED <<grab, fromPassive>>
  PROVE  GrabTypes' /\ SyncInv'
<1>1. grab' \in [Devices -> Grab \cup {NullGrab}]
      /\ fromPassive' \in [Devices -> BOOLEAN] /\ playing \in BOOLEAN
  BY DEF GrabTypes
<1>2. GrabOfDevice'
  BY DEF SyncInv, GrabOfDevice
<1>3. \A d \in Devices : oth[d] # NullGrab => grab'[Paired[d]] = oth[d]
  BY DEF SyncInv, OtherIsActive
<1>4. \A d \in Devices : (st[d] = "NOT_GRABBED") = (grab'[d] = NullGrab)
  BY DEF SyncInv, FrozenByGrab
<1> QED  BY <1>1, <1>2, <1>3, <1>4, FreezesKeepSync

(* An event that a client was waiting for freezes its device, and the      *)
(* other one with it when both are to be frozen.                           *)
LEMMA FreezeEventKeepsSync ==
  ASSUME GrabTypes, SyncInv,
         event \in [Devices -> Event \cup {NoEvent}],
         NEW e \in Event,
         FreezeThisEvent(e),
         UNCHANGED <<grab, fromPassive, playing>>
  PROVE  /\ GrabTypes' /\ SyncInv'
         /\ event' \in [Devices -> Event \cup {NoEvent}]
<1> DEFINE d == e.dev
           p == Paired[e.dev]
           both == state[d] = "FREEZE_BOTH_NEXT_EVENT"
           pair == both /\ state[p] = "FREEZE_BOTH_NEXT_EVENT"
                   /\ grab[p].client = grab[d].client
<1>1. d \in Devices /\ p \in Devices /\ p # d /\ Paired[p] = d
      /\ \A x \in Devices : x = d \/ x = p
  BY PairedProperties DEF Event
<1>2. CASE state[d] \notin {"FREEZE_NEXT_EVENT", "FREEZE_BOTH_NEXT_EVENT"}
  <2>1. UNCHANGED <<sync, event>>
    BY <1>2 DEF FreezeThisEvent
  <2> QED
    BY <2>1 DEF sync, GrabTypes, SyncInv, GrabOfDevice, OtherIsActive, FrozenByGrab
<1>3. CASE state[d] \in {"FREEZE_NEXT_EVENT", "FREEZE_BOTH_NEXT_EVENT"}
  <2>1. /\ state' = [state EXCEPT ![d] = "FROZEN_WITH_EVENT",
                       ![p] = IF pair THEN "FROZEN_NO_EVENT" ELSE @]
        /\ other' = [other EXCEPT ![p] = IF both /\ ~pair THEN grab[d] ELSE @]
        /\ frozen' = [frozen EXCEPT ![d] = TRUE, ![p] = @ \/ both]
        /\ event' = [event EXCEPT ![d] = e]
    BY <1>3 DEF FreezeThisEvent
  <2>2. grab[d] # NullGrab
    BY <1>1, <1>3 DEF SyncInv, FrozenByGrab
  <2>3. pair => grab[p] # NullGrab
    BY <1>1 DEF SyncInv, FrozenByGrab
  <2>4. /\ state' \in [Devices -> GrabState]
        /\ state'[d] = "FROZEN_WITH_EVENT"
        /\ state'[p] = IF pair THEN "FROZEN_NO_EVENT" ELSE state[p]
    BY <1>1, <2>1 DEF GrabTypes, GrabState, FrozenStates
  <2>5. /\ other' \in [Devices -> Grab \cup {NullGrab}]
        /\ other'[d] = other[d]
        /\ other'[p] = IF both /\ ~pair THEN grab[d] ELSE other[p]
    BY <1>1, <2>1 DEF GrabTypes
  <2>6. /\ frozen' \in [Devices -> BOOLEAN]
        /\ frozen'[d] = TRUE
        /\ frozen'[p] = (frozen[p] \/ both)
    BY <1>1, <2>1 DEF GrabTypes
  <2>7. event' \in [Devices -> Event \cup {NoEvent}]
    BY <1>1, <2>1
  <2> HIDE DEF both, pair
  <2>8. GrabTypes'
    BY <2>4, <2>5, <2>6 DEF GrabTypes
  <2>9. GrabOfDevice'
    BY DEF SyncInv, GrabOfDevice
  <2>10. OtherIsActive'
    BY <1>1, <2>5 DEF SyncInv, OtherIsActive
  <2>11. (state'[d] = "NOT_GRABBED") = (grab'[d] = NullGrab)
    BY <2>2, <2>4
  <2>12. (state'[p] = "NOT_GRABBED") = (grab'[p] = NullGrab)
    BY <1>1, <2>3, <2>4 DEF SyncInv, FrozenByGrab
  <2>13. frozen'[d] = (other'[d] # NullGrab \/ state'[d] \in FrozenStates)
    BY <2>4, <2>6 DEF FrozenStates
  <2>14. frozen'[p] = (other'[p] # NullGrab \/ state'[p] \in FrozenStates)
    <3>1. frozen[p] = (other[p] # NullGrab \/ state[p] \in FrozenStates)
      BY <1>1 DEF SyncInv, FrozenByGrab
    <3>2. pair => both /\ state[p] = "FREEZE_BOTH_NEXT_EVENT"
      BY DEF pair
    <3>3. CASE pair
      BY <2>4, <2>6, <3>2, <3>3 DEF FrozenStates
    <3>4. CASE both /\ ~pair
      BY <2>2, <2>5, <2>6, <3>4
    <3>5. CASE ~both /\ ~pair
      <4>1. frozen'[p] = frozen[p] /\ other'[p] = other[p] /\ state'[p] = state[p]
        BY <1>1, <2>4, <2>5, <2>6, <3>5 DEF GrabTypes
      <4> QED  BY <3>1, <4>1
    <3> QED  BY <3>3, <3>4, <3>5
  <2>15. FrozenByGrab'
    BY <1>1, <2>11, <2>12, <2>13, <2>14 DEF FrozenByGrab
  <2> QED  BY <2>7, <2>8, <2>9, <2>10, <2>15 DEF SyncInv
<1> QED  BY <1>2, <1>3

---------------------------------------------------------------------------
(* What the operators do to the stack, and what an event may do.           *)

PlayCall == [op |-> "PlayReleasedEvents"]
ActivatedCall(e) == [op |-> "GrabActivated", event |-> e]

(* ComputeFreezes plays events unless it is called from where events are   *)
(* played, or there is nothing to play.                                    *)
StackAfter(replay, rest) ==
  \/ /\ playing \/ (replay = << >> /\ pending = << >>)
     /\ stack' = rest
     /\ playing' = playing
  \/ /\ ~playing
     /\ replay # << >> \/ pending # << >>
     /\ stack' = replay \o <<PlayCall>> \o rest
     /\ playing' = TRUE

(* An event activates a passive grab or starts an implicit one.            *)
Activates(e, rest) ==
  \E r \in GrabRequest :
    /\ r.dev = e.dev
    /\ r.window \in trace
    /\ r \in passive \/ r.client \in alive
    /\ grab[e.dev] = NullGrab
    /\ ActivateGrab(r, TRUE, rest)

(* An event changes no grab and thaws no device.                           *)
Passes(rest) ==
  /\ stack' = rest
  /\ UNCHANGED <<grab, fromPassive, playing>>

LEMMA StackAfterActivate ==
  ASSUME playing \in BOOLEAN, NEW r, NEW b, NEW rest, ActivateGrab(r, b, rest)
  PROVE  StackAfter(<< >>, rest)
BY DEF ActivateGrab, CheckGrabForSyncs, ComputeFreezes, StackAfter, PlayCall

LEMMA StackAfterDeactivate ==
  ASSUME playing \in BOOLEAN, NEW d, NEW oth, NEW replay, NEW rest,
         Deactivate(d, oth, replay, rest)
  PROVE  StackAfter(replay, rest)
BY DEF Deactivate, ComputeFreezes, StackAfter, PlayCall

(* The grab that CheckDeviceGrabs finds.                                   *)
LEMMA FoundGrab ==
  ASSUME passive \subseteq PassiveGrabs,
         NEW e \in Event, NEW windows, windows \subseteq trace,
         NEW pg \in CheckDeviceGrabs(e, windows)
  PROVE  /\ pg \in GrabRequest /\ pg \in passive
         /\ pg.dev = e.dev
         /\ pg.window \in trace
         /\ grab[e.dev] = NullGrab
<1> DEFINE matching(w) == {x \in passive : x.window = w /\ x.dev = e.dev}
           at == {i \in DOMAIN Windows :
                    Windows[i] \in windows /\ matching(Windows[i]) # {}}
<1>1. at # {} /\ grab[e.dev] = NullGrab /\ pg \in matching(Windows[Min(at)])
  BY DEF CheckDeviceGrabs
<1>2. at \subseteq Nat
  BY GrabsAssumption
<1>3. Min(at) \in at
  <2> HIDE DEF at
  <2> QED  BY <1>1, <1>2, MinProperties
<1>4. Windows[Min(at)] \in windows
  BY <1>3
<1> HIDE DEF at
<1> QED  BY <1>1, <1>4, GrabsAssumption

LEMMA PassiveActivates ==
  ASSUME passive \subseteq PassiveGrabs,
         NEW e \in Event, NEW windows, windows \subseteq trace, NEW rest,
         NEW pg \in CheckDeviceGrabs(e, windows),
         ActivatePassiveGrab(pg, e, rest)
  PROVE  Activates(e, <<ActivatedCall(e)>> \o rest)
BY FoundGrab DEF ActivatePassiveGrab, Activates, ActivatedCall

LEMMA DeliverEffect ==
  ASSUME NEW e \in Event, grab[e.dev] = NullGrab, NEW rest, Deliver(e, rest)
  PROVE  Activates(e, rest) \/ (Passes(rest) /\ UNCHANGED sync)
<1>1. CASE \E s \in Selecting :
             /\ s[1] \in alive /\ s[2] \in trace
             /\ ActivateGrab([client |-> s[1], dev |-> e.dev, window |-> s[2],
                              modes |-> <<"Async", "Async">>], TRUE, rest)
  <2>1. PICK s \in Selecting :
             /\ s[1] \in alive /\ s[2] \in trace
             /\ ActivateGrab([client |-> s[1], dev |-> e.dev, window |-> s[2],
                              modes |-> <<"Async", "Async">>], TRUE, rest)
    BY <1>1
  <2> DEFINE r == [client |-> s[1], dev |-> e.dev, window |-> s[2],
                   modes |-> <<"Async", "Async">>]
  <2>2. r \in GrabRequest
    BY GrabsAssumption DEF GrabRequest, Event
  <2>3. r.dev = e.dev /\ r.window \in trace /\ r.client \in alive
        /\ ActivateGrab(r, TRUE, rest)
    BY <2>1
  <2> HIDE DEF r
  <2> QED  BY <2>2, <2>3 DEF Activates
<1>2. CASE stack' = rest /\ UNCHANGED <<grab, fromPassive, sync, playing>>
  BY <1>2 DEF Passes, sync
<1> QED  BY <1>1, <1>2 DEF Deliver

(* What ProcessDeviceEvent may do.                                         *)
LEMMA ProcessEffect ==
  ASSUME passive \subseteq PassiveGrabs, NEW e \in Event, NEW rest,
         ProcessDeviceEvent(e, rest)
  PROVE  /\ done' = [done EXCEPT ![e.dev] = e.id]
         /\ \/ /\ \/ Activates(e, <<ActivatedCall(e)>> \o rest)
                  \/ Activates(e, rest)
                  \/ grab[e.dev] # NullGrab /\ DeactivateGrab(e.dev, rest)
                  \/ Passes(rest) /\ UNCHANGED sync
               /\ UNCHANGED event
            \/ Passes(rest) /\ FreezeThisEvent(e)
<1>1. done' = [done EXCEPT ![e.dev] = e.id]
  BY DEF ProcessDeviceEvent
<1>2. CASE grab[e.dev] = NullGrab
  <2>1. UNCHANGED event
    BY <1>2 DEF ProcessDeviceEvent
  <2>2. CASE \E pg \in CheckDeviceGrabs(e, trace) : ActivatePassiveGrab(pg, e, rest)
    BY <1>1, <2>1, <2>2, PassiveActivates
  <2>3. CASE Deliver(e, rest)
    BY <1>1, <1>2, <2>1, <2>3, DeliverEffect
  <2> QED  BY <1>2, <2>2, <2>3 DEF ProcessDeviceEvent
<1>3. CASE grab[e.dev] # NullGrab
  BY <1>1, <1>3 DEF ProcessDeviceEvent, Passes, sync
<1> QED  BY <1>2, <1>3

---------------------------------------------------------------------------
(* Types.                                                                  *)

LEMMA CallFields ==
  ASSUME NEW c \in Call
  PROVE  /\ c.op = "Replay" => c.dev \in Devices /\ c.window \in Range(Windows)
         /\ c.op = "GrabActivated" => c.event \in Event
         /\ c.op = "ReleaseActiveGrabs" =>
              c.client \in Clients /\ c.left \in Seq(Devices) /\ c.over \in BOOLEAN
         /\ c.op \in {"UnrealizeWindow", "FreeWindow"} =>
              /\ c.window \in Range(Windows)
              /\ c.left \in Seq(Devices)
              /\ c = [op |-> c.op, window |-> c.window, left |-> c.left]
         /\ c.op = "FreeClientResources" => c.client \in Clients
BY DEF Call

LEMMA CallTypes ==
  /\ PlayCall \in Call
  /\ \A e \in Event : ActivatedCall(e) \in Call
  /\ \A d \in Devices, w \in Range(Windows) :
       [op |-> "Replay", dev |-> d, window |-> w] \in Call
  /\ \A c \in Clients, l \in Seq(Devices), b \in BOOLEAN :
       ReleaseRound(c, l, b) \in Call
  /\ \A w \in Range(Windows), l \in Seq(Devices) :
       /\ [op |-> "UnrealizeWindow", window |-> w, left |-> l] \in Call
       /\ [op |-> "FreeWindow", window |-> w, left |-> l] \in Call
  /\ \A c \in Clients : [op |-> "FreeClientResources", client |-> c] \in Call
BY DEF Call, PlayCall, ActivatedCall, ReleaseRound

LEMMA DevicesInSequence ==
  devices \in Seq(Devices) /\ devices \o devices \in Seq(Devices)
<1>1. devices \in Seq(Devices)
  BY DEF devices, Devices
<1> QED  BY <1>1

LEMMA StackAfterType ==
  ASSUME NEW replay \in Seq(Call), NEW rest \in Seq(Call),
         StackAfter(replay, rest)
  PROVE  stack' \in Seq(Call)
<1>1. <<PlayCall>> \in Seq(Call)
  BY CallTypes
<1>2. replay \o <<PlayCall>> \o rest \in Seq(Call)
  BY <1>1
<1> QED  BY <1>2 DEF StackAfter

LEMMA ActivatesTypes ==
  ASSUME GrabTypes, SyncInv, NEW e \in Event, NEW rest \in Seq(Call),
         Activates(e, rest)
  PROVE  GrabTypes' /\ SyncInv' /\ stack' \in Seq(Call)
<1>1. PICK r \in GrabRequest :
        grab[r.dev] = NullGrab /\ ActivateGrab(r, TRUE, rest)
  BY DEF Activates
<1>2. GrabTypes' /\ SyncInv'
  BY <1>1, ActivateKeepsSync
<1>3. StackAfter(<< >>, rest)
  BY <1>1, StackAfterActivate DEF GrabTypes
<1>4. << >> \in Seq(Call)
  OBVIOUS
<1> QED  BY <1>2, <1>3, <1>4, StackAfterType

LEMMA DeactivateGrabTypes ==
  ASSUME GrabTypes, SyncInv, NEW d \in Devices, grab[d] # NullGrab,
         NEW rest \in Seq(Call), DeactivateGrab(d, rest)
  PROVE  GrabTypes' /\ SyncInv' /\ stack' \in Seq(Call)
<1>1. Deactivate(d, other, << >>, rest)
  BY DEF DeactivateGrab
<1>2. other \in [Devices -> Grab \cup {NullGrab}]
  BY DEF GrabTypes
<1>3. GrabTypes' /\ SyncInv'
  BY <1>1, <1>2, DeactivateKeepsSync
<1>4. StackAfter(<< >>, rest)
  BY <1>1, StackAfterDeactivate DEF GrabTypes
<1>5. << >> \in Seq(Call)
  OBVIOUS
<1> QED  BY <1>3, <1>4, <1>5, StackAfterType

LEMMA PassesTypes ==
  ASSUME GrabTypes, SyncInv, NEW rest \in Seq(Call), Passes(rest), UNCHANGED sync
  PROVE  GrabTypes' /\ SyncInv' /\ stack' \in Seq(Call)
BY DEF Passes, sync, GrabTypes, SyncInv, GrabOfDevice, OtherIsActive, FrozenByGrab

LEMMA ProcessTypes ==
  ASSUME TypeOK, SyncInv, NEW e \in Event, NEW rest \in Seq(Call),
         ProcessDeviceEvent(e, rest)
  PROVE  /\ GrabTypes' /\ SyncInv' /\ stack' \in Seq(Call)
         /\ event' \in [Devices -> Event \cup {NoEvent}]
         /\ done' \in [Devices -> 0..MaxEvents]
<1>1. GrabTypes /\ passive \subseteq PassiveGrabs
  BY DEF TypeOK, GrabTypes
<1>2. done' \in [Devices -> 0..MaxEvents]
  <2>1. done \in [Devices -> 0..MaxEvents] /\ e.id \in 0..MaxEvents
    BY GrabsAssumption DEF TypeOK, Event
  <2> QED  BY <1>1, <2>1, ProcessEffect
<1>3. <<ActivatedCall(e)>> \o rest \in Seq(Call)
  <2>1. <<ActivatedCall(e)>> \in Seq(Call)
    BY CallTypes
  <2> QED  BY <2>1
<1>4. e.dev \in Devices /\ event \in [Devices -> Event \cup {NoEvent}]
  BY DEF Event, TypeOK
<1>5. CASE Activates(e, <<ActivatedCall(e)>> \o rest) /\ UNCHANGED event
  BY <1>1, <1>2, <1>3, <1>4, <1>5, ActivatesTypes
<1>6. CASE Activates(e, rest) /\ UNCHANGED event
  BY <1>1, <1>2, <1>4, <1>6, ActivatesTypes
<1>7. CASE grab[e.dev] # NullGrab /\ DeactivateGrab(e.dev, rest) /\ UNCHANGED event
  BY <1>1, <1>2, <1>4, <1>7, DeactivateGrabTypes
<1>8. CASE Passes(rest) /\ UNCHANGED sync /\ UNCHANGED event
  BY <1>1, <1>2, <1>4, <1>8, PassesTypes
<1>9. CASE Passes(rest) /\ FreezeThisEvent(e)
  <2>1. stack' = rest /\ UNCHANGED <<grab, fromPassive, playing>>
    BY <1>9 DEF Passes
  <2> QED  BY <1>1, <1>2, <1>4, <1>9, <2>1, FreezeEventKeepsSync
<1> QED  BY <1>1, <1>5, <1>6, <1>7, <1>8, <1>9, ProcessEffect

(* SetAll gives devices with a grab of the client a state.                 *)
LEMMA SetAllTypes ==
  ASSUME GrabTypes, SyncInv, NEW c, NEW devs,
         NEW st \in GrabState \ {"NOT_GRABBED"},
         SetAll(c, devs, st),
         UNCHANGED <<grab, fromPassive>>
  PROVE  GrabTypes' /\ SyncInv' /\ StackAfter(<< >>, << >>)
<1> DEFINE to == [e \in Devices |-> IF e \in devs /\ GrabbedBy(e, c) THEN st
                                    ELSE state[e]]
           oth == [e \in Devices |-> IF e \in devs /\ SyncedBy(other, e, c)
                                     THEN NullGrab ELSE other[e]]
<1>1. to \in [Devices -> GrabState] /\ oth \in [Devices -> Grab \cup {NullGrab}]
  BY DEF GrabTypes
<1>2. \A d \in Devices : \/ to[d] = state[d]
                         \/ to[d] # "NOT_GRABBED" /\ grab[d] # NullGrab
  BY DEF GrabbedBy
<1>3. \A d \in Devices : oth[d] \in {other[d], NullGrab}
  OBVIOUS
<1>4. ComputeFreezes(to, oth, << >>, << >>)
  BY DEF SetAll
<1> HIDE DEF to, oth
<1>5. GrabTypes' /\ SyncInv'
  BY <1>1, <1>2, <1>3, <1>4, SetStatesKeepsSync
<1>6. StackAfter(<< >>, << >>)
  BY <1>4 DEF ComputeFreezes, StackAfter, PlayCall
<1> QED  BY <1>5, <1>6

(* What AllowSome may do, apart from replaying: no grab changes.           *)
AllowEffect(c, d, newState) ==
  \/ /\ UNCHANGED <<grab, fromPassive>>
     /\ StackAfter(<< >>, << >>)
     /\ \A e \in Devices : state'[e] = "FROZEN_WITH_EVENT" =>
                             state[e] = "FROZEN_WITH_EVENT"
  \/ /\ newState = "NOT_GRABBED"
     /\ GrabbedBy(d, c)
     /\ state[d] = "FROZEN_WITH_EVENT"
     /\ \E oth \in [Devices -> Grab \cup {NullGrab}] :
          Deactivate(d, oth,
            <<[op |-> "Replay", dev |-> d, window |-> grab[d].window]>>, << >>)

LEMMA AllowSomeTypes ==
  ASSUME GrabTypes, SyncInv, NEW c \in Clients, NEW d \in Devices, NEW newState,
         AllowSome(c, d, newState)
  PROVE  GrabTypes' /\ SyncInv' /\ AllowEffect(c, d, newState)
<1> DEFINE released == IF thisSynced(c, d) THEN [other EXCEPT ![d] = NullGrab]
                       ELSE other
           keeps == \A e \in Devices : state'[e] = "FROZEN_WITH_EVENT" =>
                                         state[e] = "FROZEN_WITH_EVENT"
<1>1. released \in [Devices -> Grab \cup {NullGrab}]
      /\ \A e \in Devices : released[e] \in {other[e], NullGrab}
  BY DEF GrabTypes
<1>2. \/ thisGrabbed(c, d) /\ state[d] \in FrozenStates
      \/ thisSynced(c, d)
  BY DEF AllowSome
<1>3. CASE newState = "THAWED"
  <2> DEFINE st == IF thisGrabbed(c, d) THEN [state EXCEPT ![d] = "THAWED"]
                   ELSE state
  <2>1. ComputeFreezes(st, released, << >>, << >>)
        /\ UNCHANGED <<grab, fromPassive>>
    BY <1>3 DEF AllowSome
  <2>2. st \in [Devices -> GrabState]
    BY DEF GrabTypes, GrabState
  <2>3. \A e \in Devices : \/ st[e] = state[e]
                           \/ st[e] = "THAWED" /\ grab[e] # NullGrab
    BY DEF GrabTypes, thisGrabbed, GrabbedBy
  <2> HIDE DEF st, released
  <2>4. GrabTypes' /\ SyncInv'
    BY <1>1, <2>1, <2>2, <2>3, SetStatesKeepsSync
  <2>5. StackAfter(<< >>, << >>) /\ state' = st
    BY <2>1 DEF ComputeFreezes, StackAfter, PlayCall
  <2> QED  BY <2>1, <2>3, <2>4, <2>5 DEF AllowEffect
<1>4. CASE newState = "FREEZE_NEXT_EVENT"
  <2> DEFINE st == [state EXCEPT ![d] = "FREEZE_NEXT_EVENT"]
  <2>1. ComputeFreezes(st, released, << >>, << >>) /\ thisGrabbed(c, d)
        /\ UNCHANGED <<grab, fromPassive>>
    BY <1>4 DEF AllowSome
  <2>2. st \in [Devices -> GrabState]
    BY DEF GrabTypes, GrabState
  <2>3. \A e \in Devices : \/ st[e] = state[e]
                           \/ st[e] = "FREEZE_NEXT_EVENT" /\ grab[e] # NullGrab
    BY <2>1 DEF GrabTypes, thisGrabbed, GrabbedBy
  <2> HIDE DEF st, released
  <2>4. GrabTypes' /\ SyncInv'
    BY <1>1, <2>1, <2>2, <2>3, SetStatesKeepsSync
  <2>5. StackAfter(<< >>, << >>) /\ state' = st
    BY <2>1 DEF ComputeFreezes, StackAfter, PlayCall
  <2> QED  BY <2>1, <2>3, <2>4, <2>5 DEF AllowEffect
<1>5. ASSUME NEW devs, NEW st \in {"THAWED", "FREEZE_BOTH_NEXT_EVENT"},
             SetAll(c, devs, st), UNCHANGED <<grab, fromPassive>>
      PROVE  GrabTypes' /\ SyncInv' /\ AllowEffect(c, d, newState)
  <2>1. st \in GrabState \ {"NOT_GRABBED"}
    BY DEF GrabState
  <2>2. GrabTypes' /\ SyncInv' /\ StackAfter(<< >>, << >>)
    BY <1>5, <2>1, SetAllTypes
  <2>3. \A e \in Devices : state'[e] \in {st, state[e]}
    BY <1>5 DEF SetAll, ComputeFreezes
  <2> QED  BY <1>5, <2>2, <2>3 DEF AllowEffect
<1>6. CASE newState = "THAWED_BOTH"
  BY <1>5, <1>6 DEF AllowSome
<1>7. CASE newState = "FREEZE_BOTH_NEXT_EVENT"
  BY <1>5, <1>7 DEF AllowSome
<1>8. CASE newState = "THAW_OTHERS"
  BY <1>5, <1>8 DEF AllowSome
<1>9. CASE newState = "NOT_GRABBED"
  <2> DEFINE replay == <<[op |-> "Replay", dev |-> d, window |-> grab[d].window]>>
  <2>1. Deactivate(d, released, replay, << >>) /\ thisGrabbed(c, d)
        /\ state[d] = "FROZEN_WITH_EVENT"
    BY <1>9 DEF AllowSome
  <2>2. grab[d] # NullGrab /\ GrabbedBy(d, c)
    BY <2>1 DEF thisGrabbed, GrabbedBy
  <2> HIDE DEF released
  <2>3. GrabTypes' /\ SyncInv'
    <3> HIDE DEF replay
    <3> QED  BY <1>1, <2>1, <2>2, DeactivateKeepsSync
  <2> QED  BY <1>1, <1>9, <2>1, <2>2, <2>3 DEF AllowEffect
<1> QED  BY <1>3, <1>4, <1>6, <1>7, <1>8, <1>9 DEF AllowSome

---------------------------------------------------------------------------
(* Every step keeps the types and the agreement of the devices.            *)

(* The variables that TypeOK has and GrabTypes has not.                    *)
WorldTypes ==
  /\ passive \subseteq PassiveGrabs
  /\ trace \subseteq Range(Windows)
  /\ alive \subseteq Clients

InputTypes ==
  /\ next \in 1..(MaxEvents + 1)
  /\ posted \in [Devices -> BOOLEAN]
  /\ done \in [Devices -> 0..MaxEvents]

LEMMA TypeParts ==
  TypeOK <=> /\ GrabTypes /\ WorldTypes /\ InputTypes
             /\ event \in [Devices -> Event \cup {NoEvent}]
             /\ pending \in Seq(Event)
             /\ stack \in Seq(Call)
BY DEF TypeOK, GrabTypes, WorldTypes, InputTypes

LEMMA TypePartsPrimed ==
  TypeOK' <=> /\ GrabTypes' /\ WorldTypes' /\ InputTypes'
              /\ event' \in [Devices -> Event \cup {NoEvent}]
              /\ pending' \in Seq(Event)
              /\ stack' \in Seq(Call)
BY DEF TypeOK, GrabTypes, WorldTypes, InputTypes

LEMMA RemoveAtProperties ==
  ASSUME NEW S, NEW s \in Seq(S), NEW k \in DOMAIN s
  PROVE  /\ RemoveAt(s, k) \in Seq(S)
         /\ Len(RemoveAt(s, k)) = Len(s) - 1
         /\ \A i \in 1..(k - 1) : RemoveAt(s, k)[i] = s[i]
         /\ \A i \in k..(Len(s) - 1) : RemoveAt(s, k)[i] = s[i + 1]
<1> DEFINE a == SubSeq(s, 1, k - 1)
           b == SubSeq(s, k + 1, Len(s))
<1>1. k \in 1..Len(s) /\ Len(s) \in Nat
  OBVIOUS
<1>2. a \in Seq(S) /\ Len(a) = k - 1 /\ \A i \in 1..(k - 1) : a[i] = s[i]
  BY <1>1
<1>3. b \in Seq(S) /\ Len(b) = Len(s) - k
      /\ \A i \in 1..(Len(s) - k) : b[i] = s[k + i]
  BY <1>1
<1>4. RemoveAt(s, k) = a \o b
  BY DEF RemoveAt
<1> HIDE DEF a, b
<1>5. a \o b \in Seq(S) /\ Len(a \o b) = Len(s) - 1
  BY <1>1, <1>2, <1>3
<1>6. \A i \in 1..(k - 1) : (a \o b)[i] = s[i]
  BY <1>1, <1>2, <1>3
<1>7. \A i \in k..(Len(s) - 1) : (a \o b)[i] = s[i + 1]
  <2> TAKE i \in k..(Len(s) - 1)
  <2>1. (a \o b)[i] = b[i - (k - 1)]
    BY <1>1, <1>2, <1>3
  <2>2. i - (k - 1) \in 1..(Len(s) - k) /\ k + (i - (k - 1)) = i + 1
    BY <1>1
  <2> QED  BY <1>3, <2>1, <2>2
<1> QED  BY <1>4, <1>5, <1>6, <1>7

(* The first of the events that can be played.                             *)
LEMMA FirstReleased ==
  ASSUME pending \in Seq(Event), Released # {}
  PROVE  /\ Min(Released) \in DOMAIN pending
         /\ pending[Min(Released)] \in Event
         /\ ~frozen[pending[Min(Released)].dev]
         /\ \A i \in DOMAIN pending :
              i < Min(Released) => frozen[pending[i].dev]
<1>1. Released \subseteq Nat
  BY DEF Released
<1>2. Min(Released) \in Released /\ \A i \in Released : Min(Released) <= i
  BY <1>1, MinProperties
<1>3. Min(Released) \in DOMAIN pending /\ ~frozen[pending[Min(Released)].dev]
  BY <1>2 DEF Released
<1>4. \A i \in DOMAIN pending : i < Min(Released) => frozen[pending[i].dev]
  <2> SUFFICES ASSUME NEW i \in DOMAIN pending, i < Min(Released),
                      ~frozen[pending[i].dev]
               PROVE  FALSE
    OBVIOUS
  <2>1. i \in Released
    BY DEF Released
  <2>2. Min(Released) <= i
    BY <1>2, <2>1
  <2>3. i \in Nat /\ Min(Released) \in Nat
    BY <1>3
  <2> QED  BY <2>2, <2>3
<1>5. pending[Min(Released)] \in Event
  BY <1>3
<1> QED  BY <1>3, <1>4, <1>5

LEMMA EnqueueTypes ==
  ASSUME TypeOK, SyncInv, NEW e \in Event, EnqueueEvent(e)
  PROVE  GrabTypes' /\ SyncInv' /\ pending' \in Seq(Event) /\ stack' = stack
         /\ event' \in [Devices -> Event \cup {NoEvent}]
         /\ done' = done
<1>1. UNCHANGED <<grab, fromPassive, sync, event, playing, stack, done>>
  BY DEF EnqueueEvent
<1>2. GrabTypes' /\ SyncInv'
  BY <1>1 DEF TypeOK, GrabTypes, sync, SyncInv, GrabOfDevice, OtherIsActive,
              FrozenByGrab
<1>3. pending' \in Seq(Event)
  <2>1. pending \in Seq(Event)
    BY DEF TypeOK
  <2>2. pending # << >> => Front(pending) \o <<e>> \in Seq(Event)
    BY <2>1 DEF Front
  <2>3. Append(pending, e) \in Seq(Event)
    BY <2>1
  <2> QED  BY <2>2, <2>3 DEF EnqueueEvent
<1> QED  BY <1>1, <1>2, <1>3 DEF TypeOK

(* The event that comes in.                                                *)
LEMMA InputEventType ==
  ASSUME TypeOK, NEW d \in Devices, NEW type \in EventType, InputEvent(d, type)
  PROVE  [dev |-> d, id |-> next, type |-> type] \in Event
BY GrabsAssumption DEF TypeOK, Event, InputEvent

LEMMA InputEventKeeps ==
  ASSUME Inv, NEW d \in Devices, NEW type \in EventType, InputEvent(d, type)
  PROVE  TypeOK' /\ SyncInv'
<1> DEFINE e == [dev |-> d, id |-> next, type |-> type]
<1>1. TypeOK /\ SyncInv /\ e \in Event
  BY InputEventType DEF Inv
<1>2. /\ stack = << >>
      /\ next <= MaxEvents
      /\ next' = next + 1
      /\ posted' = [posted EXCEPT ![d] = IF type = "Motion" THEN @ ELSE ~@]
      /\ EnqueueEvent(e) \/ (ProcessDeviceEvent(e, << >>) /\ UNCHANGED pending)
      /\ UNCHANGED world
  BY DEF InputEvent, Idle
<1> HIDE DEF e
<1>3. next' \in 1..(MaxEvents + 1) /\ posted' \in [Devices -> BOOLEAN]
  <2>1. PICK b \in BOOLEAN : b = IF type = "Motion" THEN posted[d] ELSE ~posted[d]
    BY <1>1 DEF TypeOK
  <2>2. posted' = [posted EXCEPT ![d] = b]
    BY <1>2, <2>1
  <2>3. posted' \in [Devices -> BOOLEAN]
    BY <1>1, <2>2 DEF TypeOK
  <2>4. next' \in 1..(MaxEvents + 1)
    BY <1>1, <1>2, GrabsAssumption DEF TypeOK
  <2> QED  BY <2>3, <2>4
<1>4. WorldTypes'
  BY <1>1, <1>2 DEF world, WorldTypes, TypeOK
<1>5. CASE EnqueueEvent(e)
  <2>1. done' \in [Devices -> 0..MaxEvents] /\ stack' \in Seq(Call)
        /\ GrabTypes' /\ SyncInv' /\ pending' \in Seq(Event)
        /\ event' \in [Devices -> Event \cup {NoEvent}]
    BY <1>1, <1>5, EnqueueTypes DEF TypeOK
  <2> QED  BY <1>3, <1>4, <2>1, TypePartsPrimed DEF InputTypes
<1>6. CASE ProcessDeviceEvent(e, << >>) /\ UNCHANGED pending
  <2>1. << >> \in Seq(Call) /\ pending' \in Seq(Event)
    BY <1>1, <1>6 DEF TypeOK
  <2>2. GrabTypes' /\ SyncInv' /\ stack' \in Seq(Call)
        /\ event' \in [Devices -> Event \cup {NoEvent}]
        /\ done' \in [Devices -> 0..MaxEvents]
    BY <1>1, <1>6, <2>1, ProcessTypes
  <2> QED  BY <1>3, <1>4, <2>1, <2>2, TypePartsPrimed DEF InputTypes
<1> QED  BY <1>2, <1>5, <1>6

(* Steps that change nothing of the devices.                               *)
LEMMA StackOnlyKeeps ==
  ASSUME TypeOK, SyncInv, UNCHANGED <<grab, fromPassive, sync, playing>>
  PROVE  GrabTypes' /\ SyncInv'
BY DEF TypeOK, GrabTypes, sync, SyncInv, GrabOfDevice, OtherIsActive, FrozenByGrab

LEMMA RequestKeeps ==
  ASSUME Inv,
         \/ \E c \in Clients, d \in Devices : UngrabDevice(c, d)
         \/ \E c \in Clients, d \in Devices, s \in NewState : AllowSome(c, d, s)
         \/ \E r \in ActiveGrabs : GrabDevice(r)
  PROVE  TypeOK' /\ SyncInv'
<1>1. TypeOK /\ SyncInv /\ GrabTypes /\ playing \in BOOLEAN /\ << >> \in Seq(Call)
  BY TypeParts DEF Inv, GrabTypes
<1>2. ASSUME UNCHANGED <<event, pending, world, input>>, GrabTypes',
             stack' \in Seq(Call)
      PROVE  TypeOK'
  <2>1. WorldTypes' /\ InputTypes'
    BY <1>1, <1>2 DEF TypeOK, world, input, WorldTypes, InputTypes
  <2>2. event' \in [Devices -> Event \cup {NoEvent}] /\ pending' \in Seq(Event)
    BY <1>1, <1>2 DEF TypeOK
  <2> QED  BY <1>2, <2>1, <2>2, TypePartsPrimed
<1>3. ASSUME NEW c \in Clients, NEW d \in Devices, UngrabDevice(c, d)
      PROVE  TypeOK' /\ SyncInv'
  <2>1. grab[d] # NullGrab /\ DeactivateGrab(d, << >>)
        /\ UNCHANGED <<event, pending, world, input>>
    BY <1>3 DEF UngrabDevice, GrabbedBy
  <2>2. GrabTypes' /\ SyncInv' /\ stack' \in Seq(Call)
    BY <1>1, <2>1, DeactivateGrabTypes
  <2> QED  BY <1>2, <2>1, <2>2
<1>4. ASSUME NEW c \in Clients, NEW d \in Devices, NEW s \in NewState,
             AllowSome(c, d, s)
      PROVE  TypeOK' /\ SyncInv'
  <2>1. GrabTypes' /\ SyncInv' /\ AllowEffect(c, d, s)
    BY <1>1, <1>4, AllowSomeTypes
  <2>2. UNCHANGED <<event, pending, world, input>>
    BY <1>4 DEF AllowSome
  <2>3. CASE StackAfter(<< >>, << >>)
    BY <1>1, <1>2, <2>1, <2>2, <2>3, StackAfterType
  <2>4. CASE \E oth \in [Devices -> Grab \cup {NullGrab}] :
               Deactivate(d, oth,
                 <<[op |-> "Replay", dev |-> d, window |-> grab[d].window]>>, << >>)
             /\ GrabbedBy(d, c)
    <3> DEFINE replay == <<[op |-> "Replay", dev |-> d, window |-> grab[d].window]>>
    <3>1. grab[d].window \in Range(Windows)
      BY <1>1, <2>4, GrabFields DEF GrabbedBy, GrabTypes
    <3>2. replay \in Seq(Call)
      BY <3>1, CallTypes
    <3>3. StackAfter(replay, << >>)
      <4> HIDE DEF replay
      <4> QED  BY <1>1, <2>4, StackAfterDeactivate DEF replay
    <3> HIDE DEF replay
    <3>4. stack' \in Seq(Call)
      BY <1>1, <3>2, <3>3, StackAfterType
    <3> QED  BY <1>2, <2>1, <2>2, <3>4
  <2> QED  BY <2>1, <2>3, <2>4 DEF AllowEffect
<1>5. ASSUME NEW r \in ActiveGrabs, GrabDevice(r)
      PROVE  TypeOK' /\ SyncInv'
  <2>1. r \in GrabRequest
    BY GrabsAssumption
  <2>2. /\ grab[r.dev] = NullGrab \/ GrabbedBy(r.dev, r.client)
        /\ ActivateGrab(r, FALSE, << >>)
        /\ UNCHANGED <<event, pending, world, input>>
    BY <1>5 DEF GrabDevice
  <2>3. GrabTypes' /\ SyncInv'
    BY <1>1, <2>1, <2>2, ActivateKeepsSync
  <2>4. StackAfter(<< >>, << >>)
    BY <1>1, <2>2, StackAfterActivate
  <2>5. stack' \in Seq(Call)
    BY <1>1, <2>4, StackAfterType
  <2> QED  BY <1>2, <2>2, <2>3, <2>5
<1> QED  BY <1>3, <1>4, <1>5

LEMMA WindowCallsType ==
  ASSUME NEW w \in Range(Windows)
  PROVE  WindowCalls(w) \in Seq(Call)
<1>1. devices \o devices \in Seq(Devices)
  BY DevicesInSequence
<1> DEFINE l == devices \o devices
<1>2. [op |-> "UnrealizeWindow", window |-> w, left |-> l] \in Call
      /\ [op |-> "FreeWindow", window |-> w, left |-> l] \in Call
  BY <1>1, CallTypes
<1> HIDE DEF l
<1>3. <<[op |-> "UnrealizeWindow", window |-> w, left |-> l],
        [op |-> "FreeWindow", window |-> w, left |-> l]>> \in Seq(Call)
  BY <1>2
<1> QED  BY <1>3 DEF WindowCalls, l

(* The call that is under way.                                             *)
LEMMA HeadOfStack ==
  ASSUME stack \in Seq(Call), NEW op, Running(op)
  PROVE  /\ Head(stack) \in Call /\ Head(stack).op = op
         /\ Head(stack) = stack[1] /\ 1 \in DOMAIN stack
         /\ Tail(stack) \in Seq(Call)
         /\ Len(Tail(stack)) + 1 = Len(stack)
         /\ DOMAIN Tail(stack) = 1..(Len(stack) - 1)
         /\ \A i \in DOMAIN Tail(stack) : Tail(stack)[i] = stack[i + 1]
         /\ stack = <<Head(stack)>> \o Tail(stack)
BY DEF Running

LEMMA ReplayKeeps ==
  ASSUME Inv, Replay
  PROVE  /\ TypeOK' /\ SyncInv'
         /\ Head(stack).dev \in Devices
         /\ event[Head(stack).dev] \in Event
         /\ event[Head(stack).dev].dev = Head(stack).dev
         /\ event[Head(stack).dev].id = done[Head(stack).dev]
         /\ \/ Activates(event[Head(stack).dev],
                 <<ActivatedCall(event[Head(stack).dev])>> \o Tail(stack))
            \/ Activates(event[Head(stack).dev], Tail(stack))
            \/ Passes(Tail(stack)) /\ UNCHANGED sync
<1> DEFINE call == Head(stack)
           e == event[call.dev]
           below == {w \in trace : \E i, j \in DOMAIN Windows :
                                     i < j /\ Windows[i] = call.window
                                           /\ Windows[j] = w}
           windows == IF call.window \in trace THEN below ELSE {}
           rest == Tail(stack)
<1>1. TypeOK /\ SyncInv /\ GrabTypes /\ passive \subseteq PassiveGrabs
  BY TypeParts DEF Inv, WorldTypes
<1>2. /\ call \in Call /\ call.op = "Replay" /\ call = stack[1]
      /\ 1 \in DOMAIN stack /\ rest \in Seq(Call)
  BY <1>1, HeadOfStack DEF Replay, TypeOK
<1>3. /\ call.dev \in Devices
      /\ grab[call.dev] = NullGrab /\ e.dev = call.dev /\ e.id = done[call.dev]
  BY <1>2, CallFields DEF Inv, HeldInv, ReplayFirst
<1>4. e \in Event
  BY <1>1, <1>3 DEF TypeOK, NoEvent, Devices
<1>5. /\ \/ \E pg \in CheckDeviceGrabs(e, windows) :
              ActivatePassiveGrab(pg, e, rest)
         \/ Deliver(e, rest)
      /\ UNCHANGED <<event, pending, world, input>>
  BY DEF Replay
<1>6. windows \subseteq trace
  OBVIOUS
<1> HIDE DEF windows
<1>7. \/ Activates(e, <<ActivatedCall(e)>> \o rest)
      \/ Activates(e, rest)
      \/ Passes(rest) /\ UNCHANGED sync
  BY <1>1, <1>3, <1>4, <1>5, <1>6, PassiveActivates, DeliverEffect
<1>8. <<ActivatedCall(e)>> \o rest \in Seq(Call)
  <2>1. <<ActivatedCall(e)>> \in Seq(Call)
    BY <1>4, CallTypes
  <2> QED  BY <1>2, <2>1
<1>9. GrabTypes' /\ SyncInv' /\ stack' \in Seq(Call)
  <2> HIDE DEF e, rest
  <2> QED  BY <1>1, <1>2, <1>4, <1>7, <1>8, ActivatesTypes, PassesTypes
<1>10. WorldTypes' /\ InputTypes' /\ pending' \in Seq(Event)
       /\ event' \in [Devices -> Event \cup {NoEvent}]
  BY <1>1, <1>5 DEF TypeOK, world, input, WorldTypes, InputTypes
<1>11. TypeOK'
  BY <1>9, <1>10, TypePartsPrimed
<1> QED  BY <1>3, <1>4, <1>7, <1>9, <1>11

LEMMA PlayKeeps ==
  ASSUME Inv, PlayReleasedEvents
  PROVE  TypeOK' /\ SyncInv'
<1>1. TypeOK /\ SyncInv /\ pending \in Seq(Event) /\ stack \in Seq(Call)
  BY DEF Inv, TypeOK
<1>2. UNCHANGED <<world, next, posted>>
  BY DEF PlayReleasedEvents
<1>3. WorldTypes' /\ next' \in 1..(MaxEvents + 1)
      /\ posted' \in [Devices -> BOOLEAN]
  BY <1>1, <1>2 DEF TypeOK, world, WorldTypes
<1>4. CASE /\ Released # {}
           /\ pending' = RemoveAt(pending, Min(Released))
           /\ ProcessDeviceEvent(pending[Min(Released)], stack)
  <2>1. Min(Released) \in DOMAIN pending /\ pending[Min(Released)] \in Event
    BY <1>1, <1>4, FirstReleased
  <2>2. GrabTypes' /\ SyncInv' /\ stack' \in Seq(Call)
        /\ event' \in [Devices -> Event \cup {NoEvent}]
        /\ done' \in [Devices -> 0..MaxEvents]
    BY <1>1, <1>4, <2>1, ProcessTypes
  <2>3. pending' \in Seq(Event)
    BY <1>1, <1>4, <2>1, RemoveAtProperties
  <2> QED  BY <1>3, <2>2, <2>3, TypePartsPrimed DEF InputTypes
<1>5. CASE /\ playing' = FALSE
           /\ stack' = Tail(stack)
           /\ UNCHANGED <<grab, fromPassive, sync, event, pending, done>>
  <2>1. GrabTypes' /\ SyncInv'
    BY <1>1, <1>5 DEF TypeOK, GrabTypes, sync, SyncInv, GrabOfDevice,
                      OtherIsActive, FrozenByGrab
  <2>2. stack' \in Seq(Call)
    BY <1>1, <1>5, HeadOfStack DEF PlayReleasedEvents
  <2> QED  BY <1>1, <1>3, <1>5, <2>1, <2>2, TypePartsPrimed DEF InputTypes, TypeOK
<1> QED  BY <1>4, <1>5 DEF PlayReleasedEvents

(* The device keeps its grab, and stays as frozen as it was.               *)
LEMMA GrabActivatedKeeps ==
  ASSUME Inv, GrabActivated
  PROVE  TypeOK' /\ SyncInv'
<1> DEFINE e == Head(stack).event
           d == Head(stack).event.dev
<1>1. TypeOK /\ SyncInv /\ stack \in Seq(Call)
  BY DEF Inv, TypeOK
<1>2. Head(stack) \in Call /\ Head(stack).op = "GrabActivated"
      /\ Tail(stack) \in Seq(Call)
  BY <1>1, HeadOfStack DEF GrabActivated
<1>3. e \in Event /\ d \in Devices
  BY <1>2, CallFields DEF Event
<1>4. PICK st \in GrabState : st = IF state[d] = "FROZEN_NO_EVENT"
                                   THEN "FROZEN_WITH_EVENT" ELSE state[d]
  BY <1>1, <1>3 DEF TypeOK, GrabState, FrozenStates
<1>5. /\ state' = [state EXCEPT ![d] = st]
      /\ event' = [event EXCEPT ![d] = e]
      /\ stack' = Tail(stack)
      /\ UNCHANGED <<grab, fromPassive, other, frozen, pending, playing, world,
                     input>>
  BY <1>4 DEF GrabActivated
<1> HIDE DEF e, d
<1>6. state' \in [Devices -> GrabState]
      /\ event' \in [Devices -> Event \cup {NoEvent}]
      /\ stack' \in Seq(Call)
  BY <1>1, <1>2, <1>3, <1>5 DEF TypeOK
<1>7. TypeOK'
  BY <1>1, <1>5, <1>6 DEF TypeOK, world, input
<1>8. GrabOfDevice' /\ OtherIsActive'
  BY <1>1, <1>5 DEF SyncInv, GrabOfDevice, OtherIsActive
<1>9. \A x \in Devices : /\ (state'[x] = "NOT_GRABBED") = (state[x] = "NOT_GRABBED")
                         /\ (state'[x] \in FrozenStates) = (state[x] \in FrozenStates)
  BY <1>1, <1>3, <1>4, <1>5 DEF TypeOK, FrozenStates
<1>10. FrozenByGrab'
  <2>1. UNCHANGED <<grab, other, frozen>>
    BY <1>5
  <2> QED  BY <1>1, <1>9, <2>1 DEF SyncInv, FrozenByGrab
<1> QED  BY <1>7, <1>8, <1>10 DEF SyncInv

LEMMA LeftProperties ==
  ASSUME NEW l \in Seq(Devices), l # << >>
  PROVE  Head(l) \in Devices /\ Tail(l) \in Seq(Devices)
OBVIOUS

LEMMA ConsType ==
  ASSUME NEW c \in Call, NEW s \in Seq(Call)
  PROVE  <<c>> \o s \in Seq(Call)
<1>1. <<c>> \in Seq(Call)
  OBVIOUS
<1> QED  BY <1>1

LEMMA ReleaseKeeps ==
  ASSUME Inv, ReleaseActiveGrabs
  PROVE  TypeOK' /\ SyncInv'
<1> DEFINE call == Head(stack)
           c == call.client
           rest == Tail(stack)
<1>1. TypeOK /\ SyncInv /\ GrabTypes /\ stack \in Seq(Call)
  BY TypeParts DEF Inv
<1>2. /\ call \in Call /\ call.op = "ReleaseActiveGrabs" /\ rest \in Seq(Call)
      /\ c \in Clients /\ call.left \in Seq(Devices) /\ call.over \in BOOLEAN
  BY <1>1, HeadOfStack, CallFields DEF ReleaseActiveGrabs
<1>3. UNCHANGED <<event, pending, passive, trace, input>>
  BY DEF ReleaseActiveGrabs
<1>4. ASSUME GrabTypes', stack' \in Seq(Call), alive' \subseteq alive
      PROVE  TypeOK'
  <2>1. WorldTypes' /\ InputTypes'
    BY <1>1, <1>3, <1>4 DEF TypeOK, input, WorldTypes, InputTypes
  <2>2. event' \in [Devices -> Event \cup {NoEvent}] /\ pending' \in Seq(Event)
    BY <1>1, <1>3 DEF TypeOK
  <2> QED  BY <1>4, <2>1, <2>2, TypePartsPrimed
<1>5. \A l \in Seq(Devices), b \in BOOLEAN :
        <<ReleaseRound(c, l, b)>> \o rest \in Seq(Call)
  BY <1>2, CallTypes, ConsType
<1>6. CASE /\ call.left # << >>
           /\ GrabbedBy(Head(call.left), c)
           /\ DeactivateGrab(Head(call.left),
                <<ReleaseRound(c, Tail(call.left), FALSE)>> \o rest)
           /\ UNCHANGED alive
  <2>1. Head(call.left) \in Devices /\ Tail(call.left) \in Seq(Devices)
    BY <1>2, <1>6, LeftProperties
  <2>2. <<ReleaseRound(c, Tail(call.left), FALSE)>> \o rest \in Seq(Call)
    BY <1>5, <2>1
  <2>3. grab[Head(call.left)] # NullGrab
    BY <1>6 DEF GrabbedBy
  <2> HIDE DEF rest, call
  <2>4. GrabTypes' /\ SyncInv' /\ stack' \in Seq(Call)
    BY <1>1, <1>6, <2>1, <2>2, <2>3, DeactivateGrabTypes
  <2> QED  BY <1>4, <1>6, <2>4
<1>7. CASE /\ stack' \in {<<ReleaseRound(c, Tail(call.left), call.over)>> \o rest,
                          <<ReleaseRound(c, devices, TRUE)>> \o rest, rest}
           /\ call.left = << >> => stack' \in {<<ReleaseRound(c, devices, TRUE)>> \o rest, rest}
           /\ UNCHANGED <<grab, fromPassive, sync, playing>>
           /\ alive' \subseteq alive
  <2>1. call.left # << >> => Tail(call.left) \in Seq(Devices)
    BY <1>2, LeftProperties
  <2>2. stack' \in Seq(Call)
    BY <1>2, <1>5, <1>7, <2>1, DevicesInSequence
  <2> QED  BY <1>1, <1>4, <1>7, <2>2, StackOnlyKeeps
<1> QED  BY <1>6, <1>7 DEF ReleaseActiveGrabs

(* DeleteWindowFromAnyEvents goes on to the next device.                   *)
LEMMA NextDevice ==
  ASSUME NEW c \in Call, c.op \in {"UnrealizeWindow", "FreeWindow"},
         c.left # << >>
  PROVE  /\ [c EXCEPT !.left = Tail(@)]
              = [op |-> c.op, window |-> c.window, left |-> Tail(c.left)]
         /\ [c EXCEPT !.left = Tail(@)] \in Call
<1> DEFINE o == c.op
           w == c.window
           l == c.left
           m == Tail(c.left)
<1>1. /\ o \in {"UnrealizeWindow", "FreeWindow"} /\ w \in Range(Windows)
      /\ l \in Seq(Devices) /\ c = [op |-> o, window |-> w, left |-> l]
  BY CallFields
<1>2. m \in Seq(Devices)
  BY <1>1, LeftProperties
<1> HIDE DEF o, w, l, m
<1>3. [c EXCEPT !.left = m] = [op |-> o, window |-> w, left |-> m]
  BY <1>1
<1>4. [op |-> o, window |-> w, left |-> m] \in Call
  BY <1>1, <1>2, CallTypes
<1> QED  BY <1>3, <1>4 DEF o, w, m

LEMMA DeleteWindowKeeps ==
  ASSUME Inv, DeleteWindowFromAnyEvents
  PROVE  TypeOK' /\ SyncInv'
<1> DEFINE call == Head(stack)
           w == call.window
           on == call.left # << >> /\ grab[Head(call.left)].window = w
           rest == <<[call EXCEPT !.left = Tail(@)]>> \o Tail(stack)
<1>1. TypeOK /\ SyncInv /\ GrabTypes /\ stack \in Seq(Call)
  BY TypeParts DEF Inv
<1>2. /\ call \in Call /\ call.op \in {"UnrealizeWindow", "FreeWindow"}
      /\ Tail(stack) \in Seq(Call)
      /\ w \in Range(Windows) /\ call.left \in Seq(Devices)
      /\ call = [op |-> call.op, window |-> w, left |-> call.left]
  BY <1>1, HeadOfStack, CallFields DEF DeleteWindowFromAnyEvents
<1>3. UNCHANGED <<event, pending, alive, input>>
  BY DEF DeleteWindowFromAnyEvents
<1>4. ASSUME GrabTypes', stack' \in Seq(Call), passive' \subseteq passive,
             trace' \subseteq trace
      PROVE  TypeOK'
  <2>1. WorldTypes' /\ InputTypes'
    BY <1>1, <1>3, <1>4 DEF TypeOK, input, WorldTypes, InputTypes
  <2>2. event' \in [Devices -> Event \cup {NoEvent}] /\ pending' \in Seq(Event)
    BY <1>1, <1>3 DEF TypeOK
  <2> QED  BY <1>4, <2>1, <2>2, TypePartsPrimed
<1>5. call.left # << >> => rest \in Seq(Call)
  <2> SUFFICES ASSUME call.left # << >> PROVE rest \in Seq(Call)
    OBVIOUS
  <2>1. [call EXCEPT !.left = Tail(@)] \in Call
    BY <1>2, NextDevice
  <2> QED  BY <1>2, <2>1, ConsType
<1>6. CASE on /\ DeactivateGrab(Head(call.left), rest)
           /\ UNCHANGED <<passive, trace>>
  <2>1. Head(call.left) \in Devices
    BY <1>2, <1>6, LeftProperties
  <2>2. grab[Head(call.left)] # NullGrab
    BY <1>2, <1>6, GrabsAssumption DEF NullGrab
  <2>3. rest \in Seq(Call)
    BY <1>5, <1>6
  <2> HIDE DEF rest, call
  <2>4. GrabTypes' /\ SyncInv' /\ stack' \in Seq(Call)
    BY <1>1, <1>6, <2>1, <2>2, <2>3, DeactivateGrabTypes
  <2> QED  BY <1>4, <1>6, <2>4
<1>7. CASE call.left # << >> /\ stack' = rest
           /\ UNCHANGED <<grab, fromPassive, sync, playing, passive, trace>>
  <2>1. stack' \in Seq(Call)
    BY <1>5, <1>7
  <2> QED  BY <1>1, <1>4, <1>7, <2>1, StackOnlyKeeps
<1>8. CASE stack' = Tail(stack) /\ trace' = trace \ {w} /\ passive' \subseteq passive
           /\ UNCHANGED <<grab, fromPassive, sync, playing>>
  BY <1>1, <1>2, <1>4, <1>8, StackOnlyKeeps
<1> QED  BY <1>6, <1>7, <1>8 DEF DeleteWindowFromAnyEvents

LEMMA OthersKeep ==
  ASSUME Inv,
         \/ FreeClientResources
         \/ \E c \in Clients : CloseDownClient(c)
         \/ \E r \in PassiveGrabs : GrabButton(r)
         \/ \E pg \in passive : UngrabButton(pg)
         \/ \E w \in Range(Windows) : DestroyWindow(w)
  PROVE  TypeOK' /\ SyncInv'
<1>1. TypeOK /\ SyncInv /\ GrabTypes /\ stack \in Seq(Call)
  BY TypeParts DEF Inv
<1>2. ASSUME UNCHANGED <<grab, fromPassive, sync, event, pending, playing, trace,
                         alive, input>>,
             stack' \in Seq(Call), passive' \subseteq PassiveGrabs
      PROVE  TypeOK' /\ SyncInv'
  <2>1. WorldTypes' /\ InputTypes'
    BY <1>1, <1>2 DEF TypeOK, input, WorldTypes, InputTypes
  <2>2. event' \in [Devices -> Event \cup {NoEvent}] /\ pending' \in Seq(Event)
    BY <1>1, <1>2 DEF TypeOK
  <2>3. GrabTypes' /\ SyncInv'
    BY <1>1, <1>2, StackOnlyKeeps
  <2> QED  BY <1>2, <2>1, <2>2, <2>3, TypePartsPrimed
<1>3. passive \subseteq PassiveGrabs /\ trace \subseteq Range(Windows)
  BY <1>1 DEF TypeOK
<1>4. CASE FreeClientResources
  <2>1. Tail(stack) \in Seq(Call)
    BY <1>1, <1>4, HeadOfStack DEF FreeClientResources
  <2>2. \A w \in trace : WindowCalls(w) \o stack \in Seq(Call)
    BY <1>1, <1>3, WindowCallsType
  <2>3. stack' \in Seq(Call) /\ passive' \subseteq PassiveGrabs
    BY <1>1, <1>3, <1>4, <2>1, <2>2 DEF FreeClientResources
  <2> QED  BY <1>2, <1>4, <2>3 DEF FreeClientResources
<1>5. ASSUME NEW c \in Clients, CloseDownClient(c)
      PROVE  TypeOK' /\ SyncInv'
  <2>1. [op |-> "FreeClientResources", client |-> c] \in Call
        /\ ReleaseRound(c, devices, TRUE) \in Call
    BY CallTypes, DevicesInSequence
  <2>2. stack' \in Seq(Call)
    <3> DEFINE a == ReleaseRound(c, devices, TRUE)
               b == [op |-> "FreeClientResources", client |-> c]
    <3>1. stack' = <<a, b>>
      BY <1>5 DEF CloseDownClient
    <3>2. a \in Call /\ b \in Call
      BY <2>1
    <3> HIDE DEF a, b
    <3> QED  BY <3>1, <3>2
  <2> QED  BY <1>2, <1>3, <1>5, <2>2 DEF CloseDownClient, world
<1>6. ASSUME NEW r \in PassiveGrabs, GrabButton(r)
      PROVE  TypeOK' /\ SyncInv'
  BY <1>1, <1>2, <1>3, <1>6 DEF GrabButton
<1>7. ASSUME NEW pg \in passive, UngrabButton(pg)
      PROVE  TypeOK' /\ SyncInv'
  BY <1>1, <1>2, <1>3, <1>7 DEF UngrabButton
<1>8. ASSUME NEW w \in Range(Windows), DestroyWindow(w)
      PROVE  TypeOK' /\ SyncInv'
  BY <1>2, <1>3, <1>8, WindowCallsType DEF DestroyWindow, world
<1> QED  BY <1>4, <1>5, <1>6, <1>7, <1>8

LEMMA StutterKeeps ==
  ASSUME Inv, UNCHANGED vars
  PROVE  Inv'
<1>1. UNCHANGED <<grab, state, other, frozen, event, pending, playing, trace,
                  stack, next, done>>
  BY DEF vars
<1>2. TypeOK'
  BY DEF vars, Inv, TypeOK
<1>3. SyncInv'
  BY <1>1 DEF Inv, SyncInv, GrabOfDevice, OtherIsActive, FrozenByGrab
<1>5. HeldInv'
  BY <1>1 DEF Inv, HeldInv, PlayedOnce, PlaysIn, HeldFrozen, HeldInOrder,
                    ReplayFirst, ActivatedIsLast, ReplaysLastEvent
<1>6. WindowInv'
  BY <1>1 DEF Inv, WindowInv, UnmappedFirst, GrabOnTrace
<1> QED  BY <1>2, <1>3, <1>5, <1>6 DEF Inv

LEMMA GrabsKept ==
  ASSUME Inv, Next
  PROVE  TypeOK' /\ SyncInv'
BY InputEventKeeps, RequestKeeps, ReplayKeeps, PlayKeeps, GrabActivatedKeeps,
   ReleaseKeeps, DeleteWindowKeeps, OthersKeep DEF Next, Calls

---------------------------------------------------------------------------
(* The events.                                                             *)

(* No event of the device is in the list.                                  *)
NoneOf(held, d) == \A j \in DOMAIN held : held[j].dev # d

(* The calls that a step leaves below the ones it makes: they may be       *)
(* anywhere in the next stack.                                             *)
RestInv(rest, last, held) ==
  /\ rest \in Seq(Call)
  /\ PlaysIn(rest, playing)
  /\ \A i \in DOMAIN rest :
       /\ rest[i].op # "Replay"
       /\ rest[i].op = "GrabActivated" =>
            /\ last[rest[i].event.dev] = rest[i].event.id
            /\ NoneOf(held, rest[i].event.dev)

CallsInv == PlayedOnce /\ ReplayFirst /\ ActivatedIsLast

LEMMA RestOfIdle ==
  ASSUME Inv, Idle, NEW last, NEW held
  PROVE  RestInv(<< >>, last, held) /\ ~playing
<1>1. stack = << >> /\ PlaysIn(stack, playing)
  BY DEF Idle, Inv, HeldInv, PlayedOnce
<1>2. ~playing
  BY <1>1 DEF PlaysIn, Inv, TypeOK
<1> QED  BY <1>1, <1>2 DEF RestInv

(* A call other than the one that plays events returns.                    *)
LEMMA RestOfReturn ==
  ASSUME Inv, NEW op, Running(op), op # "PlayReleasedEvents"
  PROVE  RestInv(Tail(stack), done, pending)
<1> DEFINE t == Tail(stack)
<1>1. /\ stack \in Seq(Call) /\ playing \in BOOLEAN /\ PlaysIn(stack, playing)
      /\ ReplayFirst /\ ActivatedIsLast
  BY DEF Inv, TypeOK, HeldInv, PlayedOnce
<1>2. /\ stack[1].op = op /\ t \in Seq(Call) /\ Len(t) + 1 = Len(stack)
      /\ DOMAIN t = 1..(Len(stack) - 1)
      /\ \A i \in DOMAIN t : t[i] = stack[i + 1]
      /\ Len(stack) \in Nat /\ DOMAIN stack = 1..Len(stack)
  BY <1>1, HeadOfStack
<1> HIDE DEF t
<1>3. \A i \in DOMAIN t : i + 1 \in DOMAIN stack /\ i + 1 > 1
  BY <1>2
<1>4. \A j \in DOMAIN stack : j # 1 => j - 1 \in DOMAIN t /\ t[j - 1] = stack[j]
  BY <1>2
<1>5. PlaysIn(t, playing)
  <2>1. (\E i \in DOMAIN t : t[i].op = "PlayReleasedEvents")
          = (\E i \in DOMAIN stack : stack[i].op = "PlayReleasedEvents")
    BY <1>2, <1>3, <1>4
  <2>2. \A i, j \in DOMAIN t :
          t[i].op = "PlayReleasedEvents" /\ t[j].op = "PlayReleasedEvents" => i = j
    <3> SUFFICES ASSUME NEW i \in DOMAIN t, NEW j \in DOMAIN t,
                        t[i].op = "PlayReleasedEvents",
                        t[j].op = "PlayReleasedEvents"
                 PROVE  i = j
      OBVIOUS
    <3>1. i + 1 = j + 1
      BY <1>1, <1>2, <1>3 DEF PlaysIn
    <3> QED  BY <1>2, <3>1
  <2> QED  BY <1>1, <2>1, <2>2 DEF PlaysIn
<1>6. \A i \in DOMAIN t :
        /\ t[i].op # "Replay"
        /\ t[i].op = "GrabActivated" =>
             /\ done[t[i].event.dev] = t[i].event.id
             /\ NoneOf(pending, t[i].event.dev)
  <2> TAKE i \in DOMAIN t
  <2>1. i + 1 \in DOMAIN stack /\ i + 1 # 1 /\ i + 1 > 1 /\ t[i] = stack[i + 1]
    BY <1>2, <1>3
  <2> QED  BY <1>1, <2>1 DEF ReplayFirst, ActivatedIsLast, NoneOf
<1> QED  BY <1>2, <1>5, <1>6 DEF RestInv, t

LEMMA ConsProperties ==
  ASSUME NEW c \in Call, NEW rest \in Seq(Call)
  PROVE  LET s == <<c>> \o rest
         IN  /\ s \in Seq(Call) /\ s[1] = c
             /\ DOMAIN s = 1..(Len(rest) + 1) /\ Len(rest) \in Nat
             /\ DOMAIN rest = 1..Len(rest)
             /\ \A i \in DOMAIN rest : i + 1 \in DOMAIN s /\ s[i + 1] = rest[i]
             /\ \A j \in DOMAIN s :
                  j # 1 => j - 1 \in DOMAIN rest /\ s[j] = rest[j - 1]
<1> DEFINE s == <<c>> \o rest
<1>1. s \in Seq(Call)
  BY ConsType
<1> QED  BY <1>1

LEMMA PlaysInCons ==
  ASSUME NEW c \in Call, c.op # "PlayReleasedEvents",
         NEW rest \in Seq(Call), NEW p, PlaysIn(rest, p)
  PROVE  PlaysIn(<<c>> \o rest, p)
<1> DEFINE s == <<c>> \o rest
<1>1. /\ s[1] = c
      /\ DOMAIN s = 1..(Len(rest) + 1) /\ Len(rest) \in Nat
      /\ \A i \in DOMAIN rest : i + 1 \in DOMAIN s /\ s[i + 1] = rest[i]
      /\ \A j \in DOMAIN s :
           j # 1 => j - 1 \in DOMAIN rest /\ s[j] = rest[j - 1]
  BY ConsProperties
<1> HIDE DEF s
<1>2. (\E i \in DOMAIN s : s[i].op = "PlayReleasedEvents")
        = (\E i \in DOMAIN rest : rest[i].op = "PlayReleasedEvents")
  BY <1>1
<1>3. \A i, j \in DOMAIN s :
        s[i].op = "PlayReleasedEvents" /\ s[j].op = "PlayReleasedEvents" => i = j
  <2> SUFFICES ASSUME NEW i \in DOMAIN s, NEW j \in DOMAIN s,
                      s[i].op = "PlayReleasedEvents",
                      s[j].op = "PlayReleasedEvents"
               PROVE  i = j
    OBVIOUS
  <2>1. i - 1 = j - 1
    BY <1>1 DEF PlaysIn
  <2> QED  BY <1>1, <2>1
<1>4. PlaysIn(s, p)
  BY <1>2, <1>3 DEF PlaysIn
<1> QED  BY <1>4 DEF s

(* A call that makes no difference to the others is put in front.          *)
LEMMA RestPlus ==
  ASSUME NEW rest, NEW last, NEW held, RestInv(rest, last, held),
         NEW c \in Call, c.op \notin {"Replay", "PlayReleasedEvents"},
         c.op = "GrabActivated" => /\ last[c.event.dev] = c.event.id
                                   /\ NoneOf(held, c.event.dev)
  PROVE  RestInv(<<c>> \o rest, last, held)
<1> DEFINE s == <<c>> \o rest
<1>1. /\ s \in Seq(Call) /\ s[1] = c
      /\ \A j \in DOMAIN s :
           j # 1 => j - 1 \in DOMAIN rest /\ s[j] = rest[j - 1]
  BY ConsProperties DEF RestInv
<1>2. PlaysIn(s, playing)
  BY PlaysInCons DEF RestInv
<1> HIDE DEF s
<1>3. \A i \in DOMAIN s :
        /\ s[i].op # "Replay"
        /\ s[i].op = "GrabActivated" =>
             /\ last[s[i].event.dev] = s[i].event.id
             /\ NoneOf(held, s[i].event.dev)
  <2> TAKE i \in DOMAIN s
  <2>1. CASE i = 1
    BY <1>1, <2>1
  <2>2. CASE i # 1
    BY <1>1, <2>2 DEF RestInv
  <2> QED  BY <2>1, <2>2
<1> QED  BY <1>1, <1>2, <1>3 DEF RestInv, s

(* The stack after a step that makes no call of its own.                   *)
LEMMA CallsAfter ==
  ASSUME NEW rest, RestInv(rest, done', pending'), playing \in BOOLEAN,
         StackAfter(<< >>, rest) \/ (stack' = rest /\ playing' = playing)
  PROVE  CallsInv'
<1>1. rest \in Seq(Call) /\ PlaysIn(rest, playing)
  BY DEF RestInv
<1>2. CASE stack' = rest /\ playing' = playing
  <2>1. PlayedOnce'
    BY <1>1, <1>2 DEF PlayedOnce, PlaysIn
  <2>2. ReplayFirst'
    BY <1>2 DEF RestInv, ReplayFirst
  <2>3. ActivatedIsLast'
    BY <1>2 DEF RestInv, ActivatedIsLast, NoneOf
  <2> QED  BY <2>1, <2>2, <2>3 DEF CallsInv
<1>3. CASE ~playing /\ playing' = TRUE /\ stack' = << >> \o <<PlayCall>> \o rest
  <2>1. stack' = <<PlayCall>> \o rest
    BY <1>1, <1>3
  <2>2. /\ DOMAIN stack' = 1..(Len(rest) + 1) /\ stack'[1] = PlayCall
        /\ Len(rest) \in Nat
        /\ \A j \in DOMAIN stack' :
             j # 1 => j - 1 \in DOMAIN rest /\ stack'[j] = rest[j - 1]
    BY <1>1, <2>1, CallTypes, ConsProperties
  <2>3. \A i \in DOMAIN rest : rest[i].op # "PlayReleasedEvents"
    BY <1>1, <1>3 DEF PlaysIn
  <2>4. PlayedOnce'
    <3>1. \A j \in DOMAIN stack' : stack'[j].op = "PlayReleasedEvents" => j = 1
      BY <2>2, <2>3
    <3>2. 1 \in DOMAIN stack' /\ stack'[1].op = "PlayReleasedEvents"
      BY <2>2 DEF PlayCall
    <3> QED  BY <1>3, <3>1, <3>2 DEF PlayedOnce, PlaysIn
  <2>5. ReplayFirst'
    BY <2>2 DEF RestInv, ReplayFirst, PlayCall
  <2>6. ActivatedIsLast'
    BY <2>2 DEF RestInv, ActivatedIsLast, NoneOf, PlayCall
  <2> QED  BY <2>4, <2>5, <2>6 DEF CallsInv
<1> QED  BY <1>2, <1>3 DEF StackAfter

(* The stack after a step that activates a passive grab.                   *)
LEMMA CallsAfterActivated ==
  ASSUME NEW rest, RestInv(rest, done', pending'), playing \in BOOLEAN,
         NEW e \in Event, done'[e.dev] = e.id,
         ~playing => NoneOf(pending', e.dev),
         StackAfter(<< >>, <<ActivatedCall(e)>> \o rest)
  PROVE  CallsInv'
<1> DEFINE s == <<ActivatedCall(e)>> \o rest
<1>1. ActivatedCall(e) \in Call /\ ActivatedCall(e).op = "GrabActivated"
      /\ ActivatedCall(e).event = e
  BY CallTypes DEF ActivatedCall
<1>2. CASE NoneOf(pending', e.dev)
  <2>1. RestInv(s, done', pending')
    BY <1>1, <1>2, RestPlus
  <2> HIDE DEF s
  <2> QED  BY <2>1, CallsAfter DEF s
<1>3. CASE playing
  <2>1. stack' = s /\ playing' = playing
    BY <1>3 DEF StackAfter
  <2>2. PlayedOnce'
    <3>1. PlaysIn(s, playing)
      BY <1>1, PlaysInCons DEF RestInv
    <3> HIDE DEF s
    <3> QED  BY <2>1, <3>1 DEF PlayedOnce, PlaysIn
  <2>3. /\ s[1] = ActivatedCall(e)
        /\ \A j \in DOMAIN s :
             j \in Nat /\ (j # 1 => j - 1 \in DOMAIN rest /\ s[j] = rest[j - 1])
    BY <1>1, ConsProperties DEF RestInv
  <2> HIDE DEF s
  <2>4. ReplayFirst'
    BY <1>1, <2>1, <2>3 DEF RestInv, ReplayFirst
  <2>5. ActivatedIsLast'
    BY <1>1, <2>1, <2>3 DEF RestInv, ActivatedIsLast, NoneOf
  <2> QED  BY <2>2, <2>4, <2>5 DEF CallsInv
<1> QED  BY <1>2, <1>3

LEMMA HeldFrozenAfter ==
  ASSUME playing \in BOOLEAN, NEW replay, NEW rest, StackAfter(replay, rest),
         playing \/ pending' = pending
  PROVE  HeldFrozen'
BY DEF StackAfter, HeldFrozen

(* Activating and deactivating a grab freezes no device with an event.     *)
LEMMA ActivateSaves ==
  ASSUME GrabTypes, NEW r \in GrabRequest, NEW b, NEW rest, ActivateGrab(r, b, rest)
  PROVE  \A x \in Devices : state'[x] = "FROZEN_WITH_EVENT" =>
           x # r.dev /\ state[x] = "FROZEN_WITH_EVENT"
BY DEF ActivateGrab, CheckGrabForSyncs, ComputeFreezes, GrabTypes, GrabRequest

LEMMA DeactivateSaves ==
  ASSUME GrabTypes, NEW d \in Devices, NEW oth, NEW replay, NEW rest,
         Deactivate(d, oth, replay, rest)
  PROVE  \A x \in Devices : state'[x] = "FROZEN_WITH_EVENT" =>
           x # d /\ state[x] = "FROZEN_WITH_EVENT"
BY DEF Deactivate, ComputeFreezes, GrabTypes

LEMMA HeldEvents ==
  ASSUME TypeOK
  PROVE  /\ pending \in Seq(Event)
         /\ \A i \in DOMAIN pending : /\ pending[i] \in Event
                                      /\ pending[i].dev \in Devices
                                      /\ pending[i].id \in Nat
<1>1. pending \in Seq(Event)
  BY DEF TypeOK
<1>2. \A i \in DOMAIN pending : pending[i] \in Event
  BY <1>1
<1> QED  BY <1>1, <1>2 DEF Event

(* The event of a device that is not frozen is processed: it is the last   *)
(* one, and it is saved if the device is frozen with it.                   *)
LEMMA ProcessKeepsHeld ==
  ASSUME Inv, NEW e \in Event, ~frozen[e.dev], NEW rest,
         ProcessDeviceEvent(e, rest),
         RestInv(rest, done', pending'),
         playing \/ (pending' = pending /\ NoneOf(pending, e.dev))
  PROVE  CallsInv' /\ HeldFrozen' /\ ReplaysLastEvent'
<1> DEFINE d == e.dev
<1>1. /\ GrabTypes /\ SyncInv /\ playing \in BOOLEAN
      /\ passive \subseteq PassiveGrabs /\ d \in Devices
      /\ done \in [Devices -> 0..MaxEvents]
      /\ event \in [Devices -> Event \cup {NoEvent}]
  BY DEF Inv, TypeOK, GrabTypes, Event
<1>2. ReplaysLastEvent /\ HeldFrozen
  BY DEF Inv, HeldInv
<1>3. done' = [done EXCEPT ![d] = e.id]
  BY <1>1, ProcessEffect
<1>4. done'[d] = e.id /\ \A x \in Devices : x # d => done'[x] = done[x]
  BY <1>1, <1>3
<1>5. state[d] # "FROZEN_WITH_EVENT"
  BY <1>1 DEF SyncInv, FrozenByGrab, FrozenStates
<1>6. ASSUME UNCHANGED event,
             \A x \in Devices : state'[x] = "FROZEN_WITH_EVENT" =>
               x # d /\ state[x] = "FROZEN_WITH_EVENT"
      PROVE  ReplaysLastEvent'
  BY <1>2, <1>4, <1>6 DEF ReplaysLastEvent
<1>7. ~playing => NoneOf(pending', e.dev)
  BY <1>1
<1>8. CASE Activates(e, <<ActivatedCall(e)>> \o rest) /\ UNCHANGED event
  <2>1. PICK r \in GrabRequest :
          r.dev = d /\ ActivateGrab(r, TRUE, <<ActivatedCall(e)>> \o rest)
    BY <1>8 DEF Activates
  <2>2. StackAfter(<< >>, <<ActivatedCall(e)>> \o rest)
    BY <1>1, <2>1, StackAfterActivate
  <2>3. CallsInv'
    BY <1>1, <1>4, <1>7, <2>2, CallsAfterActivated
  <2>4. HeldFrozen'
    BY <1>1, <2>2, HeldFrozenAfter
  <2>5. ReplaysLastEvent'
    BY <1>1, <1>6, <1>8, <2>1, ActivateSaves
  <2> QED  BY <2>3, <2>4, <2>5
<1>9. CASE Activates(e, rest) /\ UNCHANGED event
  <2>1. PICK r \in GrabRequest : r.dev = d /\ ActivateGrab(r, TRUE, rest)
    BY <1>9 DEF Activates
  <2>2. StackAfter(<< >>, rest)
    BY <1>1, <2>1, StackAfterActivate
  <2>3. CallsInv' /\ HeldFrozen'
    BY <1>1, <2>2, CallsAfter, HeldFrozenAfter
  <2>4. ReplaysLastEvent'
    BY <1>1, <1>6, <1>9, <2>1, ActivateSaves
  <2> QED  BY <2>3, <2>4
<1>10. CASE DeactivateGrab(d, rest) /\ UNCHANGED event
  <2>1. Deactivate(d, other, << >>, rest)
    BY <1>10 DEF DeactivateGrab
  <2>2. StackAfter(<< >>, rest)
    BY <1>1, <2>1, StackAfterDeactivate
  <2>3. CallsInv' /\ HeldFrozen'
    BY <1>1, <2>2, CallsAfter, HeldFrozenAfter
  <2>4. ReplaysLastEvent'
    BY <1>1, <1>6, <1>10, <2>1, DeactivateSaves
  <2> QED  BY <2>3, <2>4
<1>11. CASE Passes(rest) /\ UNCHANGED sync /\ UNCHANGED event
  <2>1. stack' = rest /\ playing' = playing /\ UNCHANGED <<state, frozen>>
    BY <1>11 DEF Passes, sync
  <2>2. CallsInv'
    BY <1>1, <2>1, CallsAfter
  <2>3. HeldFrozen'
    BY <1>2, <2>1 DEF HeldFrozen
  <2>4. ReplaysLastEvent'
    BY <1>5, <1>6, <1>11, <2>1
  <2> QED  BY <2>2, <2>3, <2>4
<1>12. CASE Passes(rest) /\ FreezeThisEvent(e)
  <2>1. stack' = rest /\ playing' = playing
    BY <1>12 DEF Passes
  <2>2. CallsInv'
    BY <1>1, <2>1, CallsAfter
  <2>3. CASE UNCHANGED <<sync, event>>
    <3>1. UNCHANGED <<state, frozen, event>>
      BY <2>3 DEF sync
    <3>2. HeldFrozen'
      BY <1>2, <2>1, <3>1 DEF HeldFrozen
    <3> QED  BY <1>5, <1>6, <2>2, <3>1, <3>2
  <2>4. CASE ~UNCHANGED <<sync, event>>
    <3> DEFINE p == Paired[d]
               both == state[d] = "FREEZE_BOTH_NEXT_EVENT"
               pair == both /\ state[p] = "FREEZE_BOTH_NEXT_EVENT"
                       /\ grab[p].client = grab[d].client
    <3>1. /\ state' = [state EXCEPT ![d] = "FROZEN_WITH_EVENT",
                         ![p] = IF pair THEN "FROZEN_NO_EVENT" ELSE @]
          /\ frozen' = [frozen EXCEPT ![d] = TRUE, ![p] = @ \/ both]
          /\ event' = [event EXCEPT ![d] = e]
      BY <1>12, <2>4 DEF FreezeThisEvent
    <3>2. p \in Devices /\ p # d /\ \A x \in Devices : x = d \/ x = p
      BY <1>1, PairedProperties
    <3>3. frozen'[d] = TRUE /\ frozen'[p] = (frozen[p] \/ both)
      BY <1>1, <3>1, <3>2 DEF GrabTypes
    <3>4. state'[p] \in {"FROZEN_NO_EVENT", state[p]}
      BY <1>1, <3>1, <3>2 DEF GrabTypes
    <3>5. event'[d] = e /\ event'[p] = event[p]
      BY <1>1, <3>1, <3>2
    <3> HIDE DEF both, pair
    <3>6. ReplaysLastEvent'
      <4>1. event'[d].dev = d /\ event'[d].id = done'[d]
        BY <1>4, <3>5
      <4>2. state'[p] = "FROZEN_WITH_EVENT" =>
              event'[p].dev = p /\ event'[p].id = done'[p]
        BY <1>2, <1>4, <3>2, <3>4, <3>5 DEF ReplaysLastEvent
      <4> QED  BY <3>2, <4>1, <4>2 DEF ReplaysLastEvent
    <3>7. HeldFrozen'
      <4>1. \A x \in Devices : frozen[x] => frozen'[x]
        BY <3>2, <3>3
      <4>2. ~playing' => pending' = pending /\ ~playing
        BY <1>1, <2>1
      <4>3. \A i \in DOMAIN pending : pending[i].dev \in Devices
        BY HeldEvents DEF Inv
      <4> QED  BY <1>2, <4>1, <4>2, <4>3 DEF HeldFrozen
    <3> QED  BY <2>2, <3>6, <3>7
  <2> QED  BY <2>3, <2>4
<1> QED  BY <1>1, <1>8, <1>9, <1>10, <1>11, <1>12, ProcessEffect

(* A motion takes the place of the last event, or an event is put behind.  *)
LEMMA EnqueuedEvents ==
  ASSUME TypeOK, NEW e \in Event, EnqueueEvent(e)
  PROVE  \E n \in Nat :
           /\ n \in {Len(pending) - 1, Len(pending)}
           /\ DOMAIN pending' = 1..(n + 1)
           /\ pending'[n + 1] = e
           /\ \A i \in 1..n : i \in DOMAIN pending /\ pending'[i] = pending[i]
           /\ n # Len(pending) => /\ e.type = "Motion"
                                  /\ pending[n + 1].type = "Motion"
                                  /\ pending[n + 1].dev = e.dev
<1> DEFINE Put(n) ==
             /\ n \in {Len(pending) - 1, Len(pending)}
             /\ DOMAIN pending' = 1..(n + 1)
             /\ pending'[n + 1] = e
             /\ \A i \in 1..n : i \in DOMAIN pending /\ pending'[i] = pending[i]
             /\ n # Len(pending) => /\ e.type = "Motion"
                                    /\ pending[n + 1].type = "Motion"
                                    /\ pending[n + 1].dev = e.dev
<1>1. pending \in Seq(Event) /\ Len(pending) \in Nat /\ DOMAIN pending = 1..Len(pending)
  BY DEF TypeOK
<1>2. CASE /\ pending # << >> /\ e.type = "Motion"
           /\ Last(pending).type = "Motion" /\ Last(pending).dev = e.dev
  <2>1. pending' = Front(pending) \o <<e>>
    BY <1>2 DEF EnqueueEvent
  <2>2. PICK n \in Nat : n + 1 = Len(pending)
    <3>1. Len(pending) # 0
      BY <1>1, <1>2
    <3>2. Len(pending) - 1 \in Nat /\ (Len(pending) - 1) + 1 = Len(pending)
      BY <1>1, <3>1
    <3> QED  BY <3>2
  <2>3. Last(pending) = pending[n + 1]
    BY <2>2 DEF Last
  <2>4. Front(pending) = SubSeq(pending, 1, n)
    BY <2>2 DEF Front
  <2> DEFINE f == SubSeq(pending, 1, n)
  <2>5. f \in Seq(Event) /\ Len(f) = n /\ \A i \in 1..n : f[i] = pending[i]
    BY <1>1, <2>2
  <2> HIDE DEF f
  <2>6. DOMAIN (f \o <<e>>) = 1..(n + 1) /\ (f \o <<e>>)[n + 1] = e
        /\ \A i \in 1..n : (f \o <<e>>)[i] = f[i]
    BY <2>5
  <2>7. pending' = f \o <<e>>
    BY <2>1, <2>4 DEF f
  <2>8. n \in {Len(pending) - 1, Len(pending)}
    <3>1. ASSUME NEW k \in Nat, n + 1 = k PROVE n = k - 1
      BY <3>1
    <3>2. n = Len(pending) - 1
      BY <1>1, <2>2, <3>1
    <3> QED  BY <3>2
  <2>9. \A i \in 1..n : i \in DOMAIN pending /\ pending'[i] = pending[i]
    BY <1>1, <2>2, <2>5, <2>6, <2>7
  <2>10. DOMAIN pending' = 1..(n + 1) /\ pending'[n + 1] = e
    BY <2>6, <2>7
  <2>11. Put(n)
    BY <1>2, <2>3, <2>8, <2>9, <2>10
  <2> QED  BY <2>11
<1>3. CASE pending' = Append(pending, e)
  <2>1. Put(Len(pending))
    BY <1>1, <1>3
  <2> QED  BY <1>1, <2>1
<1> QED  BY <1>2, <1>3 DEF EnqueueEvent

LEMMA InputEventHeld ==
  ASSUME Inv, NEW d \in Devices, NEW type \in EventType, InputEvent(d, type)
  PROVE  HeldInv'
<1> DEFINE e == [dev |-> d, id |-> next, type |-> type]
<1>1. /\ TypeOK /\ e \in Event /\ Idle
      /\ playing \in BOOLEAN /\ next \in Nat /\ next' = next + 1
      /\ done \in [Devices -> 0..MaxEvents]
      /\ pending \in Seq(Event)
      /\ EnqueueEvent(e) \/ (~frozen[d] /\ ProcessDeviceEvent(e, << >>)
                             /\ UNCHANGED pending)
  <2>1. TypeOK /\ e \in Event
    BY InputEventType DEF Inv
  <2>2. /\ Idle /\ next' = next + 1
        /\ EnqueueEvent(e) \/ (~frozen[d] /\ ProcessDeviceEvent(e, << >>)
                               /\ UNCHANGED pending)
    BY DEF InputEvent
  <2>3. playing \in BOOLEAN /\ done \in [Devices -> 0..MaxEvents]
        /\ pending \in Seq(Event) /\ next \in Nat
    BY <2>1, GrabsAssumption DEF TypeOK
  <2> QED  BY <2>1, <2>2, <2>3
<1>2. e.dev = d /\ e.id = next
  OBVIOUS
<1> HIDE DEF e
<1>3. HeldInOrder /\ HeldFrozen /\ ReplaysLastEvent
      /\ PlayedOnce /\ ReplayFirst /\ ActivatedIsLast
  BY DEF Inv, HeldInv
<1>4. CASE EnqueueEvent(e)
  <2>1. /\ UNCHANGED <<state, frozen, event, playing, stack, done>>
        /\ frozen[d]
    BY <1>2, <1>4 DEF EnqueueEvent, sync
  <2>2. PICK n \in Nat :
          /\ DOMAIN pending' = 1..(n + 1)
          /\ pending'[n + 1] = e
          /\ \A i \in 1..n : i \in DOMAIN pending /\ pending'[i] = pending[i]
    BY <1>1, <1>4, EnqueuedEvents
  <2>3. \A i \in DOMAIN pending' :
          \/ i = n + 1 /\ pending'[i] = e
          \/ i < n + 1 /\ i \in DOMAIN pending /\ pending'[i] = pending[i]
    BY <2>2
  <2>4. HeldFrozen'
    BY <1>2, <1>3, <2>1, <2>3 DEF HeldFrozen
  <2>5. HeldInOrder'
    <3>1. \A i \in DOMAIN pending' :
            done'[pending'[i].dev] < pending'[i].id /\ pending'[i].id < next'
      <4> TAKE i \in DOMAIN pending'
      <4>1. CASE pending'[i] = e
        BY <1>1, <1>2, <1>3, <2>1, <4>1 DEF HeldInOrder
      <4>2. CASE i \in DOMAIN pending /\ pending'[i] = pending[i]
        <5>1. done[pending[i].dev] < pending[i].id /\ pending[i].id < next
              /\ pending[i].id \in Nat
          BY <1>1, <1>3, <4>2, HeldEvents DEF HeldInOrder
        <5> QED  BY <1>1, <2>1, <4>2, <5>1
      <4> QED  BY <2>3, <4>1, <4>2
    <3>2. \A i, j \in DOMAIN pending' : i < j => pending'[i].id < pending'[j].id
      <4> SUFFICES ASSUME NEW i \in DOMAIN pending', NEW j \in DOMAIN pending', i < j
                   PROVE  pending'[i].id < pending'[j].id
        OBVIOUS
      <4>1. i \in DOMAIN pending /\ pending'[i] = pending[i] /\ pending[i].id < next
        BY <1>3, <2>2, <2>3 DEF HeldInOrder
      <4>2. CASE pending'[j] = e
        BY <1>2, <4>1, <4>2
      <4>3. CASE j \in DOMAIN pending /\ pending'[j] = pending[j]
        BY <1>3, <4>1, <4>3 DEF HeldInOrder
      <4> QED  BY <2>3, <4>2, <4>3
    <3>3. \A x \in Devices : done'[x] < next'
      BY <1>1, <1>3, <2>1 DEF HeldInOrder
    <3> QED  BY <3>1, <3>2, <3>3 DEF HeldInOrder
  <2>6. PlayedOnce' /\ ReplaysLastEvent'
    BY <1>3, <2>1 DEF PlayedOnce, PlaysIn, ReplaysLastEvent
  <2>7. ReplayFirst' /\ ActivatedIsLast'
    BY <1>1, <2>1 DEF ReplayFirst, ActivatedIsLast, Idle
  <2> QED  BY <2>4, <2>5, <2>6, <2>7 DEF HeldInv
<1>5. CASE ~frozen[d] /\ ProcessDeviceEvent(e, << >>) /\ UNCHANGED pending
  <2>1. RestInv(<< >>, done', pending') /\ ~playing
    BY <1>1, RestOfIdle
  <2>2. NoneOf(pending, d)
    BY <1>3, <1>5, <2>1 DEF HeldFrozen, NoneOf
  <2>3. CallsInv' /\ HeldFrozen' /\ ReplaysLastEvent'
    BY <1>1, <1>2, <1>5, <2>1, <2>2, ProcessKeepsHeld
  <2>4. done' = [done EXCEPT ![d] = next]
    BY <1>1, <1>2, <1>5, ProcessEffect DEF TypeOK
  <2>5. HeldInOrder'
    <3>1. \A i \in DOMAIN pending :
            /\ done'[pending[i].dev] = done[pending[i].dev]
            /\ done[pending[i].dev] < pending[i].id /\ pending[i].id < next
            /\ pending[i].id \in Nat
      BY <1>1, <1>3, <2>2, <2>4, HeldEvents DEF NoneOf, HeldInOrder
    <3>2. \A i \in DOMAIN pending :
            done'[pending[i].dev] < pending[i].id /\ pending[i].id < next'
      BY <1>1, <3>1
    <3>3. \A x \in Devices : done'[x] < next'
      BY <1>1, <1>3, <2>4 DEF HeldInOrder
    <3>4. pending' = pending
      BY <1>5
    <3> QED  BY <1>3, <3>2, <3>3, <3>4 DEF HeldInOrder
  <2> QED  BY <2>3, <2>5 DEF HeldInv, CallsInv
<1> QED  BY <1>1, <1>4, <1>5

(* A step that processes no event.                                         *)
LEMMA QuietHeld ==
  ASSUME Inv, NEW rest, RestInv(rest, done, pending),
         UNCHANGED <<event, pending, done, next>>,
         \/ StackAfter(<< >>, rest)
         \/ stack' = rest /\ playing' = playing /\ UNCHANGED frozen,
         \A x \in Devices : state'[x] = "FROZEN_WITH_EVENT" =>
                              state[x] = "FROZEN_WITH_EVENT"
  PROVE  HeldInv'
<1>1. playing \in BOOLEAN /\ HeldInOrder /\ HeldFrozen /\ ReplaysLastEvent
  BY DEF Inv, TypeOK, HeldInv
<1>2. RestInv(rest, done', pending')
  <2>1. done' = done /\ pending' = pending
    OBVIOUS
  <2> QED  BY <2>1
<1>3. CallsInv'
  BY <1>1, <1>2, CallsAfter
<1>4. HeldFrozen'
  <2>1. CASE StackAfter(<< >>, rest)
    BY <1>1, <2>1, HeldFrozenAfter
  <2>2. CASE playing' = playing /\ UNCHANGED frozen
    BY <1>1, <2>2 DEF HeldFrozen
  <2> QED  BY <2>1, <2>2
<1>5. HeldInOrder' /\ ReplaysLastEvent'
  BY <1>1 DEF HeldInOrder, ReplaysLastEvent
<1> QED  BY <1>3, <1>4, <1>5 DEF HeldInv, CallsInv

LEMMA TwoCalls ==
  ASSUME NEW a \in Call, NEW b \in Call
  PROVE  LET s == <<a>> \o <<b>> \o << >>
         IN  DOMAIN s = {1, 2} /\ s[1] = a /\ s[2] = b
<1> DEFINE r == <<b>>
           s == <<a>> \o r
<1>1. r \in Seq(Call) /\ DOMAIN r = {1} /\ r[1] = b /\ Len(r) = 1
  OBVIOUS
<1> HIDE DEF r
<1>2. /\ s \in Seq(Call) /\ s[1] = a
      /\ DOMAIN s = 1..(Len(r) + 1)
      /\ \A i \in DOMAIN r : i + 1 \in DOMAIN s /\ s[i + 1] = r[i]
  <2>1. r \in Seq(Call)
    BY <1>1
  <2> QED  BY <2>1, ConsProperties
<1>3. DOMAIN s = {1, 2} /\ s[2] = b
  BY <1>1, <1>2
<1> HIDE DEF s
<1>4. s \o << >> = s
  BY <1>2
<1> QED  BY <1>2, <1>3, <1>4 DEF s, r

LEMMA RequestHeld ==
  ASSUME Inv,
         \/ \E c \in Clients, d \in Devices : UngrabDevice(c, d)
         \/ \E c \in Clients, d \in Devices, s \in NewState : AllowSome(c, d, s)
         \/ \E r \in ActiveGrabs : GrabDevice(r)
  PROVE  HeldInv'
<1>1. GrabTypes /\ SyncInv /\ playing \in BOOLEAN
  BY TypeParts DEF Inv, GrabTypes
<1>2. ASSUME Idle, UNCHANGED <<event, pending, world, input>>,
             StackAfter(<< >>, << >>),
             \A x \in Devices : state'[x] = "FROZEN_WITH_EVENT" =>
                                  state[x] = "FROZEN_WITH_EVENT"
      PROVE  HeldInv'
  <2>1. RestInv(<< >>, done, pending)
    BY <1>2, RestOfIdle
  <2>2. UNCHANGED <<event, pending, done, next>>
    BY <1>2 DEF input
  <2> QED  BY <1>2, <2>1, <2>2, QuietHeld
<1>3. ASSUME NEW c \in Clients, NEW d \in Devices, UngrabDevice(c, d)
      PROVE  HeldInv'
  <2>1. Idle /\ Deactivate(d, other, << >>, << >>)
        /\ UNCHANGED <<event, pending, world, input>>
    BY <1>3 DEF UngrabDevice, DeactivateGrab
  <2>2. StackAfter(<< >>, << >>)
    BY <1>1, <2>1, StackAfterDeactivate
  <2>3. \A x \in Devices : state'[x] = "FROZEN_WITH_EVENT" =>
                             state[x] = "FROZEN_WITH_EVENT"
    BY <1>1, <2>1, DeactivateSaves
  <2> QED  BY <1>2, <2>1, <2>2, <2>3
<1>4. ASSUME NEW r \in ActiveGrabs, GrabDevice(r)
      PROVE  HeldInv'
  <2>1. Idle /\ ActivateGrab(r, FALSE, << >>)
        /\ UNCHANGED <<event, pending, world, input>>
    BY <1>4 DEF GrabDevice
  <2>2. StackAfter(<< >>, << >>)
    BY <1>1, <2>1, StackAfterActivate
  <2>3. \A x \in Devices : state'[x] = "FROZEN_WITH_EVENT" =>
                             state[x] = "FROZEN_WITH_EVENT"
    BY <1>1, <2>1, ActivateSaves, GrabsAssumption
  <2> QED  BY <1>2, <2>1, <2>2, <2>3
<1>5. ASSUME NEW c \in Clients, NEW d \in Devices, NEW s \in NewState,
             AllowSome(c, d, s)
      PROVE  HeldInv'
  <2>1. Idle /\ UNCHANGED <<event, pending, world, input>>
    BY <1>5 DEF AllowSome
  <2>2. AllowEffect(c, d, s)
    BY <1>1, <1>5, AllowSomeTypes
  <2>3. CASE /\ StackAfter(<< >>, << >>)
             /\ \A e \in Devices : state'[e] = "FROZEN_WITH_EVENT" =>
                                     state[e] = "FROZEN_WITH_EVENT"
    BY <1>2, <2>1, <2>3
  <2>4. ASSUME GrabbedBy(d, c), state[d] = "FROZEN_WITH_EVENT",
               NEW oth \in [Devices -> Grab \cup {NullGrab}],
               Deactivate(d, oth,
                 <<[op |-> "Replay", dev |-> d, window |-> grab[d].window]>>, << >>)
        PROVE  HeldInv'
    <3> DEFINE call == [op |-> "Replay", dev |-> d, window |-> grab[d].window]
    <3>1. call.op = "Replay" /\ call.dev = d /\ Deactivate(d, oth, <<call>>, << >>)
      BY <2>4
    <3> HIDE DEF call
    <3>2. StackAfter(<<call>>, << >>)
      BY <1>1, <3>1, StackAfterDeactivate
    <3>3. ~playing /\ HeldInOrder /\ ReplaysLastEvent
      BY <2>1, RestOfIdle DEF Inv, HeldInv
    <3>4. playing' = TRUE /\ stack' = <<call>> \o <<PlayCall>> \o << >>
      BY <3>2, <3>3 DEF StackAfter
    <3>5. call \in Call
      <4>1. grab[d].window \in Range(Windows)
        BY <1>1, <2>4, GrabFields DEF GrabbedBy, GrabTypes
      <4> QED  BY <4>1, CallTypes DEF call
    <3>6. DOMAIN stack' = {1, 2} /\ stack'[1] = call /\ stack'[2] = PlayCall
      BY <3>4, <3>5, TwoCalls, CallTypes
    <3>7. grab'[d] = NullGrab
      BY <1>1, <3>1 DEF Deactivate, GrabTypes
    <3>8. UNCHANGED <<event, pending, done, next>>
      BY <2>1 DEF input
    <3>9. event[d].dev = d /\ event[d].id = done[d]
      BY <2>4, <3>3 DEF ReplaysLastEvent
    <3>10. PlayedOnce'
      <4>1. \A i \in DOMAIN stack' : stack'[i].op = "PlayReleasedEvents" => i = 2
        BY <3>1, <3>6
      <4>2. 2 \in DOMAIN stack' /\ stack'[2].op = "PlayReleasedEvents"
        BY <3>6 DEF PlayCall
      <4> QED  BY <3>4, <4>1, <4>2 DEF PlayedOnce, PlaysIn
    <3>11. ReplayFirst'
      BY <3>1, <3>4, <3>6, <3>7, <3>8, <3>9 DEF ReplayFirst, PlayCall
    <3>12. ActivatedIsLast'
      BY <3>1, <3>6 DEF ActivatedIsLast, PlayCall
    <3>13. HeldFrozen' /\ HeldInOrder'
      BY <3>3, <3>4, <3>8 DEF HeldFrozen, HeldInOrder
    <3>14. ReplaysLastEvent'
      <4>1. \A x \in Devices : state'[x] = "FROZEN_WITH_EVENT" =>
                                 state[x] = "FROZEN_WITH_EVENT"
        BY <1>1, <3>1, DeactivateSaves
      <4> QED  BY <3>3, <3>8, <4>1 DEF ReplaysLastEvent
    <3> QED  BY <3>10, <3>11, <3>12, <3>13, <3>14 DEF HeldInv
  <2> QED  BY <2>2, <2>3, <2>4 DEF AllowEffect
<1> QED  BY <1>3, <1>4, <1>5

LEMMA ReplayHeld ==
  ASSUME Inv, Replay
  PROVE  HeldInv'
<1> DEFINE d == Head(stack).dev
           e == event[d]
           rest == Tail(stack)
<1>1. /\ d \in Devices /\ e \in Event /\ e.dev = d /\ e.id = done[d]
      /\ \/ Activates(e, <<ActivatedCall(e)>> \o rest)
         \/ Activates(e, rest)
         \/ Passes(rest) /\ UNCHANGED sync
  BY ReplayKeeps
<1>2. UNCHANGED <<event, pending, done, next>>
  BY DEF Replay, input
<1>3. GrabTypes /\ playing \in BOOLEAN /\ stack \in Seq(Call)
      /\ ReplaysLastEvent /\ HeldInOrder
  BY TypeParts DEF Inv, GrabTypes, HeldInv
<1>4. playing
  <2>1. stack[1].op = "Replay" /\ 1 \in DOMAIN stack
    BY <1>3, HeadOfStack DEF Replay
  <2> QED  BY <2>1 DEF Inv, HeldInv, ReplayFirst
<1>5. RestInv(rest, done, pending)
  BY RestOfReturn DEF Replay
<1> HIDE DEF e, rest
<1>6. RestInv(rest, done', pending') /\ done'[e.dev] = e.id
  <2>1. done' = done /\ pending' = pending
    BY <1>2
  <2> QED  BY <1>1, <1>5, <2>1
<1>7. ASSUME NEW r \in GrabRequest, NEW calls, ActivateGrab(r, TRUE, calls), CallsInv'
      PROVE  HeldInv'
  <2>1. StackAfter(<< >>, calls)
    BY <1>3, <1>7, StackAfterActivate
  <2>2. HeldFrozen'
    BY <1>3, <1>4, <2>1, HeldFrozenAfter
  <2>3. \A x \in Devices : state'[x] = "FROZEN_WITH_EVENT" =>
                             state[x] = "FROZEN_WITH_EVENT"
    BY <1>3, <1>7, ActivateSaves
  <2>4. HeldInOrder' /\ ReplaysLastEvent'
    BY <1>2, <1>3, <2>3 DEF HeldInOrder, ReplaysLastEvent
  <2> QED  BY <1>7, <2>2, <2>4 DEF HeldInv, CallsInv
<1>8. CASE Activates(e, <<ActivatedCall(e)>> \o rest)
  <2>1. PICK r \in GrabRequest :
          ActivateGrab(r, TRUE, <<ActivatedCall(e)>> \o rest)
    BY <1>8 DEF Activates
  <2>2. StackAfter(<< >>, <<ActivatedCall(e)>> \o rest)
    BY <1>3, <2>1, StackAfterActivate
  <2>3. CallsInv'
    BY <1>1, <1>3, <1>4, <1>6, <2>2, CallsAfterActivated
  <2> QED  BY <1>7, <2>1, <2>3
<1>9. CASE Activates(e, rest)
  <2>1. PICK r \in GrabRequest : ActivateGrab(r, TRUE, rest)
    BY <1>9 DEF Activates
  <2>2. StackAfter(<< >>, rest)
    BY <1>3, <2>1, StackAfterActivate
  <2>3. CallsInv'
    BY <1>3, <1>6, <2>2, CallsAfter
  <2> QED  BY <1>7, <2>1, <2>3
<1>10. CASE Passes(rest) /\ UNCHANGED sync
  <2>1. stack' = rest /\ playing' = playing /\ UNCHANGED <<state, frozen>>
    BY <1>10 DEF Passes, sync
  <2> QED  BY <1>2, <1>5, <2>1, QuietHeld
<1> QED  BY <1>1, <1>8, <1>9, <1>10

(* The event that is played is the oldest one of its device.               *)
LEMMA PlayHeld ==
  ASSUME Inv, PlayReleasedEvents
  PROVE  HeldInv'
<1>1. /\ TypeOK /\ SyncInv /\ pending \in Seq(Event) /\ stack \in Seq(Call)
      /\ HeldInOrder /\ HeldFrozen /\ PlaysIn(stack, playing)
      /\ ReplayFirst /\ ActivatedIsLast /\ ReplaysLastEvent
      /\ playing \in BOOLEAN
  BY DEF Inv, TypeOK, HeldInv, PlayedOnce
<1>2. stack[1].op = "PlayReleasedEvents" /\ 1 \in DOMAIN stack
  BY <1>1, HeadOfStack DEF PlayReleasedEvents
<1>3. playing
  BY <1>1, <1>2 DEF PlaysIn
<1>4. next' = next
  BY DEF PlayReleasedEvents
<1>5. CASE /\ Released # {}
           /\ pending' = RemoveAt(pending, Min(Released))
           /\ ProcessDeviceEvent(pending[Min(Released)], stack)
  <2> DEFINE k == Min(Released)
             e == pending[k]
             d == pending[k].dev
  <2>1. /\ k \in DOMAIN pending /\ e \in Event /\ d \in Devices /\ ~frozen[d]
        /\ \A i \in DOMAIN pending : i < k => frozen[pending[i].dev]
    BY <1>1, <1>5, FirstReleased, HeldEvents
  <2>2. pending' = RemoveAt(pending, k) /\ ProcessDeviceEvent(e, stack)
    BY <1>5
  <2> HIDE DEF k
  <2>3. /\ k \in Nat /\ Len(pending) \in Nat /\ k <= Len(pending)
        /\ DOMAIN pending = 1..Len(pending)
    BY <1>1, <2>1
  <2>4. /\ pending' \in Seq(Event) /\ DOMAIN pending' = 1..(Len(pending) - 1)
        /\ \A i \in 1..(k - 1) : pending'[i] = pending[i]
        /\ \A i \in k..(Len(pending) - 1) : pending'[i] = pending[i + 1]
    BY <1>1, <2>1, <2>2, RemoveAtProperties
  <2>5. \A i \in DOMAIN pending' :
          \/ i < k /\ i \in DOMAIN pending /\ pending'[i] = pending[i]
          \/ i >= k /\ i + 1 \in DOMAIN pending /\ pending'[i] = pending[i + 1]
    <3> TAKE i \in DOMAIN pending'
    <3>1. i \in 1..(Len(pending) - 1)
      BY <2>4
    <3>2. ASSUME i < k
          PROVE  i \in DOMAIN pending /\ pending'[i] = pending[i]
      <4>1. i \in 1..(k - 1) /\ i \in 1..Len(pending)
        BY <2>3, <3>1, <3>2
      <4> QED  BY <2>3, <2>4, <3>2, <4>1
    <3>3. ASSUME i >= k
          PROVE  i + 1 \in DOMAIN pending /\ pending'[i] = pending[i + 1]
      <4>1. i \in k..(Len(pending) - 1) /\ i + 1 \in 1..Len(pending)
        BY <2>3, <3>1, <3>3
      <4> QED  BY <2>3, <2>4, <3>3, <4>1
    <3>4. i < k \/ i >= k
      BY <2>3, <3>1
    <3> QED  BY <3>2, <3>3, <3>4
  <2>6. done' = [done EXCEPT ![d] = e.id] /\ done \in [Devices -> 0..MaxEvents]
    BY <1>1, <2>1, <2>2, ProcessEffect DEF TypeOK
  <2>7. \A x \in Devices : done'[x] = IF x = d THEN e.id ELSE done[x]
    BY <2>1, <2>6
  <2>8. RestInv(stack, done', pending')
    <3>1. \A i \in DOMAIN stack : stack[i].op = "GrabActivated" =>
            /\ done[stack[i].event.dev] = stack[i].event.id
            /\ NoneOf(pending, stack[i].event.dev)
            /\ stack[i].event.dev \in Devices
      <4> TAKE i \in DOMAIN stack
      <4> HAVE stack[i].op = "GrabActivated"
      <4>1. i # 1 /\ i \in Nat /\ i > 1
        BY <1>1, <1>2
      <4>2. stack[i].event \in Event
        BY <1>1, CallFields
      <4> QED  BY <1>1, <4>1, <4>2 DEF ActivatedIsLast, NoneOf, Event
    <3>2. \A i \in DOMAIN stack : stack[i].op = "GrabActivated" =>
            /\ done'[stack[i].event.dev] = stack[i].event.id
            /\ NoneOf(pending', stack[i].event.dev)
      BY <2>1, <2>5, <2>7, <3>1 DEF NoneOf
    <3>3. \A i \in DOMAIN stack : stack[i].op # "Replay"
      BY <1>1, <1>2 DEF ReplayFirst
    <3> QED  BY <1>1, <3>2, <3>3 DEF RestInv
  <2>9. CallsInv' /\ HeldFrozen' /\ ReplaysLastEvent'
    BY <1>3, <2>1, <2>2, <2>8, ProcessKeepsHeld
  <2>10. HeldInOrder'
    <3>1. \A i, j \in DOMAIN pending' : i < j => pending'[i].id < pending'[j].id
      <4> SUFFICES ASSUME NEW i \in DOMAIN pending', NEW j \in DOMAIN pending', i < j
                   PROVE  pending'[i].id < pending'[j].id
        OBVIOUS
      <4>1. PICK i0 \in {i, i + 1}, j0 \in {j, j + 1} :
              /\ i0 \in DOMAIN pending /\ pending'[i] = pending[i0]
              /\ j0 \in DOMAIN pending /\ pending'[j] = pending[j0]
              /\ i0 < j0
        <5>1. PICK i0 \in {i, i + 1} :
                /\ i0 \in DOMAIN pending /\ pending'[i] = pending[i0]
                /\ i0 = i \/ i >= k
          BY <2>5
        <5>2. PICK j0 \in {j, j + 1} :
                /\ j0 \in DOMAIN pending /\ pending'[j] = pending[j0]
                /\ j0 = j + 1 \/ j < k
          BY <2>5
        <5>3. i0 < j0
          BY <2>3, <2>4, <5>1, <5>2
        <5> QED  BY <5>1, <5>2, <5>3
      <4> QED  BY <1>1, <4>1 DEF HeldInOrder
    <3>2. \A i \in DOMAIN pending :
            i # k => /\ done'[pending[i].dev] < pending[i].id
                     /\ pending[i].id < next'
      <4> TAKE i \in DOMAIN pending
      <4> HAVE i # k
      <4>1. done[pending[i].dev] < pending[i].id /\ pending[i].id < next
            /\ pending[i].dev \in Devices
        BY <1>1, HeldEvents DEF HeldInOrder
      <4>2. CASE pending[i].dev = d
        <5>1. i > k
          BY <2>1, <2>3, <4>2
        <5>2. e.id < pending[i].id
          BY <1>1, <2>1, <5>1 DEF HeldInOrder
        <5> QED  BY <1>4, <2>7, <4>1, <4>2, <5>2
      <4>3. CASE pending[i].dev # d
        BY <1>4, <2>7, <4>1, <4>3
      <4> QED  BY <4>2, <4>3
    <3>3. \A i \in DOMAIN pending' :
            done'[pending'[i].dev] < pending'[i].id /\ pending'[i].id < next'
      <4> TAKE i \in DOMAIN pending'
      <4>1. PICK i0 \in DOMAIN pending : i0 # k /\ pending'[i] = pending[i0]
        <5>1. i \in Nat
          BY <2>4
        <5> QED  BY <2>3, <2>5, <5>1
      <4> QED  BY <3>2, <4>1
    <3>4. \A x \in Devices : done'[x] < next'
      BY <1>1, <1>4, <2>1, <2>7 DEF HeldInOrder
    <3> QED  BY <3>1, <3>3, <3>4 DEF HeldInOrder
  <2> QED  BY <2>9, <2>10 DEF HeldInv, CallsInv
<1>6. CASE /\ Released = {}
           /\ playing' = FALSE
           /\ stack' = Tail(stack)
           /\ UNCHANGED <<grab, fromPassive, sync, event, pending, done>>
  <2>1. UNCHANGED <<state, frozen, event, pending, done, next>>
    BY <1>4, <1>6 DEF sync
  <2>2. /\ DOMAIN stack' = 1..(Len(stack) - 1)
        /\ \A i \in DOMAIN stack' : stack'[i] = stack[i + 1]
        /\ DOMAIN stack = 1..Len(stack) /\ Len(stack) \in Nat
    BY <1>1, <1>6, HeadOfStack DEF PlayReleasedEvents
  <2>3. \A i \in DOMAIN stack' :
          i \in Nat /\ i + 1 \in DOMAIN stack /\ i + 1 # 1 /\ i + 1 > 1
          /\ stack'[i] = stack[i + 1]
    BY <2>2
  <2>4. PlayedOnce'
    <3>1. \A i \in DOMAIN stack' : stack'[i].op # "PlayReleasedEvents"
      BY <1>1, <1>2, <2>3 DEF PlaysIn
    <3> QED  BY <1>6, <3>1 DEF PlayedOnce, PlaysIn
  <2>5. ReplayFirst'
    BY <1>1, <2>3 DEF ReplayFirst
  <2>6. ActivatedIsLast'
    BY <1>1, <2>1, <2>3 DEF ActivatedIsLast
  <2>7. HeldFrozen'
    BY <1>6, <2>1 DEF HeldFrozen, Released
  <2>8. HeldInOrder' /\ ReplaysLastEvent'
    BY <1>1, <2>1 DEF HeldInOrder, ReplaysLastEvent
  <2> QED  BY <2>4, <2>5, <2>6, <2>7, <2>8 DEF HeldInv
<1> QED  BY <1>5, <1>6 DEF PlayReleasedEvents

LEMMA GrabActivatedHeld ==
  ASSUME Inv, GrabActivated
  PROVE  HeldInv'
<1> DEFINE e == Head(stack).event
           d == Head(stack).event.dev
<1>1. /\ TypeOK /\ stack \in Seq(Call) /\ playing \in BOOLEAN
      /\ HeldInOrder /\ HeldFrozen /\ ReplaysLastEvent /\ ActivatedIsLast
  BY DEF Inv, TypeOK, HeldInv
<1>2. /\ Head(stack) \in Call /\ Head(stack) = stack[1] /\ 1 \in DOMAIN stack
      /\ stack[1].op = "GrabActivated"
  BY <1>1, HeadOfStack DEF GrabActivated
<1>3. e \in Event /\ d \in Devices
  BY <1>2, CallFields DEF Event
<1>4. done[d] = e.id
  BY <1>1, <1>2 DEF ActivatedIsLast
<1>5. /\ event' = [event EXCEPT ![d] = e]
      /\ \A x \in Devices : x # d => state'[x] = state[x]
      /\ stack' = Tail(stack)
      /\ UNCHANGED <<frozen, pending, playing, done, next>>
  BY <1>1, <1>3 DEF GrabActivated, input, TypeOK
<1>6. RestInv(Tail(stack), done', pending')
  <2>1. RestInv(Tail(stack), done, pending)
    BY RestOfReturn DEF GrabActivated
  <2>2. done' = done /\ pending' = pending
    BY <1>5
  <2> QED  BY <2>1, <2>2
<1>7. CallsInv'
  BY <1>1, <1>5, <1>6, CallsAfter
<1> HIDE DEF e
<1>8. ReplaysLastEvent'
  <2>1. event'[d] = e /\ e.dev = d
    BY <1>1, <1>3, <1>5 DEF TypeOK, e
  <2>2. \A x \in Devices : x # d => event'[x] = event[x]
    BY <1>1, <1>3, <1>5 DEF TypeOK
  <2> HIDE DEF d
  <2> QED  BY <1>1, <1>4, <1>5, <2>1, <2>2 DEF ReplaysLastEvent
<1>9. HeldFrozen' /\ HeldInOrder'
  BY <1>1, <1>5 DEF HeldFrozen, HeldInOrder
<1> QED  BY <1>7, <1>8, <1>9 DEF HeldInv, CallsInv

LEMMA ReleaseHeld ==
  ASSUME Inv, ReleaseActiveGrabs
  PROVE  HeldInv'
<1> DEFINE call == Head(stack)
           c == call.client
           rest == Tail(stack)
<1>1. GrabTypes /\ playing \in BOOLEAN /\ stack \in Seq(Call)
  BY TypeParts DEF Inv, GrabTypes
<1>2. /\ call \in Call /\ call.op = "ReleaseActiveGrabs" /\ rest \in Seq(Call)
      /\ c \in Clients /\ call.left \in Seq(Devices) /\ call.over \in BOOLEAN
  BY <1>1, HeadOfStack, CallFields DEF ReleaseActiveGrabs
<1>3. UNCHANGED <<event, pending, done, next>>
  BY DEF ReleaseActiveGrabs, input
<1>4. RestInv(rest, done, pending)
  BY RestOfReturn DEF ReleaseActiveGrabs
<1>5. \A l \in Seq(Devices), b \in BOOLEAN :
        RestInv(<<ReleaseRound(c, l, b)>> \o rest, done, pending)
  <2> TAKE l \in Seq(Devices), b \in BOOLEAN
  <2>1. ReleaseRound(c, l, b) \in Call
    BY <1>2, CallTypes
  <2>2. ReleaseRound(c, l, b).op = "ReleaseActiveGrabs"
    BY DEF ReleaseRound
  <2> QED  BY <1>4, <2>1, <2>2, RestPlus
<1>6. call.left # << >> => Head(call.left) \in Devices /\ Tail(call.left) \in Seq(Devices)
  BY <1>2, LeftProperties
<1>7. CASE /\ call.left # << >>
           /\ DeactivateGrab(Head(call.left),
                <<ReleaseRound(c, Tail(call.left), FALSE)>> \o rest)
  <2> DEFINE d == Head(call.left)
             r == <<ReleaseRound(c, Tail(call.left), FALSE)>> \o rest
  <2>1. RestInv(r, done, pending) /\ d \in Devices
    BY <1>5, <1>6, <1>7
  <2>2. Deactivate(d, other, << >>, r)
    BY <1>7 DEF DeactivateGrab
  <2> HIDE DEF r, d
  <2>3. StackAfter(<< >>, r)
    BY <1>1, <2>2, StackAfterDeactivate
  <2>4. \A x \in Devices : state'[x] = "FROZEN_WITH_EVENT" =>
                             state[x] = "FROZEN_WITH_EVENT"
    BY <1>1, <2>1, <2>2, DeactivateSaves
  <2> QED  BY <1>3, <2>1, <2>3, <2>4, QuietHeld
<1>8. ASSUME NEW r, RestInv(r, done, pending), stack' = r, UNCHANGED <<sync, playing>>
      PROVE  HeldInv'
  <2>1. UNCHANGED <<state, frozen, playing>>
    BY <1>8 DEF sync
  <2> QED  BY <1>3, <1>8, <2>1, QuietHeld
<1>9. CASE call.left # << >> /\ UNCHANGED <<sync, playing>>
           /\ stack' = <<ReleaseRound(c, Tail(call.left), call.over)>> \o rest
  <2>1. RestInv(<<ReleaseRound(c, Tail(call.left), call.over)>> \o rest, done, pending)
    BY <1>2, <1>5, <1>6, <1>9
  <2> QED  BY <1>8, <1>9, <2>1
<1>10. CASE UNCHANGED <<sync, playing>>
            /\ stack' = <<ReleaseRound(c, devices, TRUE)>> \o rest
  <2>1. RestInv(<<ReleaseRound(c, devices, TRUE)>> \o rest, done, pending)
    BY <1>5, DevicesInSequence
  <2> QED  BY <1>8, <1>10, <2>1
<1>11. CASE UNCHANGED <<sync, playing>> /\ stack' = rest
  BY <1>4, <1>8, <1>11
<1> QED  BY <1>7, <1>9, <1>10, <1>11 DEF ReleaseActiveGrabs

LEMMA DeleteWindowHeld ==
  ASSUME Inv, DeleteWindowFromAnyEvents
  PROVE  HeldInv'
<1> DEFINE call == Head(stack)
           nextCall == [call EXCEPT !.left = Tail(@)]
           rest == <<nextCall>> \o Tail(stack)
<1>1. GrabTypes /\ playing \in BOOLEAN /\ stack \in Seq(Call)
  BY TypeParts DEF Inv, GrabTypes
<1>2. /\ call \in Call /\ call.op \in {"UnrealizeWindow", "FreeWindow"}
      /\ call.left \in Seq(Devices)
  BY <1>1, HeadOfStack, CallFields DEF DeleteWindowFromAnyEvents
<1>3. UNCHANGED <<event, pending, done, next>>
  BY DEF DeleteWindowFromAnyEvents, input
<1>4. RestInv(Tail(stack), done, pending)
  BY RestOfReturn DEF DeleteWindowFromAnyEvents
<1>5. call.left # << >> => RestInv(rest, done, pending)
  <2> SUFFICES ASSUME call.left # << >> PROVE RestInv(rest, done, pending)
    OBVIOUS
  <2>1. nextCall \in Call /\ nextCall.op = call.op
    BY <1>2, NextDevice
  <2> HIDE DEF nextCall, call
  <2> QED  BY <1>2, <1>4, <2>1, RestPlus
<1>6. CASE /\ call.left # << >>
           /\ DeactivateGrab(Head(call.left), rest)
  <2> DEFINE d == Head(call.left)
  <2>1. RestInv(rest, done, pending) /\ d \in Devices
    BY <1>2, <1>5, <1>6, LeftProperties
  <2>2. Deactivate(d, other, << >>, rest)
    BY <1>6 DEF DeactivateGrab
  <2> HIDE DEF rest, d
  <2>3. StackAfter(<< >>, rest)
    BY <1>1, <2>2, StackAfterDeactivate
  <2>4. \A x \in Devices : state'[x] = "FROZEN_WITH_EVENT" =>
                             state[x] = "FROZEN_WITH_EVENT"
    BY <1>1, <2>1, <2>2, DeactivateSaves
  <2> QED  BY <1>3, <2>1, <2>3, <2>4, QuietHeld
<1>7. CASE /\ call.left # << >> => stack' = rest
           /\ call.left = << >> => stack' = Tail(stack)
           /\ UNCHANGED <<sync, playing>>
  <2>1. UNCHANGED <<state, frozen, playing>>
    BY <1>7 DEF sync
  <2>2. RestInv(stack', done, pending)
    BY <1>4, <1>5, <1>7
  <2> QED  BY <1>3, <2>1, <2>2, QuietHeld
<1> QED  BY <1>6, <1>7 DEF DeleteWindowFromAnyEvents

(* Two calls are put in front, one after the other.                        *)
LEMMA PairInFront ==
  ASSUME NEW a \in Call, NEW b \in Call, NEW rest \in Seq(Call)
  PROVE  <<a>> \o (<<b>> \o rest) = <<a, b>> \o rest
<1>1. <<a>> \in Seq(Call) /\ <<b>> \in Seq(Call) /\ <<a, b>> \in Seq(Call)
  OBVIOUS
<1>2. <<a>> \o <<b>> = <<a, b>>
  <2>1. <<a>> \o <<b>> \in Seq(Call) /\ Len(<<a>> \o <<b>>) = Len(<<a, b>>)
    BY <1>1
  <2>2. \A i \in 1..Len(<<a>> \o <<b>>) : (<<a>> \o <<b>>)[i] = <<a, b>>[i]
    BY <1>1
  <2> QED  BY <1>1, <2>1, <2>2, SeqEqual
<1>3. (<<a>> \o <<b>>) \o rest = <<a>> \o (<<b>> \o rest)
  BY <1>1, ConcatAssociative
<1> QED  BY <1>2, <1>3

LEMMA OthersHeld ==
  ASSUME Inv,
         \/ FreeClientResources
         \/ \E c \in Clients : CloseDownClient(c)
         \/ \E r \in PassiveGrabs : GrabButton(r)
         \/ \E pg \in passive : UngrabButton(pg)
         \/ \E w \in Range(Windows) : DestroyWindow(w)
  PROVE  HeldInv'
<1>1. stack \in Seq(Call) /\ trace \subseteq Range(Windows)
  BY DEF Inv, TypeOK
<1>2. ASSUME UNCHANGED <<sync, event, pending, playing, input>>,
             RestInv(stack', done, pending)
      PROVE  HeldInv'
  <2>1. UNCHANGED <<state, frozen, event, pending, playing, done, next>>
    BY <1>2 DEF sync, input
  <2> QED  BY <1>2, <2>1, QuietHeld
<1>3. ASSUME NEW w \in Range(Windows), NEW rest, RestInv(rest, done, pending)
      PROVE  RestInv(WindowCalls(w) \o rest, done, pending)
  <2> DEFINE a == [op |-> "UnrealizeWindow", window |-> w,
                   left |-> devices \o devices]
             b == [op |-> "FreeWindow", window |-> w, left |-> devices \o devices]
  <2>1. a \in Call /\ b \in Call
    BY CallTypes, DevicesInSequence
  <2>2. a.op = "UnrealizeWindow" /\ b.op = "FreeWindow" /\ WindowCalls(w) = <<a, b>>
    BY DEF WindowCalls
  <2> HIDE DEF a, b
  <2>3. RestInv(<<b>> \o rest, done, pending)
    BY <1>3, <2>1, <2>2, RestPlus
  <2>4. RestInv(<<a>> \o (<<b>> \o rest), done, pending)
    BY <2>1, <2>2, <2>3, RestPlus
  <2>5. <<a>> \o (<<b>> \o rest) = <<a, b>> \o rest
    <3>1. rest \in Seq(Call)
      BY <1>3 DEF RestInv
    <3> QED  BY <2>1, <3>1, PairInFront
  <2> QED  BY <2>2, <2>4, <2>5
<1>4. CASE FreeClientResources
  <2>1. stack[1].op = "FreeClientResources" /\ 1 \in DOMAIN stack
    BY <1>1, <1>4, HeadOfStack DEF FreeClientResources
  <2>2. RestInv(Tail(stack), done, pending)
    BY <1>4, RestOfReturn DEF FreeClientResources
  <2>3. RestInv(stack, done, pending)
    <3>1. Head(stack) \in Call /\ Head(stack).op = "FreeClientResources"
          /\ stack = <<Head(stack)>> \o Tail(stack)
      BY <1>1, <1>4, HeadOfStack DEF FreeClientResources
    <3>2. RestInv(<<Head(stack)>> \o Tail(stack), done, pending)
      BY <2>2, <3>1, RestPlus
    <3> QED  BY <3>1, <3>2
  <2>4. RestInv(stack', done, pending)
    BY <1>1, <1>3, <1>4, <2>2, <2>3 DEF FreeClientResources
  <2> QED  BY <1>2, <1>4, <2>4 DEF FreeClientResources
<1>5. ASSUME NEW c \in Clients, CloseDownClient(c)
      PROVE  HeldInv'
  <2> DEFINE a == ReleaseRound(c, devices, TRUE)
             b == [op |-> "FreeClientResources", client |-> c]
  <2>1. stack' = <<a, b>> /\ Idle /\ UNCHANGED <<sync, event, pending, playing, input>>
    BY <1>5 DEF CloseDownClient
  <2>2. a \in Call /\ b \in Call /\ a.op = "ReleaseActiveGrabs"
        /\ b.op = "FreeClientResources"
    BY CallTypes, DevicesInSequence DEF ReleaseRound
  <2> HIDE DEF a, b
  <2>3. RestInv(<< >>, done, pending)
    BY <2>1, RestOfIdle
  <2>4. RestInv(<<b>> \o << >>, done, pending)
    BY <2>2, <2>3, RestPlus
  <2>5. RestInv(<<a>> \o (<<b>> \o << >>), done, pending)
    BY <2>2, <2>4, RestPlus
  <2>6. <<a>> \o (<<b>> \o << >>) = <<a, b>>
    <3>1. << >> \in Seq(Call) /\ <<a, b>> \in Seq(Call)
      BY <2>2
    <3>2. <<a, b>> \o << >> = <<a, b>>
      BY <3>1, ConcatEmptySeq
    <3> QED  BY <2>2, <3>1, <3>2, PairInFront
  <2> QED  BY <1>2, <2>1, <2>5, <2>6
<1>6. ASSUME UNCHANGED stack, Idle PROVE RestInv(stack', done, pending)
  <2>1. stack' = << >>
    BY <1>6 DEF Idle
  <2> QED  BY <1>6, <2>1, RestOfIdle
<1>7. ASSUME NEW r \in PassiveGrabs, GrabButton(r) PROVE HeldInv'
  BY <1>2, <1>6, <1>7 DEF GrabButton
<1>8. ASSUME NEW pg \in passive, UngrabButton(pg) PROVE HeldInv'
  BY <1>2, <1>6, <1>8 DEF UngrabButton
<1>9. ASSUME NEW w \in Range(Windows), DestroyWindow(w) PROVE HeldInv'
  <2>1. stack' = WindowCalls(w) /\ Idle
        /\ UNCHANGED <<sync, event, pending, playing, input>>
    BY <1>9 DEF DestroyWindow
  <2>2. RestInv(<< >>, done, pending)
    BY <2>1, RestOfIdle
  <2>3. RestInv(WindowCalls(w) \o << >>, done, pending)
    BY <1>3, <2>2
  <2>4. WindowCalls(w) \o << >> = WindowCalls(w)
    BY WindowCallsType
  <2> QED  BY <1>2, <2>1, <2>3, <2>4
<1> QED  BY <1>4, <1>5, <1>7, <1>8, <1>9

LEMMA EventsKept ==
  ASSUME Inv, Next
  PROVE  HeldInv'
BY InputEventHeld, RequestHeld, ReplayHeld, PlayHeld, GrabActivatedHeld,
   ReleaseHeld, DeleteWindowHeld, OthersHeld DEF Next, Calls

---------------------------------------------------------------------------
(* The windows.                                                            *)

(* UnmappedFirst of some calls and some mapped windows.                    *)
Unmapped(calls, mapped) ==
  \A i \in DOMAIN calls :
    /\ calls[i].op = "UnrealizeWindow" =>
         /\ i + 1 \in DOMAIN calls
         /\ calls[i + 1] = [op |-> "FreeWindow", window |-> calls[i].window,
                            left |-> devices \o devices]
    /\ calls[i].op = "FreeWindow" =>
         \/ calls[i].window \notin mapped
         \/ /\ i > 1
            /\ calls[i - 1].op = "UnrealizeWindow"
            /\ calls[i - 1].window = calls[i].window

(* A grab of the device on the window will be undone.                      *)
Doomed(calls, w, d) ==
  \E i \in DOMAIN calls : /\ calls[i].op = "FreeWindow"
                          /\ calls[i].window = w
                          /\ \E k \in DOMAIN calls[i].left : calls[i].left[k] = d

RestWindows(rest) ==
  /\ rest \in Seq(Call)
  /\ Unmapped(rest, trace)
  /\ \A d \in Devices : grab[d] # NullGrab /\ grab[d].window \notin trace =>
                          Doomed(rest, grab[d].window, d)

(* No new grab is on a window that is not mapped.                          *)
GrabsMapped ==
  \A d \in Devices : \/ grab'[d] = grab[d]
                     \/ grab'[d] = NullGrab
                     \/ grab'[d].window \in trace

WindowOps == {"UnrealizeWindow", "FreeWindow"}

LEMMA UnmappedCons ==
  ASSUME NEW rest \in Seq(Call), NEW t, Unmapped(rest, t),
         NEW c \in Call, c.op \notin WindowOps
  PROVE  Unmapped(<<c>> \o rest, t)
<1> DEFINE s == <<c>> \o rest
<1>1. /\ s[1] = c /\ Len(rest) \in Nat
      /\ DOMAIN s = 1..(Len(rest) + 1) /\ DOMAIN rest = 1..Len(rest)
      /\ \A i \in DOMAIN rest : i + 1 \in DOMAIN s /\ s[i + 1] = rest[i]
      /\ \A j \in DOMAIN s :
           j # 1 => j - 1 \in DOMAIN rest /\ s[j] = rest[j - 1]
  BY ConsProperties
<1> HIDE DEF s
<1> SUFFICES Unmapped(s, t)
  BY DEF s
<1>2. SUFFICES ASSUME NEW j \in DOMAIN s, s[j].op \in WindowOps
               PROVE  /\ s[j].op = "UnrealizeWindow" =>
                           /\ j + 1 \in DOMAIN s
                           /\ s[j + 1] = [op |-> "FreeWindow",
                                          window |-> s[j].window,
                                          left |-> devices \o devices]
                      /\ s[j].op = "FreeWindow" =>
                           \/ s[j].window \notin t
                           \/ /\ j > 1
                              /\ s[j - 1].op = "UnrealizeWindow"
                              /\ s[j - 1].window = s[j].window
  BY DEF Unmapped, WindowOps
<1>3. j # 1 /\ j - 1 \in DOMAIN rest /\ s[j] = rest[j - 1] /\ j > 1
      /\ (j - 1) + 1 = j
  BY <1>1, <1>2
<1>4. ASSUME s[j].op = "UnrealizeWindow"
      PROVE  /\ j + 1 \in DOMAIN s
             /\ s[j + 1] = [op |-> "FreeWindow", window |-> s[j].window,
                            left |-> devices \o devices]
  <2>1. /\ (j - 1) + 1 \in DOMAIN rest
        /\ rest[(j - 1) + 1] = [op |-> "FreeWindow", window |-> s[j].window,
                                left |-> devices \o devices]
    BY <1>3, <1>4 DEF Unmapped
  <2> QED  BY <1>1, <1>3, <2>1
<1>5. ASSUME s[j].op = "FreeWindow", s[j].window \in t
      PROVE  /\ s[j - 1].op = "UnrealizeWindow"
             /\ s[j - 1].window = s[j].window
  <2>1. /\ j - 1 > 1
        /\ rest[(j - 1) - 1].op = "UnrealizeWindow"
        /\ rest[(j - 1) - 1].window = s[j].window
    BY <1>3, <1>5 DEF Unmapped
  <2>2. s[j - 1] = rest[(j - 1) - 1]
    BY <1>1, <1>3, <2>1
  <2> QED  BY <2>1, <2>2
<1> QED  BY <1>3, <1>4, <1>5

LEMMA DoomedCons ==
  ASSUME NEW rest \in Seq(Call), NEW c \in Call, NEW w, NEW d, Doomed(rest, w, d)
  PROVE  Doomed(<<c>> \o rest, w, d)
<1> DEFINE s == <<c>> \o rest
<1>1. \A i \in DOMAIN rest : i + 1 \in DOMAIN s /\ s[i + 1] = rest[i]
  BY ConsProperties
<1> HIDE DEF s
<1>2. Doomed(s, w, d)
  BY <1>1 DEF Doomed
<1> QED  BY <1>2 DEF s

LEMMA RestWindowsCons ==
  ASSUME NEW rest, RestWindows(rest), NEW c \in Call, c.op \notin WindowOps
  PROVE  RestWindows(<<c>> \o rest)
<1>1. rest \in Seq(Call)
  BY DEF RestWindows
<1>2. Unmapped(<<c>> \o rest, trace) /\ <<c>> \o rest \in Seq(Call)
  BY <1>1, UnmappedCons, ConsType DEF RestWindows
<1>3. \A w, d : Doomed(rest, w, d) => Doomed(<<c>> \o rest, w, d)
  BY <1>1, DoomedCons
<1> QED  BY <1>2, <1>3 DEF RestWindows

(* The rest of the stack, when the first call is not one that unmaps.      *)
LEMMA UnmappedTail ==
  ASSUME NEW t, NEW rest \in Seq(Call), NEW c \in Call,
         Unmapped(<<c>> \o rest, t), c.op # "UnrealizeWindow"
  PROVE  Unmapped(rest, t)
<1> DEFINE s == <<c>> \o rest
<1>1. /\ s[1] = c /\ Len(rest) \in Nat
      /\ DOMAIN s = 1..(Len(rest) + 1) /\ DOMAIN rest = 1..Len(rest)
      /\ \A i \in DOMAIN rest : i + 1 \in DOMAIN s /\ s[i + 1] = rest[i]
  BY ConsProperties
<1>2. Unmapped(s, t)
  OBVIOUS
<1> HIDE DEF s
<1>3. SUFFICES ASSUME NEW i \in DOMAIN rest
               PROVE  /\ rest[i].op = "UnrealizeWindow" =>
                           /\ i + 1 \in DOMAIN rest
                           /\ rest[i + 1] = [op |-> "FreeWindow",
                                             window |-> rest[i].window,
                                             left |-> devices \o devices]
                      /\ rest[i].op = "FreeWindow" =>
                           \/ rest[i].window \notin t
                           \/ /\ i > 1
                              /\ rest[i - 1].op = "UnrealizeWindow"
                              /\ rest[i - 1].window = rest[i].window
  BY DEF Unmapped
<1>4. i \in Nat /\ i + 1 \in DOMAIN s /\ s[i + 1] = rest[i] /\ (i + 1) - 1 = i
  BY <1>1
<1>5. ASSUME rest[i].op = "UnrealizeWindow"
      PROVE  /\ i + 1 \in DOMAIN rest
             /\ rest[i + 1] = [op |-> "FreeWindow", window |-> rest[i].window,
                               left |-> devices \o devices]
  <2>1. /\ (i + 1) + 1 \in DOMAIN s
        /\ s[(i + 1) + 1] = [op |-> "FreeWindow", window |-> rest[i].window,
                             left |-> devices \o devices]
    BY <1>2, <1>4, <1>5 DEF Unmapped
  <2>2. i + 1 \in DOMAIN rest
    BY <1>1, <1>4, <2>1
  <2> QED  BY <1>1, <2>1, <2>2
<1>6. ASSUME rest[i].op = "FreeWindow", rest[i].window \in t
      PROVE  /\ i > 1
             /\ rest[i - 1].op = "UnrealizeWindow"
             /\ rest[i - 1].window = rest[i].window
  <2>1. s[i].op = "UnrealizeWindow" /\ s[i].window = rest[i].window
    BY <1>2, <1>4, <1>6 DEF Unmapped
  <2>2. i # 1
    BY <1>1, <2>1
  <2>3. i > 1 /\ i - 1 \in DOMAIN rest /\ (i - 1) + 1 = i
    BY <1>1, <1>4, <2>2
  <2>4. s[i] = rest[i - 1]
    BY <1>1, <2>3
  <2> QED  BY <2>1, <2>3, <2>4
<1> QED  BY <1>5, <1>6

(* The window of the first call has been unmapped.                         *)
LEMMA UnmappedTailNow ==
  ASSUME NEW t, NEW rest \in Seq(Call), NEW c \in Call,
         Unmapped(<<c>> \o rest, t), c.op = "UnrealizeWindow"
  PROVE  /\ Unmapped(rest, t \ {c.window})
         /\ 1 \in DOMAIN rest
         /\ rest[1] = [op |-> "FreeWindow", window |-> c.window,
                       left |-> devices \o devices]
<1> DEFINE s == <<c>> \o rest
<1>1. /\ s[1] = c /\ Len(rest) \in Nat
      /\ DOMAIN s = 1..(Len(rest) + 1) /\ DOMAIN rest = 1..Len(rest)
      /\ \A i \in DOMAIN rest : i + 1 \in DOMAIN s /\ s[i + 1] = rest[i]
  BY ConsProperties
<1>2. Unmapped(s, t)
  OBVIOUS
<1> HIDE DEF s
<1>3. /\ 1 \in DOMAIN rest
      /\ rest[1] = [op |-> "FreeWindow", window |-> c.window,
                    left |-> devices \o devices]
  <2>1. 1 \in DOMAIN s
    BY <1>1
  <2>2. 1 + 1 \in DOMAIN s
        /\ s[1 + 1] = [op |-> "FreeWindow", window |-> c.window,
                       left |-> devices \o devices]
    BY <1>1, <1>2, <2>1 DEF Unmapped
  <2>3. 1 \in DOMAIN rest
    BY <1>1, <2>2
  <2> QED  BY <1>1, <2>2, <2>3
<1>4. SUFFICES ASSUME NEW i \in DOMAIN rest
               PROVE  /\ rest[i].op = "UnrealizeWindow" =>
                           /\ i + 1 \in DOMAIN rest
                           /\ rest[i + 1] = [op |-> "FreeWindow",
                                             window |-> rest[i].window,
                                             left |-> devices \o devices]
                      /\ rest[i].op = "FreeWindow" =>
                           \/ rest[i].window \notin t \ {c.window}
                           \/ /\ i > 1
                              /\ rest[i - 1].op = "UnrealizeWindow"
                              /\ rest[i - 1].window = rest[i].window
  BY <1>3 DEF Unmapped
<1>5. i \in Nat /\ i + 1 \in DOMAIN s /\ s[i + 1] = rest[i] /\ (i + 1) - 1 = i
  BY <1>1
<1>6. ASSUME rest[i].op = "UnrealizeWindow"
      PROVE  /\ i + 1 \in DOMAIN rest
             /\ rest[i + 1] = [op |-> "FreeWindow", window |-> rest[i].window,
                               left |-> devices \o devices]
  <2>1. /\ (i + 1) + 1 \in DOMAIN s
        /\ s[(i + 1) + 1] = [op |-> "FreeWindow", window |-> rest[i].window,
                             left |-> devices \o devices]
    BY <1>2, <1>5, <1>6 DEF Unmapped
  <2>2. i + 1 \in DOMAIN rest
    BY <1>1, <1>5, <2>1
  <2> QED  BY <1>1, <2>1, <2>2
<1>7. ASSUME rest[i].op = "FreeWindow", rest[i].window \in t, i # 1
      PROVE  /\ i > 1
             /\ rest[i - 1].op = "UnrealizeWindow"
             /\ rest[i - 1].window = rest[i].window
  <2>1. s[i].op = "UnrealizeWindow" /\ s[i].window = rest[i].window
    BY <1>2, <1>5, <1>7 DEF Unmapped
  <2>2. i > 1 /\ i - 1 \in DOMAIN rest /\ (i - 1) + 1 = i
    BY <1>1, <1>5, <1>7
  <2>3. s[i] = rest[i - 1]
    BY <1>1, <2>2
  <2> QED  BY <2>1, <2>2, <2>3
<1>8. i = 1 => rest[i].window \notin t \ {c.window}
  BY <1>3
<1> QED  BY <1>6, <1>7, <1>8

(* The first call goes on, for the same window.                            *)
LEMMA UnmappedHead ==
  ASSUME NEW t, NEW rest \in Seq(Call), NEW c \in Call, NEW c2 \in Call,
         c2.op = c.op, c2.window = c.window,
         Unmapped(<<c>> \o rest, t)
  PROVE  Unmapped(<<c2>> \o rest, t)
<1> DEFINE s == <<c>> \o rest
           s2 == <<c2>> \o rest
<1>1. /\ s[1] = c /\ Len(rest) \in Nat
      /\ DOMAIN s = 1..(Len(rest) + 1)
      /\ \A j \in DOMAIN s : j # 1 => s[j] = rest[j - 1]
  BY ConsProperties
<1>2. /\ s2[1] = c2
      /\ DOMAIN s2 = 1..(Len(rest) + 1)
      /\ \A j \in DOMAIN s2 : j # 1 => s2[j] = rest[j - 1]
  BY ConsProperties
<1>3. Unmapped(s, t)
  OBVIOUS
<1> HIDE DEF s, s2
<1>4. \A j \in DOMAIN s : /\ j # 1 => s2[j] = s[j]
                          /\ s2[j].op = s[j].op
                          /\ s[j].op \in WindowOps => s2[j].window = s[j].window
  <2> TAKE j \in DOMAIN s
  <2>1. j # 1 => s2[j] = s[j]
    BY <1>1, <1>2
  <2> QED  BY <1>1, <1>2, <2>1
<1>5. DOMAIN s2 = DOMAIN s
  BY <1>1, <1>2
<1>6. Unmapped(s2, t)
  <2>1. SUFFICES ASSUME NEW j \in DOMAIN s, s2[j].op \in WindowOps
                 PROVE  /\ s2[j].op = "UnrealizeWindow" =>
                             /\ j + 1 \in DOMAIN s2
                             /\ s2[j + 1] = [op |-> "FreeWindow",
                                             window |-> s2[j].window,
                                             left |-> devices \o devices]
                        /\ s2[j].op = "FreeWindow" =>
                             \/ s2[j].window \notin t
                             \/ /\ j > 1
                                /\ s2[j - 1].op = "UnrealizeWindow"
                                /\ s2[j - 1].window = s2[j].window
    BY <1>5 DEF Unmapped, WindowOps
  <2>2. j \in Nat /\ s2[j].op = s[j].op /\ s2[j].window = s[j].window
    BY <1>1, <1>4, <2>1
  <2>3. ASSUME s2[j].op = "UnrealizeWindow"
        PROVE  /\ j + 1 \in DOMAIN s2
               /\ s2[j + 1] = [op |-> "FreeWindow", window |-> s2[j].window,
                               left |-> devices \o devices]
    <3>1. /\ j + 1 \in DOMAIN s
          /\ s[j + 1] = [op |-> "FreeWindow", window |-> s2[j].window,
                         left |-> devices \o devices]
      BY <1>3, <2>2, <2>3 DEF Unmapped
    <3>2. j + 1 # 1
      BY <1>1, <2>2
    <3> QED  BY <1>4, <1>5, <3>1, <3>2
  <2>4. ASSUME s2[j].op = "FreeWindow", s2[j].window \in t
        PROVE  /\ j > 1
               /\ s2[j - 1].op = "UnrealizeWindow"
               /\ s2[j - 1].window = s2[j].window
    <3>1. /\ j > 1
          /\ s[j - 1].op = "UnrealizeWindow"
          /\ s[j - 1].window = s2[j].window
      BY <1>3, <2>2, <2>4 DEF Unmapped
    <3>2. j - 1 \in DOMAIN s
      BY <1>1, <2>2, <3>1
    <3> QED  BY <1>4, <3>1, <3>2 DEF WindowOps
  <2> QED  BY <2>3, <2>4
<1> QED  BY <1>6 DEF s2

(* A window that is about to be destroyed.                                 *)
LEMMA UnmappedCalls ==
  ASSUME NEW t, NEW rest \in Seq(Call), Unmapped(rest, t),
         NEW w \in Range(Windows)
  PROVE  Unmapped(WindowCalls(w) \o rest, t)
<1> DEFINE l == devices \o devices
           a == [op |-> "UnrealizeWindow", window |-> w, left |-> l]
           b == [op |-> "FreeWindow", window |-> w, left |-> l]
           r == <<b>> \o rest
           s == <<a>> \o r
<1>1. a \in Call /\ b \in Call
  BY CallTypes, DevicesInSequence
<1>2. a.op = "UnrealizeWindow" /\ a.window = w /\ b.op = "FreeWindow" /\ b.window = w
      /\ b = [op |-> "FreeWindow", window |-> w, left |-> devices \o devices]
      /\ WindowCalls(w) = <<a, b>>
  BY DEF WindowCalls
<1> HIDE DEF l, a, b
<1>3. /\ r \in Seq(Call) /\ r[1] = b /\ Len(rest) \in Nat
      /\ DOMAIN r = 1..(Len(rest) + 1) /\ DOMAIN rest = 1..Len(rest)
      /\ \A i \in DOMAIN rest : i + 1 \in DOMAIN r /\ r[i + 1] = rest[i]
      /\ \A j \in DOMAIN r :
           j # 1 => j - 1 \in DOMAIN rest /\ r[j] = rest[j - 1]
  BY <1>1, ConsProperties
<1>4. s = WindowCalls(w) \o rest
  <2>1. <<a>> \o (<<b>> \o rest) = <<a, b>> \o rest
    BY <1>1, PairInFront
  <2> QED  BY <1>2, <2>1
<1> HIDE DEF r
<1>5. /\ s[1] = a
      /\ \A i \in DOMAIN r : i + 1 \in DOMAIN s /\ s[i + 1] = r[i]
      /\ \A j \in DOMAIN s :
           j # 1 => j - 1 \in DOMAIN r /\ s[j] = r[j - 1]
      /\ DOMAIN s \subseteq Nat
  BY <1>1, <1>3, ConsProperties
<1> HIDE DEF s
<1>6. SUFFICES ASSUME NEW j \in DOMAIN s
               PROVE  /\ s[j].op = "UnrealizeWindow" =>
                           /\ j + 1 \in DOMAIN s
                           /\ s[j + 1] = [op |-> "FreeWindow",
                                          window |-> s[j].window,
                                          left |-> devices \o devices]
                      /\ s[j].op = "FreeWindow" =>
                           \/ s[j].window \notin t
                           \/ /\ j > 1
                              /\ s[j - 1].op = "UnrealizeWindow"
                              /\ s[j - 1].window = s[j].window
  BY <1>4 DEF Unmapped
<1>7. CASE j = 1
  <2>1. 1 \in DOMAIN r
    BY <1>3
  <2>2. j + 1 \in DOMAIN s /\ s[j + 1] = b
    BY <1>3, <1>5, <1>7, <2>1
  <2> QED  BY <1>2, <1>5, <1>7, <2>2
<1>8. CASE j # 1 /\ j - 1 = 1
  <2>1. s[j] = b /\ s[j - 1] = a /\ j > 1
    BY <1>3, <1>5, <1>8
  <2> QED  BY <1>2, <2>1
<1>9. CASE j # 1 /\ j - 1 # 1
  <2> DEFINE i == (j - 1) - 1
  <2>1. i \in DOMAIN rest /\ s[j] = rest[i]
    <3>1. j - 1 \in DOMAIN r /\ s[j] = r[j - 1]
      BY <1>5, <1>9
    <3>2. i \in DOMAIN rest /\ r[j - 1] = rest[i]
      BY <1>3, <1>9, <3>1
    <3> QED  BY <3>1, <3>2
  <2>2. i \in Nat /\ i + 1 = j - 1 /\ j > 1 /\ j \in Nat
    BY <1>3, <1>5, <2>1
  <2> HIDE DEF i
  <2>3. ASSUME s[j].op = "UnrealizeWindow"
        PROVE  /\ j + 1 \in DOMAIN s
               /\ s[j + 1] = [op |-> "FreeWindow", window |-> s[j].window,
                              left |-> devices \o devices]
    <3>1. i + 1 \in DOMAIN rest
          /\ rest[i + 1] = [op |-> "FreeWindow", window |-> s[j].window,
                            left |-> devices \o devices]
      BY <2>1, <2>3 DEF Unmapped
    <3>2. j \in DOMAIN r /\ r[j] = rest[i + 1]
      <4>1. (i + 1) + 1 \in DOMAIN r /\ r[(i + 1) + 1] = rest[i + 1]
        BY <1>3, <3>1
      <4> QED  BY <2>2, <4>1
    <3> QED  BY <1>5, <3>1, <3>2
  <2>4. ASSUME s[j].op = "FreeWindow", s[j].window \in t
        PROVE  /\ s[j - 1].op = "UnrealizeWindow"
               /\ s[j - 1].window = s[j].window
    <3>1. /\ i > 1
          /\ rest[i - 1].op = "UnrealizeWindow"
          /\ rest[i - 1].window = s[j].window
      <4>1. rest[i].op = "FreeWindow" /\ rest[i].window = s[j].window
        BY <2>1, <2>4
      <4>2. rest[i].window \in t
        BY <2>4, <4>1
      <4> QED  BY <2>1, <4>1, <4>2 DEF Unmapped
    <3>2. i - 1 \in DOMAIN rest /\ (i - 1) + 1 = i
      BY <1>3, <2>1, <2>2, <3>1
    <3>3. i \in DOMAIN r /\ r[i] = rest[i - 1]
      BY <1>3, <3>2
    <3>4. s[i + 1] = r[i]
      BY <1>5, <3>3
    <3> QED  BY <2>2, <3>1, <3>3, <3>4
  <2> QED  BY <2>2, <2>3, <2>4
<1> QED  BY <1>5, <1>7, <1>8, <1>9

(* The stack as it is is kept below what is called.                        *)
LEMMA RestWindowsOfStack ==
  ASSUME Inv
  PROVE  RestWindows(stack)
<1>1. stack \in Seq(Call) /\ UnmappedFirst /\ GrabOnTrace
  BY DEF Inv, TypeOK, WindowInv
<1>2. Unmapped(stack, trace)
  BY <1>1 DEF UnmappedFirst, Unmapped
<1>3. \A d \in Devices : grab[d] # NullGrab /\ grab[d].window \notin trace =>
                           Doomed(stack, grab[d].window, d)
  BY <1>1 DEF GrabOnTrace, Doomed
<1> QED  BY <1>1, <1>2, <1>3 DEF RestWindows

LEMMA RestWindowsOfIdle ==
  ASSUME Inv, Idle
  PROVE  RestWindows(<< >>)
BY RestWindowsOfStack DEF Idle

(* The call that returns is not the one that undoes grabs.                 *)
LEMMA DoomedTail ==
  ASSUME NEW rest \in Seq(Call), NEW c \in Call, NEW w, NEW d,
         Doomed(<<c>> \o rest, w, d)
  PROVE  \/ Doomed(rest, w, d)
         \/ /\ c.op = "FreeWindow" /\ c.window = w
            /\ \E k \in DOMAIN c.left : c.left[k] = d
<1> DEFINE s == <<c>> \o rest
<1>1. /\ s[1] = c
      /\ \A j \in DOMAIN s :
           j # 1 => j - 1 \in DOMAIN rest /\ s[j] = rest[j - 1]
  BY ConsProperties
<1>2. Doomed(s, w, d)
  OBVIOUS
<1> HIDE DEF s
<1>3. PICK i \in DOMAIN s : /\ s[i].op = "FreeWindow" /\ s[i].window = w
                            /\ \E k \in DOMAIN s[i].left : s[i].left[k] = d
  BY <1>2 DEF Doomed
<1>4. CASE i = 1
  BY <1>1, <1>3, <1>4
<1>5. CASE i # 1
  <2>1. i - 1 \in DOMAIN rest /\ s[i] = rest[i - 1]
    BY <1>1, <1>5
  <2> QED  BY <1>3, <2>1 DEF Doomed
<1> QED  BY <1>4, <1>5

LEMMA RestWindowsOfReturn ==
  ASSUME Inv, NEW op, Running(op), op \notin WindowOps
  PROVE  RestWindows(Tail(stack))
<1> DEFINE c == Head(stack)
           rest == Tail(stack)
<1>1. RestWindows(stack) /\ stack \in Seq(Call)
  BY RestWindowsOfStack DEF RestWindows
<1>2. c \in Call /\ c.op = op /\ rest \in Seq(Call) /\ stack = <<c>> \o rest
  BY <1>1, HeadOfStack
<1> HIDE DEF c, rest
<1>3. Unmapped(<<c>> \o rest, trace)
  BY <1>1, <1>2 DEF RestWindows
<1>4. Unmapped(rest, trace)
  BY <1>2, <1>3, UnmappedTail DEF WindowOps
<1>5. \A w, d : Doomed(stack, w, d) => Doomed(rest, w, d)
  <2> TAKE w, d
  <2> HAVE Doomed(stack, w, d)
  <2>1. Doomed(<<c>> \o rest, w, d)
    BY <1>2
  <2> QED  BY <1>2, <2>1, DoomedTail DEF WindowOps
<1>6. RestWindows(rest)
  BY <1>1, <1>2, <1>4, <1>5 DEF RestWindows
<1> QED  BY <1>6 DEF rest

(* The stack after a step, when what was left below the calls it made      *)
(* still undoes all grabs on windows that are not mapped.                  *)
LEMMA WindowsAfter ==
  ASSUME NEW rest \in Seq(Call), Unmapped(rest, trace'),
         \A d \in Devices : grab'[d] # NullGrab =>
           grab'[d].window \in trace' \/ Doomed(rest, grab'[d].window, d),
         stack' = rest \/ StackAfter(<< >>, rest)
  PROVE  WindowInv'
<1>1. CASE stack' = rest
  <2>1. UnmappedFirst'
    BY <1>1 DEF UnmappedFirst, Unmapped
  <2>2. GrabOnTrace'
    BY <1>1 DEF GrabOnTrace, Doomed
  <2> QED  BY <2>1, <2>2 DEF WindowInv
<1>2. CASE stack' = << >> \o <<PlayCall>> \o rest
  <2> DEFINE s == <<PlayCall>> \o rest
  <2>1. stack' = s
    BY <1>2
  <2>2. Unmapped(s, trace')
    BY UnmappedCons, CallTypes DEF PlayCall, WindowOps
  <2>3. \A d \in Devices : grab'[d] # NullGrab =>
          grab'[d].window \in trace' \/ Doomed(s, grab'[d].window, d)
    BY DoomedCons, CallTypes
  <2> HIDE DEF s
  <2>4. UnmappedFirst'
    BY <2>1, <2>2 DEF UnmappedFirst, Unmapped
  <2>5. GrabOnTrace'
    BY <2>1, <2>3 DEF GrabOnTrace, Doomed
  <2> QED  BY <2>4, <2>5 DEF WindowInv
<1> QED  BY <1>1, <1>2 DEF StackAfter

LEMMA QuietWindows ==
  ASSUME NEW rest, RestWindows(rest), GrabsMapped, trace' = trace,
         stack' = rest \/ StackAfter(<< >>, rest)
  PROVE  WindowInv'
<1>1. rest \in Seq(Call) /\ Unmapped(rest, trace')
  BY DEF RestWindows
<1>2. \A d \in Devices : grab'[d] # NullGrab =>
        grab'[d].window \in trace' \/ Doomed(rest, grab'[d].window, d)
  BY DEF RestWindows, GrabsMapped
<1> QED  BY <1>1, <1>2, WindowsAfter

LEMMA ActivateMapped ==
  ASSUME GrabTypes, SyncInv, NEW r \in GrabRequest, r.window \in trace,
         NEW b, NEW rest, ActivateGrab(r, b, rest)
  PROVE  GrabsMapped
<1>1. AllocGrab(r).window \in trace /\ r.dev \in Devices
  BY AllocGrabType DEF GrabRequest
<1>2. grab' = [grab EXCEPT ![r.dev] = AllocGrab(r)]
  BY DEF ActivateGrab
<1>3. grab \in [Devices -> Grab \cup {NullGrab}]
  BY DEF GrabTypes
<1> QED  BY <1>1, <1>2, <1>3 DEF GrabsMapped

LEMMA DeactivateMapped ==
  ASSUME GrabTypes, NEW d \in Devices, NEW oth, NEW replay, NEW rest,
         Deactivate(d, oth, replay, rest)
  PROVE  GrabsMapped /\ grab'[d] = NullGrab
BY DEF Deactivate, GrabTypes, GrabsMapped

(* An event leaves the windows alone.                                      *)
LEMMA ActivatesWindows ==
  ASSUME GrabTypes, SyncInv, NEW e \in Event, NEW rest, RestWindows(rest),
         trace' = trace,
         \/ Activates(e, <<ActivatedCall(e)>> \o rest)
         \/ Activates(e, rest)
         \/ Passes(rest)
  PROVE  WindowInv'
<1>1. playing \in BOOLEAN
  BY DEF GrabTypes
<1>2. ASSUME NEW more, RestWindows(more), Activates(e, more)
      PROVE  WindowInv'
  <2>1. PICK r \in GrabRequest : r.window \in trace /\ ActivateGrab(r, TRUE, more)
    BY <1>2 DEF Activates
  <2>2. GrabsMapped
    BY <2>1, ActivateMapped
  <2>3. StackAfter(<< >>, more)
    BY <1>1, <2>1, StackAfterActivate
  <2> QED  BY <1>2, <2>2, <2>3, QuietWindows
<1>3. RestWindows(<<ActivatedCall(e)>> \o rest)
  <2>1. ActivatedCall(e) \in Call
    BY CallTypes
  <2>2. ActivatedCall(e).op \notin WindowOps
    BY DEF ActivatedCall, WindowOps
  <2> QED  BY <2>1, <2>2, RestWindowsCons
<1>4. CASE Passes(rest)
  <2>1. stack' = rest /\ GrabsMapped
    BY <1>4 DEF Passes, GrabsMapped
  <2> QED  BY <2>1, QuietWindows
<1> QED  BY <1>2, <1>3, <1>4

LEMMA ProcessWindows ==
  ASSUME TypeOK, SyncInv, NEW e \in Event, NEW rest, RestWindows(rest),
         trace' = trace, ProcessDeviceEvent(e, rest)
  PROVE  WindowInv'
<1>1. GrabTypes /\ passive \subseteq PassiveGrabs /\ e.dev \in Devices
      /\ playing \in BOOLEAN
  BY DEF TypeOK, GrabTypes, Event
<1>2. CASE DeactivateGrab(e.dev, rest)
  <2>1. Deactivate(e.dev, other, << >>, rest)
    BY <1>2 DEF DeactivateGrab
  <2>2. StackAfter(<< >>, rest) /\ GrabsMapped
    BY <1>1, <2>1, StackAfterDeactivate, DeactivateMapped
  <2> QED  BY <2>2, QuietWindows
<1> QED  BY <1>1, <1>2, ActivatesWindows, ProcessEffect

LEMMA InputEventWindows ==
  ASSUME Inv, NEW d \in Devices, NEW type \in EventType, InputEvent(d, type)
  PROVE  WindowInv'
<1> DEFINE e == [dev |-> d, id |-> next, type |-> type]
<1>1. TypeOK /\ SyncInv /\ e \in Event
  BY InputEventType DEF Inv
<1>2. /\ Idle /\ trace' = trace
      /\ EnqueueEvent(e) \/ ProcessDeviceEvent(e, << >>)
  BY DEF InputEvent, world
<1> HIDE DEF e
<1>3. RestWindows(<< >>)
  BY <1>2, RestWindowsOfIdle
<1>4. CASE EnqueueEvent(e)
  <2>1. stack' = << >> /\ GrabsMapped
    BY <1>2, <1>4 DEF EnqueueEvent, Idle, GrabsMapped
  <2> QED  BY <1>2, <1>3, <2>1, QuietWindows
<1>5. CASE ProcessDeviceEvent(e, << >>)
  BY <1>1, <1>2, <1>3, <1>5, ProcessWindows
<1> QED  BY <1>2, <1>4, <1>5

LEMMA RequestWindows ==
  ASSUME Inv,
         \/ \E c \in Clients, d \in Devices : UngrabDevice(c, d)
         \/ \E c \in Clients, d \in Devices, s \in NewState : AllowSome(c, d, s)
         \/ \E r \in ActiveGrabs : GrabDevice(r)
  PROVE  WindowInv'
<1>1. GrabTypes /\ SyncInv /\ playing \in BOOLEAN
  BY TypeParts DEF Inv, GrabTypes
<1>2. ASSUME Idle, UNCHANGED world, StackAfter(<< >>, << >>), GrabsMapped
      PROVE  WindowInv'
  <2>1. RestWindows(<< >>) /\ trace' = trace
    BY <1>2, RestWindowsOfIdle DEF world
  <2> QED  BY <1>2, <2>1, QuietWindows
<1>3. ASSUME NEW c \in Clients, NEW d \in Devices, UngrabDevice(c, d)
      PROVE  WindowInv'
  <2>1. Idle /\ Deactivate(d, other, << >>, << >>) /\ UNCHANGED world
    BY <1>3 DEF UngrabDevice, DeactivateGrab
  <2>2. StackAfter(<< >>, << >>) /\ GrabsMapped
    BY <1>1, <2>1, StackAfterDeactivate, DeactivateMapped
  <2> QED  BY <1>2, <2>1, <2>2
<1>4. ASSUME NEW r \in ActiveGrabs, GrabDevice(r)
      PROVE  WindowInv'
  <2>1. Idle /\ ActivateGrab(r, FALSE, << >>) /\ UNCHANGED world
        /\ r.window \in trace /\ r \in GrabRequest
    BY <1>4, GrabsAssumption DEF GrabDevice
  <2>2. StackAfter(<< >>, << >>) /\ GrabsMapped
    BY <1>1, <2>1, StackAfterActivate, ActivateMapped
  <2> QED  BY <1>2, <2>1, <2>2
<1>5. ASSUME NEW c \in Clients, NEW d \in Devices, NEW s \in NewState,
             AllowSome(c, d, s)
      PROVE  WindowInv'
  <2>1. Idle /\ UNCHANGED world
    BY <1>5 DEF AllowSome
  <2>2. AllowEffect(c, d, s)
    BY <1>1, <1>5, AllowSomeTypes
  <2>3. CASE UNCHANGED grab /\ StackAfter(<< >>, << >>)
    <3>1. GrabsMapped
      BY <2>3 DEF GrabsMapped
    <3> QED  BY <1>2, <2>1, <2>3, <3>1
  <2>4. ASSUME GrabbedBy(d, c),
               NEW oth \in [Devices -> Grab \cup {NullGrab}],
               Deactivate(d, oth,
                 <<[op |-> "Replay", dev |-> d, window |-> grab[d].window]>>, << >>)
        PROVE  WindowInv'
    <3> DEFINE call == [op |-> "Replay", dev |-> d, window |-> grab[d].window]
    <3>1. call.op = "Replay" /\ Deactivate(d, oth, <<call>>, << >>)
      BY <2>4
    <3>2. call \in Call
      <4>1. grab[d].window \in Range(Windows)
        BY <1>1, <2>4, GrabFields DEF GrabbedBy, GrabTypes
      <4> QED  BY <4>1, CallTypes
    <3> HIDE DEF call
    <3>3. StackAfter(<<call>>, << >>) /\ GrabsMapped
      BY <1>1, <3>1, StackAfterDeactivate, DeactivateMapped
    <3>4. ~playing
      BY <2>1, RestOfIdle
    <3>5. stack' = <<call>> \o <<PlayCall>> \o << >>
      BY <3>3, <3>4 DEF StackAfter
    <3>6. DOMAIN stack' = {1, 2} /\ stack'[1] = call /\ stack'[2] = PlayCall
      BY <3>2, <3>5, TwoCalls, CallTypes
    <3>7. UnmappedFirst'
      BY <3>1, <3>6 DEF UnmappedFirst, PlayCall
    <3>8. \A x \in Devices : grab[x] # NullGrab => grab[x].window \in trace
      BY <2>1 DEF Inv, WindowInv, GrabOnTrace, Idle
    <3>9. GrabOnTrace'
      BY <2>1, <3>3, <3>8 DEF GrabsMapped, GrabOnTrace, world
    <3> QED  BY <3>7, <3>9 DEF WindowInv
  <2> QED  BY <2>2, <2>3, <2>4 DEF AllowEffect
<1> QED  BY <1>3, <1>4, <1>5

LEMMA EventCallWindows ==
  ASSUME Inv, Replay \/ PlayReleasedEvents \/ GrabActivated
  PROVE  WindowInv'
<1>1. TypeOK /\ SyncInv /\ GrabTypes
  BY TypeParts DEF Inv
<1>2. trace' = trace
  BY DEF Replay, PlayReleasedEvents, GrabActivated, world
<1>3. CASE Replay
  <2> DEFINE e == event[Head(stack).dev]
             rest == Tail(stack)
  <2>1. e \in Event
        /\ \/ Activates(e, <<ActivatedCall(e)>> \o rest)
           \/ Activates(e, rest)
           \/ Passes(rest)
    BY <1>3, ReplayKeeps
  <2>2. RestWindows(rest)
    BY <1>3, RestWindowsOfReturn DEF Replay, WindowOps
  <2> HIDE DEF e, rest
  <2> QED  BY <1>1, <1>2, <2>1, <2>2, ActivatesWindows
<1>4. CASE PlayReleasedEvents
  <2>1. RestWindows(Tail(stack)) /\ RestWindows(stack)
    BY <1>4, RestWindowsOfReturn, RestWindowsOfStack DEF PlayReleasedEvents, WindowOps
  <2>2. CASE Released # {} /\ ProcessDeviceEvent(pending[Min(Released)], stack)
    <3>1. pending[Min(Released)] \in Event
      BY <1>1, <2>2, FirstReleased DEF TypeOK
    <3> QED  BY <1>1, <1>2, <2>1, <2>2, <3>1, ProcessWindows
  <2>3. CASE stack' = Tail(stack) /\ UNCHANGED grab
    <3>1. GrabsMapped
      BY <2>3 DEF GrabsMapped
    <3> QED  BY <1>2, <2>1, <2>3, <3>1, QuietWindows
  <2> QED  BY <1>4, <2>2, <2>3 DEF PlayReleasedEvents
<1>5. CASE GrabActivated
  <2>1. RestWindows(Tail(stack))
    BY <1>5, RestWindowsOfReturn DEF GrabActivated, WindowOps
  <2>2. stack' = Tail(stack) /\ GrabsMapped
    BY <1>5 DEF GrabActivated, GrabsMapped
  <2> QED  BY <1>2, <2>1, <2>2, QuietWindows
<1> QED  BY <1>3, <1>4, <1>5

LEMMA ReleaseWindows ==
  ASSUME Inv, ReleaseActiveGrabs
  PROVE  WindowInv'
<1> DEFINE call == Head(stack)
           c == call.client
           rest == Tail(stack)
<1>1. GrabTypes /\ playing \in BOOLEAN /\ stack \in Seq(Call)
  BY TypeParts DEF Inv, GrabTypes
<1>2. /\ call \in Call /\ call.op = "ReleaseActiveGrabs"
      /\ c \in Clients /\ call.left \in Seq(Devices) /\ call.over \in BOOLEAN
  BY <1>1, HeadOfStack, CallFields DEF ReleaseActiveGrabs
<1>3. trace' = trace /\ RestWindows(rest)
  BY RestWindowsOfReturn DEF ReleaseActiveGrabs, WindowOps
<1>4. \A l \in Seq(Devices), b \in BOOLEAN :
        RestWindows(<<ReleaseRound(c, l, b)>> \o rest)
  <2> TAKE l \in Seq(Devices), b \in BOOLEAN
  <2>1. ReleaseRound(c, l, b) \in Call
    BY <1>2, CallTypes
  <2>2. ReleaseRound(c, l, b).op \notin WindowOps
    BY DEF ReleaseRound, WindowOps
  <2> QED  BY <1>3, <2>1, <2>2, RestWindowsCons
<1>5. call.left # << >> => Head(call.left) \in Devices /\ Tail(call.left) \in Seq(Devices)
  BY <1>2, LeftProperties
<1>6. CASE /\ call.left # << >>
           /\ DeactivateGrab(Head(call.left),
                <<ReleaseRound(c, Tail(call.left), FALSE)>> \o rest)
  <2> DEFINE d == Head(call.left)
             r == <<ReleaseRound(c, Tail(call.left), FALSE)>> \o rest
  <2>1. RestWindows(r) /\ d \in Devices
    BY <1>4, <1>5, <1>6
  <2>2. Deactivate(d, other, << >>, r)
    BY <1>6 DEF DeactivateGrab
  <2> HIDE DEF r, d
  <2>3. StackAfter(<< >>, r) /\ GrabsMapped
    BY <1>1, <2>1, <2>2, StackAfterDeactivate, DeactivateMapped
  <2> QED  BY <1>3, <2>1, <2>3, QuietWindows
<1>7. ASSUME NEW r, RestWindows(r), stack' = r, UNCHANGED grab
      PROVE  WindowInv'
  <2>1. GrabsMapped
    BY <1>7 DEF GrabsMapped
  <2> QED  BY <1>3, <1>7, <2>1, QuietWindows
<1>8. CASE call.left # << >> /\ UNCHANGED grab
           /\ stack' = <<ReleaseRound(c, Tail(call.left), call.over)>> \o rest
  <2>1. RestWindows(<<ReleaseRound(c, Tail(call.left), call.over)>> \o rest)
    BY <1>2, <1>4, <1>5, <1>8
  <2> QED  BY <1>7, <1>8, <2>1
<1>9. CASE UNCHANGED grab
           /\ stack' = <<ReleaseRound(c, devices, TRUE)>> \o rest
  <2>1. RestWindows(<<ReleaseRound(c, devices, TRUE)>> \o rest)
    BY <1>4, DevicesInSequence
  <2> QED  BY <1>7, <1>9, <2>1
<1>10. CASE UNCHANGED grab /\ stack' = rest
  BY <1>3, <1>7, <1>10
<1> QED  BY <1>6, <1>8, <1>9, <1>10 DEF ReleaseActiveGrabs

(* All devices are among those that a window's grabs are looked for on.    *)
LEMMA AllDevices ==
  \A d \in Devices : \E k \in DOMAIN (devices \o devices) :
                       (devices \o devices)[k] = d
<1>1. devices \in Seq(Devices) /\ Len(devices) = 2
      /\ devices[1] = "pointer" /\ devices[2] = "keyboard"
  BY DEF devices, Devices
<1>2. /\ DOMAIN (devices \o devices) = 1..4
      /\ \A k \in 1..2 : (devices \o devices)[k] = devices[k]
  <2>1. ASSUME NEW s \in Seq(Devices), Len(s) = 2
        PROVE  /\ DOMAIN (s \o s) = 1..4
               /\ \A k \in 1..2 : (s \o s)[k] = s[k]
    <3>1. s \o s \in Seq(Devices) /\ Len(s \o s) = Len(s) + Len(s)
      OBVIOUS
    <3>2. \A k \in 1..Len(s) : (s \o s)[k] = s[k]
      OBVIOUS
    <3>3. Len(s \o s) = 4
      BY <2>1, <3>1
    <3> QED  BY <2>1, <3>1, <3>2, <3>3
  <2> QED  BY <1>1, <2>1
<1>3. \A d \in Devices : d = "pointer" \/ d = "keyboard"
  BY DEF Devices
<1>4. 1 \in 1..2 /\ 2 \in 1..2 /\ 1 \in 1..4 /\ 2 \in 1..4
  OBVIOUS
<1> QED  BY <1>1, <1>2, <1>3, <1>4

LEMMA LeftParts ==
  ASSUME NEW l \in Seq(Devices), l # << >>
  PROVE  /\ Head(l) \in Devices /\ Tail(l) \in Seq(Devices)
         /\ l[1] = Head(l)
         /\ \A k \in DOMAIN l :
              k = 1 \/ (k - 1 \in DOMAIN Tail(l) /\ l[k] = Tail(l)[k - 1])
OBVIOUS

LEMMA DeleteWindowWindows ==
  ASSUME Inv, DeleteWindowFromAnyEvents
  PROVE  WindowInv'
<1> DEFINE call == Head(stack)
           w == call.window
           more == Tail(stack)
           nextCall == [call EXCEPT !.left = Tail(@)]
           rest == <<nextCall>> \o more
<1>1. GrabTypes /\ playing \in BOOLEAN /\ RestWindows(stack) /\ stack \in Seq(Call)
  BY TypeParts, RestWindowsOfStack DEF Inv, GrabTypes
<1>2. /\ call \in Call /\ call.op \in WindowOps
      /\ w \in Range(Windows) /\ call.left \in Seq(Devices)
      /\ more \in Seq(Call) /\ stack = <<call>> \o more
  BY <1>1, HeadOfStack, CallFields DEF DeleteWindowFromAnyEvents, WindowOps
<1>3. /\ Unmapped(<<call>> \o more, trace)
      /\ \A d \in Devices : grab[d] # NullGrab /\ grab[d].window \notin trace =>
                              Doomed(<<call>> \o more, grab[d].window, d)
  BY <1>1, <1>2 DEF RestWindows
<1>4. CASE call.left # << >>
  <2> DEFINE x == Head(call.left)
             l == Tail(call.left)
  <2>1. /\ x \in Devices /\ l \in Seq(Devices)
        /\ \A k \in DOMAIN call.left :
             k = 1 \/ (k - 1 \in DOMAIN l /\ call.left[k] = l[k - 1])
        /\ call.left[1] = x
    <3> HIDE DEF call
    <3> QED  BY <1>2, <1>4, LeftParts
  <2>2. /\ nextCall \in Call /\ nextCall.op = call.op /\ nextCall.window = w
        /\ nextCall.left = l
    BY <1>2, <1>4, NextDevice DEF WindowOps
  <2>3. /\ DeactivateGrab(x, rest) \/ (stack' = rest /\ UNCHANGED grab
                                      /\ grab[x].window # w)
        /\ trace' = trace
    BY <1>4 DEF DeleteWindowFromAnyEvents
  <2> HIDE DEF x, l, nextCall
  <2>4. Unmapped(rest, trace') /\ rest \in Seq(Call)
    <3> HIDE DEF call, more
    <3> QED  BY <1>2, <1>3, <2>2, <2>3, UnmappedHead, ConsType
  <2>5. ASSUME NEW d \in Devices, NEW v, Doomed(<<call>> \o more, v, d),
               d # x \/ v # w
        PROVE  Doomed(rest, v, d)
    <3> HIDE DEF call, more
    <3>1. CASE Doomed(more, v, d)
      BY <1>2, <2>2, <3>1, DoomedCons
    <3>2. CASE /\ call.op = "FreeWindow" /\ w = v
               /\ \E k \in DOMAIN call.left : call.left[k] = d
      <4>1. PICK k \in DOMAIN l : l[k] = d
        BY <2>1, <2>5, <3>2
      <4>2. 1 \in DOMAIN rest /\ rest[1] = nextCall
        BY <1>2, <2>2, ConsProperties
      <4> HIDE DEF rest
      <4> QED  BY <2>2, <3>2, <4>1, <4>2 DEF Doomed
    <3> QED  BY <1>2, <2>5, <3>1, <3>2, DoomedTail
  <2> HIDE DEF rest
  <2>6. CASE DeactivateGrab(x, rest)
    <3>1. Deactivate(x, other, << >>, rest)
      BY <2>6 DEF DeactivateGrab
    <3>2. StackAfter(<< >>, rest) /\ GrabsMapped /\ grab'[x] = NullGrab
      BY <1>1, <2>1, <3>1, StackAfterDeactivate, DeactivateMapped
    <3>3. \A d \in Devices : grab'[d] # NullGrab =>
            grab'[d].window \in trace' \/ Doomed(rest, grab'[d].window, d)
      BY <1>3, <2>3, <2>5, <3>2 DEF GrabsMapped
    <3> QED  BY <2>4, <3>2, <3>3, WindowsAfter
  <2>7. CASE stack' = rest /\ UNCHANGED grab /\ grab[x].window # w
    <3>1. \A d \in Devices : grab'[d] # NullGrab =>
            grab'[d].window \in trace' \/ Doomed(rest, grab'[d].window, d)
      BY <1>3, <2>3, <2>5, <2>7
    <3> QED  BY <2>4, <2>7, <3>1, WindowsAfter
  <2> QED  BY <2>3, <2>6, <2>7
<1>5. CASE call.left = << >>
  <2>1. stack' = more /\ trace' = trace \ {w} /\ UNCHANGED grab
    BY <1>5 DEF DeleteWindowFromAnyEvents
  <2> HIDE DEF call, more
  <2>2. \A d \in Devices : \A v :
          Doomed(<<call>> \o more, v, d) => Doomed(more, v, d)
    <3> TAKE d \in Devices
    <3> TAKE v
    <3> HAVE Doomed(<<call>> \o more, v, d)
    <3>1. ~\E k \in DOMAIN call.left : call.left[k] = d
      BY <1>5
    <3> QED  BY <1>2, <3>1, DoomedTail
  <2>3. CASE call.op = "UnrealizeWindow"
    <3>1. /\ Unmapped(more, trace \ {w})
          /\ 1 \in DOMAIN more
          /\ more[1] = [op |-> "FreeWindow", window |-> w,
                        left |-> devices \o devices]
      BY <1>2, <1>3, <2>3, UnmappedTailNow
    <3>2. \A d \in Devices : Doomed(more, w, d)
      <4>1. /\ more[1].op = "FreeWindow" /\ more[1].window = w
            /\ more[1].left = devices \o devices
        BY <3>1
      <4>2. \A d \in Devices : \E k \in DOMAIN more[1].left : more[1].left[k] = d
        BY <4>1, AllDevices
      <4> QED  BY <3>1, <4>1, <4>2 DEF Doomed
    <3>3. \A d \in Devices : grab'[d] # NullGrab =>
            grab'[d].window \in trace' \/ Doomed(more, grab'[d].window, d)
      BY <1>3, <2>1, <2>2, <3>2
    <3> QED  BY <1>2, <2>1, <3>1, <3>3, WindowsAfter
  <2>4. CASE call.op = "FreeWindow"
    <3>1. Unmapped(more, trace)
      BY <1>2, <1>3, <2>4, UnmappedTail
    <3>2. w \notin trace
      <4>1. stack[1] = call /\ 1 \in DOMAIN stack
        BY <1>2, ConsProperties
      <4>2. Unmapped(stack, trace)
        BY <1>1 DEF RestWindows
      <4>3. stack[1].op = "FreeWindow" /\ stack[1].window = w
        BY <2>4, <4>1
      <4>4. ~(1 > 1)
        OBVIOUS
      <4>5. stack[1].window \notin trace
        BY <4>1, <4>2, <4>3, <4>4 DEF Unmapped
      <4> QED  BY <4>3, <4>5
    <3>3. trace' = trace
      BY <2>1, <3>2
    <3>4. \A d \in Devices : grab'[d] # NullGrab =>
            grab'[d].window \in trace' \/ Doomed(more, grab'[d].window, d)
      BY <1>3, <2>1, <2>2, <3>3
    <3> QED  BY <1>2, <2>1, <3>1, <3>3, <3>4, WindowsAfter
  <2> QED  BY <1>2, <2>3, <2>4 DEF WindowOps
<1> QED  BY <1>4, <1>5

LEMMA OthersWindows ==
  ASSUME Inv,
         \/ FreeClientResources
         \/ \E c \in Clients : CloseDownClient(c)
         \/ \E r \in PassiveGrabs : GrabButton(r)
         \/ \E pg \in passive : UngrabButton(pg)
         \/ \E w \in Range(Windows) : DestroyWindow(w)
  PROVE  WindowInv'
<1>1. stack \in Seq(Call) /\ trace \subseteq Range(Windows) /\ RestWindows(stack)
  BY RestWindowsOfStack DEF Inv, TypeOK
<1>2. ASSUME UNCHANGED <<grab, trace>>, RestWindows(stack')
      PROVE  WindowInv'
  <2>1. GrabsMapped
    BY <1>2 DEF GrabsMapped
  <2> QED  BY <1>2, <2>1, QuietWindows
<1>3. ASSUME NEW w \in Range(Windows), NEW rest, RestWindows(rest)
      PROVE  RestWindows(WindowCalls(w) \o rest)
  <2> DEFINE a == [op |-> "UnrealizeWindow", window |-> w,
                   left |-> devices \o devices]
             b == [op |-> "FreeWindow", window |-> w, left |-> devices \o devices]
  <2>1. a \in Call /\ b \in Call /\ WindowCalls(w) = <<a, b>>
    BY CallTypes, DevicesInSequence DEF WindowCalls
  <2>2. rest \in Seq(Call)
    BY <1>3 DEF RestWindows
  <2> HIDE DEF a, b
  <2>3. <<a>> \o (<<b>> \o rest) = WindowCalls(w) \o rest
    <3>1. <<a>> \o (<<b>> \o rest) = <<a, b>> \o rest
      BY <2>1, <2>2, PairInFront
    <3> QED  BY <2>1, <3>1
  <2>4. \A v, d : Doomed(rest, v, d) => Doomed(WindowCalls(w) \o rest, v, d)
    <3> TAKE v, d
    <3> HAVE Doomed(rest, v, d)
    <3>1. Doomed(<<b>> \o rest, v, d) /\ <<b>> \o rest \in Seq(Call)
      BY <2>1, <2>2, DoomedCons, ConsType
    <3>2. Doomed(<<a>> \o (<<b>> \o rest), v, d)
      BY <2>1, <3>1, DoomedCons
    <3> QED  BY <2>3, <3>2
  <2>5. Unmapped(WindowCalls(w) \o rest, trace)
    BY <1>3, <2>2, UnmappedCalls DEF RestWindows
  <2>6. WindowCalls(w) \o rest \in Seq(Call)
    BY <2>2, WindowCallsType
  <2> QED  BY <1>3, <2>4, <2>5, <2>6 DEF RestWindows
<1>4. CASE FreeClientResources
  <2>1. RestWindows(Tail(stack))
    BY <1>4, RestWindowsOfReturn DEF FreeClientResources, WindowOps
  <2>2. RestWindows(stack') /\ UNCHANGED <<grab, trace>>
    BY <1>1, <1>3, <1>4, <2>1 DEF FreeClientResources
  <2> QED  BY <1>2, <2>2
<1>5. ASSUME Idle PROVE RestWindows(<< >>)
  BY <1>5, RestWindowsOfIdle
<1>6. ASSUME NEW c \in Clients, CloseDownClient(c) PROVE WindowInv'
  <2> DEFINE a == ReleaseRound(c, devices, TRUE)
             b == [op |-> "FreeClientResources", client |-> c]
  <2>1. stack' = <<a, b>> /\ Idle /\ UNCHANGED <<grab, trace>>
    BY <1>6 DEF CloseDownClient, world
  <2>2. a \in Call /\ b \in Call /\ a.op \notin WindowOps /\ b.op \notin WindowOps
    BY CallTypes, DevicesInSequence DEF ReleaseRound, WindowOps
  <2> HIDE DEF a, b
  <2>3. RestWindows(<<a>> \o (<<b>> \o << >>))
    <3>1. RestWindows(<<b>> \o << >>)
      BY <1>5, <2>1, <2>2, RestWindowsCons
    <3> QED  BY <2>2, <3>1, RestWindowsCons
  <2>4. <<a>> \o (<<b>> \o << >>) = <<a, b>>
    <3>1. << >> \in Seq(Call) /\ <<a, b>> \in Seq(Call)
      BY <2>2
    <3>2. <<a, b>> \o << >> = <<a, b>>
      BY <3>1, ConcatEmptySeq
    <3> QED  BY <2>2, <3>1, <3>2, PairInFront
  <2> QED  BY <1>2, <2>1, <2>3, <2>4
<1>7. ASSUME NEW r \in PassiveGrabs, GrabButton(r) PROVE WindowInv'
  <2>1. UNCHANGED <<grab, trace, stack>>
    BY <1>7 DEF GrabButton
  <2> QED  BY <1>1, <1>2, <2>1
<1>8. ASSUME NEW pg \in passive, UngrabButton(pg) PROVE WindowInv'
  <2>1. UNCHANGED <<grab, trace, stack>>
    BY <1>8 DEF UngrabButton
  <2> QED  BY <1>1, <1>2, <2>1
<1>9. ASSUME NEW w \in Range(Windows), DestroyWindow(w) PROVE WindowInv'
  <2>1. stack' = WindowCalls(w) /\ Idle /\ UNCHANGED <<grab, trace>>
    BY <1>9 DEF DestroyWindow, world
  <2>2. RestWindows(WindowCalls(w) \o << >>)
    BY <1>3, <1>5, <2>1
  <2>3. WindowCalls(w) \o << >> = WindowCalls(w)
    BY WindowCallsType
  <2> QED  BY <1>2, <2>1, <2>2, <2>3
<1> QED  BY <1>4, <1>6, <1>7, <1>8, <1>9

LEMMA WindowsKept ==
  ASSUME Inv, Next
  PROVE  WindowInv'
BY InputEventWindows, RequestWindows, EventCallWindows, ReleaseWindows,
   DeleteWindowWindows, OthersWindows DEF Next, Calls

---------------------------------------------------------------------------
(* The theorems.                                                           *)

LEMMA InvInitially == Init => Inv
<1> SUFFICES ASSUME Init PROVE Inv
  OBVIOUS
<1>1. /\ stack = << >> /\ pending = << >> /\ playing = FALSE
      /\ grab = [d \in Devices |-> NullGrab]
      /\ other = [d \in Devices |-> NullGrab]
      /\ frozen = [d \in Devices |-> FALSE]
      /\ state = [d \in Devices |-> "NOT_GRABBED"]
      /\ done = [d \in Devices |-> 0] /\ next = 1
  BY DEF Init
<1>2. TypeOK
  <2>1. next \in 1..(MaxEvents + 1) /\ done \in [Devices -> 0..MaxEvents]
    BY <1>1, GrabsAssumption
  <2>2. /\ posted \in [Devices -> BOOLEAN] /\ fromPassive \in [Devices -> BOOLEAN]
        /\ event \in [Devices -> Event \cup {NoEvent}]
        /\ passive \subseteq PassiveGrabs /\ trace \subseteq Range(Windows)
        /\ alive \subseteq Clients
    BY DEF Init
  <2>3. state \in [Devices -> GrabState]
    BY <1>1 DEF GrabState
  <2>4. stack \in Seq(Call) /\ pending \in Seq(Event)
    BY <1>1
  <2>5. /\ grab \in [Devices -> Grab \cup {NullGrab}]
        /\ other \in [Devices -> Grab \cup {NullGrab}]
        /\ frozen \in [Devices -> BOOLEAN] /\ playing \in BOOLEAN
    BY <1>1
  <2> QED  BY <2>1, <2>2, <2>3, <2>4, <2>5 DEF TypeOK
<1>3. SyncInv
  BY <1>1 DEF SyncInv, GrabOfDevice, OtherIsActive, FrozenByGrab, FrozenStates
<1>4. HeldInv
  <2>1. DOMAIN stack = {} /\ DOMAIN pending = {}
    BY <1>1
  <2>2. PlayedOnce /\ ReplayFirst /\ ActivatedIsLast
    <3>1. playing = FALSE
      BY <1>1
    <3>2. ~\E i \in DOMAIN stack : stack[i].op = "PlayReleasedEvents"
      BY <2>1
    <3> QED  BY <2>1, <3>1, <3>2 DEF PlayedOnce, PlaysIn, ReplayFirst, ActivatedIsLast
  <2>3. HeldFrozen /\ HeldInOrder
    BY <1>1, <2>1 DEF HeldFrozen, HeldInOrder
  <2>4. ReplaysLastEvent
    BY <1>1 DEF ReplaysLastEvent
  <2> QED  BY <2>2, <2>3, <2>4 DEF HeldInv
<1>5. WindowInv
  BY <1>1 DEF WindowInv, UnmappedFirst, GrabOnTrace
<1> QED  BY <1>2, <1>3, <1>4, <1>5 DEF Inv

LEMMA InvKept == Inv /\ [Next]_vars => Inv'
<1> SUFFICES ASSUME Inv, [Next]_vars PROVE Inv'
  OBVIOUS
<1>1. CASE Next
  BY <1>1, GrabsKept, EventsKept, WindowsKept DEF Inv
<1>2. CASE UNCHANGED vars
  BY <1>2, StutterKeeps
<1> QED  BY <1>1, <1>2

(* The inductive invariant holds in every state, in the middle of the      *)
(* nested calls too.                                                       *)
THEOREM InvHolds == Spec => []Inv
BY InvInitially, InvKept, PTL DEF Spec

(* The fields of sync of the two devices agree with each other and with    *)
(* the grabs, whatever CheckGrabForSyncs, Deactivate, AllowSome and        *)
(* FreezeThisEventIfNeededForSyncGrab do and in whatever order.            *)
THEOREM GrabsAreConsistent == Spec => []GrabsConsistent
<1>1. Inv => GrabsConsistent
  BY DEF Inv, SyncInv, GrabsConsistent
<1> QED  BY <1>1, InvHolds, PTL

(* ComputeFreezes never leaves an event in syncEvents.pending that could   *)
(* have been played.                                                       *)
THEOREM NothingIsHeldForThawed == Spec => []NothingHeldForThawed
<1>1. Inv => NothingHeldForThawed
  <2> SUFFICES ASSUME Inv, Idle
               PROVE  ~playing /\ \A i \in DOMAIN pending : frozen[pending[i].dev]
    BY DEF NothingHeldForThawed
  <2>1. ~playing
    BY RestOfIdle
  <2> QED  BY <2>1 DEF Inv, HeldInv, HeldFrozen
<1> QED  BY <1>1, InvHolds, PTL

(* What AllowEvents replays is the last event of the device, even when     *)
(* others were played before ActivateGrabNoDelivery saved it.              *)
THEOREM LastEventIsReplayed == Spec => []ReplaysLastEvent
<1>1. Inv => ReplaysLastEvent
  BY DEF Inv, HeldInv
<1> QED  BY <1>1, InvHolds, PTL

(* DeleteWindowFromAnyEvents leaves no grab on a window, although it looks *)
(* at each device twice and plays events in between.                       *)
THEOREM NoGrabOnDestroyed == Spec => []NoGrabOnDestroyedWindow
<1>1. Inv => NoGrabOnDestroyedWindow
  BY DEF Inv, WindowInv, GrabOnTrace, NoGrabOnDestroyedWindow, Idle
<1> QED  BY <1>1, InvHolds, PTL

---------------------------------------------------------------------------
(* The events are processed as DeviceOrder says.                           *)

(* What DeviceOrder calls held.                                            *)
HeldBy == [d \in Devices |->
             {pending[i] : i \in {j \in DOMAIN pending : pending[j].dev = d}}]

LEMMA HeldMembers ==
  \A d \in Devices : \A f : f \in HeldBy[d] <=>
    \E i \in DOMAIN pending : f = pending[i] /\ pending[i].dev = d
BY DEF HeldBy

LEMMA HeldMembersPrimed ==
  \A d \in Devices : \A f : f \in HeldBy'[d] <=>
    \E i \in DOMAIN pending' : f = pending'[i] /\ pending'[i].dev = d
BY DEF HeldBy

LEMMA HeldIsFunction ==
  /\ HeldBy = [d \in Devices |-> HeldBy[d]]
  /\ HeldBy' = [d \in Devices |-> HeldBy'[d]]
BY DEF HeldBy

(* Events are held in the order of their numbers.                          *)
LEMMA HeldIds ==
  ASSUME Inv, NEW d \in Devices, NEW f \in HeldBy[d]
  PROVE  f \in Event /\ f.dev = d /\ f.id \in Nat /\ done[d] < f.id /\ f.id < next
<1>1. PICK i \in DOMAIN pending : f = pending[i] /\ pending[i].dev = d
  BY HeldMembers
<1>2. pending[i] \in Event /\ pending[i].id \in Nat
  BY HeldEvents DEF Inv
<1> QED  BY <1>1, <1>2 DEF Inv, HeldInv, HeldInOrder

LEMMA IsNewMaps ==
  ASSUME NEW e \in Event, e.dev \in Devices, e.id > done[e.dev],
         \A f \in HeldBy[e.dev] : e.id > f.id
  PROVE  Order!IsNew(e)
BY DEF Order!IsNew, HeldBy

LEMMA PassMaps ==
  ASSUME NEW e \in Event, Order!IsNew(e), HeldBy[e.dev] = {},
         done' = [done EXCEPT ![e.dev] = e.id], HeldBy' = HeldBy
  PROVE  Order!Pass(e)
BY DEF Order!Pass, HeldBy

LEMMA HoldMaps ==
  ASSUME NEW e \in Event, Order!IsNew(e), done' = done,
         HeldBy' = [HeldBy EXCEPT ![e.dev] = @ \cup {e}]
  PROVE  Order!Hold(e)
BY DEF Order!Hold, HeldBy

LEMMA ReplaceMaps ==
  ASSUME NEW e \in Event, Order!IsNew(e), done' = done, e.type = "Motion",
         NEW f \in HeldBy[e.dev], f.type = "Motion",
         \A g \in HeldBy[e.dev] : g.id <= f.id,
         HeldBy' = [HeldBy EXCEPT ![e.dev] = (@ \ {f}) \cup {e}]
  PROVE  Order!Replace(e)
BY DEF Order!Replace, Order!Newest, HeldBy

LEMMA PlayMaps ==
  ASSUME NEW d \in Devices, NEW e \in HeldBy[d],
         \A f \in HeldBy[d] : e.id <= f.id,
         done' = [done EXCEPT ![d] = e.id],
         HeldBy' = [HeldBy EXCEPT ![d] = @ \ {e}]
  PROVE  Order!Play(d)
BY DEF Order!Play, Order!Oldest, HeldBy

(* The events held of one device change.                                   *)
LEMMA HeldChange ==
  ASSUME NEW d \in Devices, NEW S, HeldBy'[d] = S,
         \A x \in Devices : x # d => HeldBy'[x] = HeldBy[x]
  PROVE  HeldBy' = [HeldBy EXCEPT ![d] = S]
<1> DEFINE h == HeldBy
           h2 == HeldBy'
<1>1. h = [x \in Devices |-> h[x]] /\ h2 = [x \in Devices |-> h2[x]]
  BY HeldIsFunction
<1>2. h2[d] = S /\ \A x \in Devices : x # d => h2[x] = h[x]
  OBVIOUS
<1> HIDE DEF h, h2
<1>3. h2 = [h EXCEPT ![d] = S]
  BY <1>1, <1>2
<1> QED  BY <1>3 DEF h, h2

LEMMA EnqueueMaps ==
  ASSUME Inv, NEW e \in Event, e.id = next, EnqueueEvent(e)
  PROVE  Order!Hold(e) \/ Order!Replace(e)
<1>1. /\ TypeOK /\ HeldInOrder /\ pending \in Seq(Event) /\ Len(pending) \in Nat
      /\ DOMAIN pending = 1..Len(pending) /\ next \in Nat
  BY GrabsAssumption DEF Inv, HeldInv, TypeOK
<1>2. e.dev \in Devices /\ done' = done /\ done[e.dev] < next
  BY <1>1 DEF Event, EnqueueEvent, HeldInOrder
<1>3. \A x \in Devices : \A f \in HeldBy[x] : f.id < next /\ f.id \in Nat
  BY HeldIds
<1>4. Order!IsNew(e)
  <2>1. e.id > done[e.dev] /\ \A f \in HeldBy[e.dev] : e.id > f.id
    BY <1>1, <1>2, <1>3 DEF TypeOK
  <2> QED  BY <1>2, <2>1, IsNewMaps
<1>5. PICK n \in Nat :
        /\ n \in {Len(pending) - 1, Len(pending)}
        /\ DOMAIN pending' = 1..(n + 1)
        /\ pending'[n + 1] = e
        /\ \A i \in 1..n : i \in DOMAIN pending /\ pending'[i] = pending[i]
        /\ n # Len(pending) => /\ e.type = "Motion"
                               /\ pending[n + 1].type = "Motion"
                               /\ pending[n + 1].dev = e.dev
  <2>1. TypeOK
    BY <1>1
  <2> QED  BY <2>1, EnqueuedEvents
<1> DEFINE Kept(x) == {pending[i] : i \in {j \in 1..n : pending[j].dev = x}}
<1>6. \A x \in Devices : HeldBy'[x] = Kept(x) \cup (IF x = e.dev THEN {e} ELSE {})
  <2> TAKE x \in Devices
  <2>1. \A f : f \in HeldBy'[x] <=>
          \E i \in 1..(n + 1) : f = pending'[i] /\ pending'[i].dev = x
    BY <1>5, HeldMembersPrimed
  <2>2. \A i : i \in 1..(n + 1) <=> i \in 1..n \/ i = n + 1
    OBVIOUS
  <2>3. \A f : f \in HeldBy'[x] <=>
          \/ \E i \in 1..n : f = pending[i] /\ pending[i].dev = x
          \/ f = e /\ e.dev = x
    BY <1>5, <2>1, <2>2
  <2>4. \A f : f \in Kept(x) <=> \E i \in 1..n : f = pending[i] /\ pending[i].dev = x
    OBVIOUS
  <2> QED  BY <2>3, <2>4
<1>7. CASE n = Len(pending)
  <2>1. \A x \in Devices : HeldBy[x] = Kept(x)
    BY <1>1, <1>7 DEF HeldBy
  <2> HIDE DEF Kept
  <2>2. HeldBy'[e.dev] = HeldBy[e.dev] \cup {e}
        /\ \A x \in Devices : x # e.dev => HeldBy'[x] = HeldBy[x]
    BY <1>2, <1>6, <2>1
  <2>3. HeldBy' = [HeldBy EXCEPT ![e.dev] = HeldBy[e.dev] \cup {e}]
    BY <1>2, <2>2, HeldChange
  <2> QED  BY <1>2, <1>4, <2>3, HoldMaps
<1>8. CASE n # Len(pending)
  <2> DEFINE f == pending[n + 1]
  <2>1. n + 1 = Len(pending) /\ n + 1 \in DOMAIN pending
    <3>1. n \in {Len(pending) - 1, Len(pending)}
      BY <1>5
    <3>2. n = Len(pending) - 1
      BY <1>8, <3>1
    <3> QED  BY <1>1, <3>2
  <2>2. e.type = "Motion" /\ f.type = "Motion" /\ f.dev = e.dev
    BY <1>5, <1>8
  <2>3. \A i \in 1..n : i \in DOMAIN pending /\ pending[i].id < f.id
    <3> TAKE i \in 1..n
    <3>1. i \in DOMAIN pending
      BY <1>5
    <3>2. i < n + 1
      OBVIOUS
    <3> QED  BY <1>1, <2>1, <3>1, <3>2 DEF HeldInOrder
  <2>4. f.id \in Nat /\ \A i \in DOMAIN pending : pending[i].id \in Nat
    BY <1>1, <2>1, HeldEvents
  <2>5. f \notin Kept(e.dev)
    BY <2>3, <2>4
  <2>6. \A x \in Devices : HeldBy[x] = Kept(x) \cup (IF x = e.dev THEN {f} ELSE {})
    <3> TAKE x \in Devices
    <3>1. \A i : i \in DOMAIN pending <=> i \in 1..n \/ i = n + 1
      BY <1>1, <2>1
    <3>2. \A g : g \in HeldBy[x] <=>
            \/ \E i \in 1..n : g = pending[i] /\ pending[i].dev = x
            \/ g = f /\ f.dev = x
      BY <3>1, HeldMembers
    <3>3. \A g : g \in Kept(x) <=> \E i \in 1..n : g = pending[i] /\ pending[i].dev = x
      OBVIOUS
    <3> QED  BY <2>2, <3>2, <3>3
  <2>7. \A g \in Kept(e.dev) : g.id <= f.id
    BY <2>3, <2>4
  <2> HIDE DEF Kept, f
  <2>8. HeldBy'[e.dev] = (HeldBy[e.dev] \ {f}) \cup {e}
        /\ \A x \in Devices : x # e.dev => HeldBy'[x] = HeldBy[x]
    BY <1>2, <1>6, <2>5, <2>6
  <2>9. HeldBy' = [HeldBy EXCEPT ![e.dev] = (HeldBy[e.dev] \ {f}) \cup {e}]
    BY <1>2, <2>8, HeldChange
  <2>10. f \in HeldBy[e.dev] /\ \A g \in HeldBy[e.dev] : g.id <= f.id
    BY <1>2, <2>4, <2>6, <2>7
  <2> QED  BY <1>2, <1>4, <2>2, <2>9, <2>10, ReplaceMaps
<1> QED  BY <1>7, <1>8

LEMMA ArrivalMaps ==
  ASSUME Inv, NEW d \in Devices, NEW type \in EventType, InputEvent(d, type)
  PROVE  Order!Next
<1> DEFINE e == [dev |-> d, id |-> next, type |-> type]
<1>1. e \in Event /\ e.dev = d /\ e.id = next
  BY InputEventType DEF Inv
<1>2. /\ Idle
      /\ EnqueueEvent(e) \/ (~frozen[d] /\ ProcessDeviceEvent(e, << >>)
                             /\ UNCHANGED pending)
  BY DEF InputEvent
<1> HIDE DEF e
<1>3. CASE EnqueueEvent(e)
  BY <1>1, <1>3, EnqueueMaps DEF Order!Next
<1>4. CASE ~frozen[d] /\ ProcessDeviceEvent(e, << >>) /\ UNCHANGED pending
  <2>1. passive \subseteq PassiveGrabs /\ next \in Nat
        /\ done \in [Devices -> 0..MaxEvents] /\ HeldInOrder
    BY GrabsAssumption DEF Inv, TypeOK, HeldInv
  <2>2. done' = [done EXCEPT ![e.dev] = e.id]
    BY <1>1, <1>4, <2>1, ProcessEffect
  <2>3. \A i \in DOMAIN pending : pending[i].dev # d
    <3>1. ~playing
      BY <1>2, RestOfIdle
    <3> QED  BY <1>4, <3>1 DEF Inv, HeldInv, HeldFrozen
  <2>4. HeldBy[e.dev] = {}
    BY <1>1, <2>3, HeldMembers
  <2>5. e.id > done[e.dev]
    BY <1>1, <2>1 DEF HeldInOrder
  <2>6. HeldBy' = HeldBy
    BY <1>4 DEF HeldBy
  <2>7. Order!IsNew(e)
    BY <1>1, <2>4, <2>5, IsNewMaps
  <2>8. Order!Pass(e)
    BY <1>1, <2>2, <2>4, <2>6, <2>7, PassMaps
  <2> QED  BY <1>1, <2>8 DEF Order!Next
<1> QED  BY <1>2, <1>3, <1>4

(* What is played is the oldest event that is held of its device.          *)
LEMMA PlayedMaps ==
  ASSUME Inv, Released # {},
         pending' = RemoveAt(pending, Min(Released)),
         ProcessDeviceEvent(pending[Min(Released)], stack)
  PROVE  Order!Next
<1> DEFINE k == Min(Released)
           e == pending[k]
           d == e.dev
<1>1. /\ TypeOK /\ HeldInOrder /\ pending \in Seq(Event) /\ Len(pending) \in Nat
      /\ DOMAIN pending = 1..Len(pending)
      /\ passive \subseteq PassiveGrabs /\ done \in [Devices -> 0..MaxEvents]
  BY DEF Inv, HeldInv, TypeOK
<1>2. /\ k \in DOMAIN pending /\ e \in Event
      /\ \A i \in DOMAIN pending : i < k => frozen[pending[i].dev]
      /\ ~frozen[d]
  BY <1>1, FirstReleased
<1>3. done' = [done EXCEPT ![d] = e.id]
  BY <1>1, <1>2, ProcessEffect
<1>4. pending' = RemoveAt(pending, k)
  OBVIOUS
<1> HIDE DEF k
<1>5. /\ DOMAIN pending' = 1..(Len(pending) - 1)
      /\ \A i \in 1..(k - 1) : pending'[i] = pending[i]
      /\ \A i \in k..(Len(pending) - 1) : pending'[i] = pending[i + 1]
  BY <1>1, <1>2, <1>4, RemoveAtProperties
<1>6. k \in 1..Len(pending)
  BY <1>1, <1>2
<1>7. ASSUME NEW i \in DOMAIN pending'
      PROVE  \E j \in DOMAIN pending : j # k /\ pending'[i] = pending[j]
  <2>1. CASE i < k
    <3>1. i \in 1..(k - 1) /\ i \in DOMAIN pending /\ i # k
      BY <1>1, <1>5, <1>6, <2>1
    <3> QED  BY <1>5, <3>1
  <2>2. CASE ~(i < k)
    <3>1. i \in k..(Len(pending) - 1) /\ i + 1 \in DOMAIN pending /\ i + 1 # k
      BY <1>1, <1>5, <1>6, <2>2
    <3> QED  BY <1>5, <3>1
  <2> QED  BY <2>1, <2>2
<1>8. ASSUME NEW j \in DOMAIN pending, j # k
      PROVE  \E i \in DOMAIN pending' : pending'[i] = pending[j]
  <2>1. CASE j < k
    <3>1. j \in 1..(k - 1) /\ j \in DOMAIN pending'
      BY <1>1, <1>5, <1>6, <2>1
    <3> QED  BY <1>5, <3>1
  <2>2. CASE ~(j < k)
    <3>1. j - 1 \in k..(Len(pending) - 1) /\ j - 1 \in DOMAIN pending'
          /\ (j - 1) + 1 = j
      BY <1>1, <1>5, <1>6, <1>8, <2>2
    <3> QED  BY <1>5, <3>1
  <2> QED  BY <2>1, <2>2
<1>9. \A j \in DOMAIN pending : j # k => pending[j] # e
  <2> SUFFICES ASSUME NEW j \in DOMAIN pending, j # k, pending[j] = e PROVE FALSE
    OBVIOUS
  <2>1. j < k \/ k < j
    BY <1>1, <1>6
  <2>2. e.id < e.id
    BY <1>1, <1>2, <2>1 DEF HeldInOrder
  <2>3. e.id \in Nat
    BY <1>1, <1>2, HeldEvents
  <2> QED  BY <2>2, <2>3
<1> HIDE DEF e
<1>10. \A x \in Devices : HeldBy'[x] = HeldBy[x] \ {e}
  <2> TAKE x \in Devices
  <2>1. \A f : f \in HeldBy'[x] => f \in HeldBy[x] /\ f # e
    <3> SUFFICES ASSUME NEW f, f \in HeldBy'[x] PROVE f \in HeldBy[x] /\ f # e
      OBVIOUS
    <3>1. PICK i \in DOMAIN pending' : f = pending'[i] /\ pending'[i].dev = x
      BY HeldMembersPrimed
    <3>2. PICK j \in DOMAIN pending : j # k /\ pending'[i] = pending[j]
      BY <1>7
    <3> QED  BY <1>9, <3>1, <3>2, HeldMembers
  <2>2. \A f : f \in HeldBy[x] /\ f # e => f \in HeldBy'[x]
    <3> SUFFICES ASSUME NEW f, f \in HeldBy[x], f # e PROVE f \in HeldBy'[x]
      OBVIOUS
    <3>1. PICK j \in DOMAIN pending : f = pending[j] /\ pending[j].dev = x
      BY HeldMembers
    <3>2. j # k
      BY <3>1 DEF e
    <3>3. PICK i \in DOMAIN pending' : pending'[i] = pending[j]
      BY <1>8, <3>2
    <3> QED  BY <3>1, <3>3, HeldMembersPrimed
  <2> QED  BY <2>1, <2>2
<1>11. d \in Devices /\ \A x \in Devices : x # d => e \notin HeldBy[x]
  <2>1. d \in Devices
    BY <1>2 DEF Event
  <2>2. \A x \in Devices : e \in HeldBy[x] => e.dev = x
    BY HeldMembers
  <2> QED  BY <2>1, <2>2
<1>12. HeldBy' = [HeldBy EXCEPT ![d] = HeldBy[d] \ {e}]
  <2>1. HeldBy'[d] = HeldBy[d] \ {e} /\ \A x \in Devices : x # d => HeldBy'[x] = HeldBy[x]
    BY <1>10, <1>11
  <2> HIDE DEF d
  <2> QED  BY <1>11, <2>1, HeldChange
<1>13. e \in HeldBy[d]
  BY <1>2, <1>11, HeldMembers DEF e
<1>14. \A f \in HeldBy[d] : e.id <= f.id
  <2> SUFFICES ASSUME NEW f \in HeldBy[d] PROVE e.id <= f.id
    OBVIOUS
  <2>1. PICK j \in DOMAIN pending : f = pending[j] /\ pending[j].dev = d
    BY <1>11, HeldMembers
  <2>2. e.id \in Nat /\ f.id \in Nat
    BY <1>1, <1>2, <2>1, HeldEvents DEF e
  <2>3. ~(j < k)
    BY <1>2, <2>1
  <2>4. j = k \/ k < j
    BY <1>1, <1>6, <2>3
  <2>5. CASE j = k
    BY <2>1, <2>2, <2>5 DEF e
  <2>6. CASE k < j
    <3>1. e.id < f.id
      BY <1>1, <1>2, <2>1, <2>6 DEF HeldInOrder, e
    <3> QED  BY <2>2, <3>1
  <2> QED  BY <2>4, <2>5, <2>6
<1> HIDE DEF d
<1>15. PICK d0 \in Devices, e0 \in Event : d0 = d /\ e0 = e
  BY <1>2, <1>11 DEF e
<1>16. Order!Play(d0)
  <2>1. e0 \in HeldBy[d0] /\ done' = [done EXCEPT ![d0] = e0.id] /\ \A f \in HeldBy[d0] : e0.id <= f.id
    BY <1>3, <1>13, <1>14, <1>15
  <2>2. HeldBy' = [HeldBy EXCEPT ![d0] = HeldBy[d0] \ {e0}]
    BY <1>12, <1>15
  <2> QED  BY <2>1, <2>2, PlayMaps
<1> QED  BY <1>16 DEF Order!Next

(* Every step is one of DeviceOrder, or leaves what it is about alone.     *)
LEMMA StepMaps ==
  ASSUME Inv, [Next]_vars
  PROVE  [Order!Next]_(Order!orderVars)
<1>1. ASSUME UNCHANGED <<pending, done>>
      PROVE  UNCHANGED Order!orderVars
  BY <1>1 DEF Order!orderVars
<1>2. ASSUME NEW d \in Devices, NEW type \in EventType, InputEvent(d, type)
      PROVE  Order!Next
  BY <1>2, ArrivalMaps
<1>3. CASE PlayReleasedEvents
  <2>1. CASE UNCHANGED <<pending, done>>
    BY <1>1, <2>1
  <2>2. CASE /\ Released # {}
             /\ pending' = RemoveAt(pending, Min(Released))
             /\ ProcessDeviceEvent(pending[Min(Released)], stack)
    BY <2>2, PlayedMaps
  <2> QED  BY <1>3, <2>1, <2>2 DEF PlayReleasedEvents
<1>4. CASE Replay \/ GrabActivated \/ ReleaseActiveGrabs
           \/ DeleteWindowFromAnyEvents \/ FreeClientResources
  <2>1. UNCHANGED <<pending, done>>
    BY <1>4 DEF Replay, GrabActivated, ReleaseActiveGrabs,
                DeleteWindowFromAnyEvents, FreeClientResources, input
  <2> QED  BY <1>1, <2>1
<1>5. CASE \/ \E c \in Clients, d \in Devices : UngrabDevice(c, d)
           \/ \E c \in Clients, d \in Devices, s \in NewState : AllowSome(c, d, s)
           \/ \E c \in Clients : CloseDownClient(c)
           \/ \E r \in ActiveGrabs : GrabDevice(r)
           \/ \E r \in PassiveGrabs : GrabButton(r)
           \/ \E pg \in passive : UngrabButton(pg)
           \/ \E w \in Range(Windows) : DestroyWindow(w)
  <2>1. \A c, d : UngrabDevice(c, d) => UNCHANGED <<pending, done>>
    BY DEF UngrabDevice, input
  <2>2. \A c, d, s : AllowSome(c, d, s) => UNCHANGED <<pending, done>>
    BY DEF AllowSome, input
  <2>3. \A c : CloseDownClient(c) => UNCHANGED <<pending, done>>
    BY DEF CloseDownClient, input
  <2>4. \A r : GrabDevice(r) \/ GrabButton(r) => UNCHANGED <<pending, done>>
    BY DEF GrabDevice, GrabButton, input
  <2>5. \A x : UngrabButton(x) \/ DestroyWindow(x) => UNCHANGED <<pending, done>>
    BY DEF UngrabButton, DestroyWindow, input
  <2>6. UNCHANGED <<pending, done>>
    BY <1>5, <2>1, <2>2, <2>3, <2>4, <2>5
  <2> QED  BY <1>1, <2>6
<1>6. CASE UNCHANGED vars
  BY <1>1, <1>6 DEF vars
<1> QED  BY <1>2, <1>3, <1>4, <1>5, <1>6 DEF Next, Calls

(* Freezing and replaying process the events of each device in order, and  *)
(* each of them once: DeviceGrabs implements DeviceOrder.                  *)
THEOREM EventsAreInOrder == Spec => EventsInOrder
<1>1. Init => Order!Init
  BY DEF Init, Order!Init
<1>2. Inv /\ [Next]_vars => [Order!Next]_(Order!orderVars)
  BY StepMaps
<1> QED  BY <1>1, <1>2, InvHolds, PTL DEF Spec, EventsInOrder, Order!Spec

---------------------------------------------------------------------------
(* The clients.  While the resources of a client that is gone are freed,   *)
(* its passive grabs may still be there; destroying one of its windows may *)
(* thaw a device and play events, and one of them would activate such a    *)
(* grab.  Clients that have both are therefore excluded.                   *)
GrabbersOwnNoWindow ==
  \A pg \in PassiveGrabs : \A w \in Range(Windows) : Owner[w] # pg.client

FreeCall(c) == [op |-> "FreeClientResources", client |-> c]

(* ReleaseActiveGrabs and FreeClientResources are called by                *)
(* CloseDownClient, and the last round of the former finds no grab that it *)
(* has not still to look at.                                               *)
CallsOfClients ==
  \A i \in DOMAIN stack :
    /\ stack[i].op = "ReleaseActiveGrabs" =>
         /\ Len(stack) = i + 1
         /\ stack[i + 1] = FreeCall(stack[i].client)
         /\ stack[i].client \in alive
         /\ stack[i].over =>
              /\ i = 1
              /\ \A d \in Devices : GrabbedBy(d, stack[i].client) =>
                   \E k \in DOMAIN stack[i].left : stack[i].left[k] = d
    /\ stack[i].op = "FreeClientResources" =>
         /\ Len(stack) = i
         /\ \/ i = 1
            \/ stack[i].client \in alive
            \/ \E w \in Range(Windows) : Owner[w] = stack[i].client

(* The passive grabs of a client are freed before FreeClientResources ends. *)
PassiveAlive ==
  \A pg \in passive :
    \/ pg.client \in alive
    \/ \E i \in DOMAIN stack : stack[i] = FreeCall(pg.client)

GrabAlive == \A d \in Devices : grab[d] # NullGrab => grab[d].client \in alive

ClientsInv == CallsOfClients /\ PassiveAlive /\ GrabAlive

(* The calls that a step leaves below the ones it makes.                   *)
RestClients(rest) ==
  /\ rest \in Seq(Call)
  /\ \A i \in DOMAIN rest :
       /\ rest[i].op = "ReleaseActiveGrabs" =>
            /\ Len(rest) = i + 1
            /\ rest[i + 1] = FreeCall(rest[i].client)
            /\ rest[i].client \in alive
            /\ ~rest[i].over
       /\ rest[i].op = "FreeClientResources" =>
            /\ Len(rest) = i
            /\ \/ rest[i].client \in alive
               \/ \E w \in Range(Windows) : Owner[w] = rest[i].client
  /\ \A pg \in passive :
       \/ pg.client \in alive
       \/ \E i \in DOMAIN rest : rest[i] = FreeCall(pg.client)

ClientOps == {"ReleaseActiveGrabs", "FreeClientResources"}

(* No new grab is that of a client that is gone.                           *)
GrabsOfLiving ==
  \A d \in Devices : \/ grab'[d] = grab[d]
                     \/ grab'[d] = NullGrab
                     \/ grab'[d].client \in alive

LEMMA RestClientsCons ==
  ASSUME NEW rest, RestClients(rest), NEW c \in Call, c.op \notin ClientOps
  PROVE  RestClients(<<c>> \o rest)
<1> DEFINE s == <<c>> \o rest
<1>1. rest \in Seq(Call)
  BY DEF RestClients
<1>2. /\ s \in Seq(Call) /\ s[1] = c /\ Len(rest) \in Nat
      /\ DOMAIN s = 1..(Len(rest) + 1) /\ DOMAIN rest = 1..Len(rest)
      /\ \A i \in DOMAIN rest : i + 1 \in DOMAIN s /\ s[i + 1] = rest[i]
      /\ \A j \in DOMAIN s :
           j # 1 => j - 1 \in DOMAIN rest /\ s[j] = rest[j - 1]
  BY <1>1, ConsProperties
<1> HIDE DEF s
<1>3. Len(s) = Len(rest) + 1
  BY <1>2
<1>4. \A j \in DOMAIN s :
        /\ s[j].op = "ReleaseActiveGrabs" =>
             /\ Len(s) = j + 1
             /\ s[j + 1] = FreeCall(s[j].client)
             /\ s[j].client \in alive
             /\ ~s[j].over
        /\ s[j].op = "FreeClientResources" =>
             /\ Len(s) = j
             /\ \/ s[j].client \in alive
                \/ \E w \in Range(Windows) : Owner[w] = s[j].client
  <2> TAKE j \in DOMAIN s
  <2>1. SUFFICES ASSUME s[j].op \in ClientOps
                 PROVE  /\ s[j].op = "ReleaseActiveGrabs" =>
                             /\ Len(s) = j + 1
                             /\ s[j + 1] = FreeCall(s[j].client)
                             /\ s[j].client \in alive
                             /\ ~s[j].over
                        /\ s[j].op = "FreeClientResources" =>
                             /\ Len(s) = j
                             /\ \/ s[j].client \in alive
                                \/ \E w \in Range(Windows) : Owner[w] = s[j].client
    BY DEF ClientOps
  <2>2. j # 1 /\ j - 1 \in DOMAIN rest /\ s[j] = rest[j - 1] /\ j \in Nat
    BY <1>2, <2>1
  <2>3. ASSUME s[j].op = "ReleaseActiveGrabs"
        PROVE  /\ Len(s) = j + 1
               /\ s[j + 1] = FreeCall(s[j].client)
               /\ s[j].client \in alive
               /\ ~s[j].over
    <3>1. /\ Len(rest) = (j - 1) + 1
          /\ rest[(j - 1) + 1] = FreeCall(s[j].client)
          /\ s[j].client \in alive
          /\ ~s[j].over
      BY <2>2, <2>3 DEF RestClients
    <3>2. Len(rest) = j /\ rest[j] = FreeCall(s[j].client) /\ j \in DOMAIN rest
      BY <1>2, <2>2, <3>1
    <3> QED  BY <1>2, <1>3, <3>1, <3>2
  <2>4. ASSUME s[j].op = "FreeClientResources"
        PROVE  /\ Len(s) = j
               /\ \/ s[j].client \in alive
                  \/ \E w \in Range(Windows) : Owner[w] = s[j].client
    <3>1. /\ Len(rest) = j - 1
          /\ \/ s[j].client \in alive
             \/ \E w \in Range(Windows) : Owner[w] = s[j].client
      BY <2>2, <2>4 DEF RestClients
    <3>2. Len(s) = j
      BY <1>3, <2>2, <3>1
    <3> QED  BY <3>1, <3>2
  <2> QED  BY <2>3, <2>4
<1>5. \A pg \in passive :
        \/ pg.client \in alive
        \/ \E i \in DOMAIN s : s[i] = FreeCall(pg.client)
  BY <1>2 DEF RestClients
<1>6. RestClients(s)
  BY <1>2, <1>4, <1>5 DEF RestClients
<1> QED  BY <1>6 DEF s

(* All passive grabs that an event can activate are those of clients that  *)
(* are not gone.                                                           *)
LEMMA GrabbersAlive ==
  ASSUME GrabbersOwnNoWindow, TypeOK, NEW rest, RestClients(rest), NEW pg \in passive
  PROVE  pg.client \in alive
<1>1. pg \in PassiveGrabs
  BY DEF TypeOK
<1>2. CASE \E i \in DOMAIN rest : rest[i] = FreeCall(pg.client)
  <2>1. PICK i \in DOMAIN rest : rest[i] = FreeCall(pg.client)
    BY <1>2
  <2>2. rest[i].op = "FreeClientResources" /\ rest[i].client = pg.client
    BY <2>1 DEF FreeCall
  <2> QED  BY <1>1, <2>2 DEF RestClients, GrabbersOwnNoWindow
<1> QED  BY <1>2 DEF RestClients

(* The stack after a step that closes down no client.                      *)
LEMMA QuietClients ==
  ASSUME NEW rest, RestClients(rest), GrabAlive, GrabsOfLiving,
         alive' = alive, passive' \subseteq passive,
         stack' = rest \/ StackAfter(<< >>, rest)
  PROVE  ClientsInv'
<1>1. GrabAlive'
  BY DEF GrabAlive, GrabsOfLiving
<1>2. ASSUME NEW s, RestClients(s), stack' = s
      PROVE  CallsOfClients' /\ PassiveAlive'
  <2>1. CallsOfClients'
    BY <1>2 DEF CallsOfClients, RestClients
  <2>2. PassiveAlive'
    BY <1>2 DEF PassiveAlive, RestClients
  <2> QED  BY <2>1, <2>2
<1>3. CASE stack' = << >> \o <<PlayCall>> \o rest
  <2>1. RestClients(<<PlayCall>> \o rest)
    BY RestClientsCons, CallTypes DEF PlayCall, ClientOps
  <2>2. stack' = <<PlayCall>> \o rest
    BY <1>3
  <2> QED  BY <1>1, <1>2, <2>1, <2>2 DEF ClientsInv
<1> QED  BY <1>1, <1>2, <1>3 DEF ClientsInv, StackAfter

(* What is left of the stack when nothing is under way, when the first     *)
(* call goes on, and when it returns.                                      *)
LEMMA RestClientsOfIdle ==
  ASSUME GrabbersOwnNoWindow, Inv, ClientsInv, Idle
  PROVE  RestClients(<< >>)
<1>1. DOMAIN << >> = {} /\ << >> \in Seq(Call) /\ DOMAIN stack = {}
  BY DEF Idle
<1>2. \A pg \in passive : pg.client \in alive
  BY <1>1 DEF ClientsInv, PassiveAlive
<1> QED  BY <1>1, <1>2 DEF RestClients

LEMMA RestClientsOfReturn ==
  ASSUME Inv, ClientsInv, NEW op, Running(op), op \notin ClientOps
  PROVE  RestClients(Tail(stack)) /\ RestClients(stack)
<1> DEFINE c == Head(stack)
           rest == Tail(stack)
<1>1. stack \in Seq(Call) /\ CallsOfClients /\ PassiveAlive
  BY DEF Inv, TypeOK, ClientsInv
<1>2. c \in Call /\ c.op = op /\ rest \in Seq(Call) /\ stack = <<c>> \o rest
  BY <1>1, HeadOfStack
<1>3. /\ stack[1] = c /\ Len(rest) \in Nat
      /\ DOMAIN stack = 1..(Len(rest) + 1) /\ DOMAIN rest = 1..Len(rest)
      /\ \A i \in DOMAIN rest : i + 1 \in DOMAIN stack /\ stack[i + 1] = rest[i]
      /\ \A j \in DOMAIN stack :
           j # 1 => j - 1 \in DOMAIN rest /\ stack[j] = rest[j - 1]
  <2>1. LET s == <<c>> \o rest
        IN  /\ s[1] = c /\ Len(rest) \in Nat
            /\ DOMAIN s = 1..(Len(rest) + 1) /\ DOMAIN rest = 1..Len(rest)
            /\ \A i \in DOMAIN rest : i + 1 \in DOMAIN s /\ s[i + 1] = rest[i]
            /\ \A j \in DOMAIN s :
                 j # 1 => j - 1 \in DOMAIN rest /\ s[j] = rest[j - 1]
    <3> HIDE DEF c, rest
    <3> QED  BY <1>2, ConsProperties
  <2> HIDE DEF c, rest
  <2> QED  BY <1>2, <2>1
<1>4. Len(stack) = Len(rest) + 1
  BY <1>1, <1>3
<1> HIDE DEF c, rest
<1>5. \A i \in DOMAIN rest :
        /\ rest[i].op = "ReleaseActiveGrabs" =>
             /\ Len(rest) = i + 1
             /\ rest[i + 1] = FreeCall(rest[i].client)
             /\ rest[i].client \in alive
             /\ ~rest[i].over
        /\ rest[i].op = "FreeClientResources" =>
             /\ Len(rest) = i
             /\ \/ rest[i].client \in alive
                \/ \E w \in Range(Windows) : Owner[w] = rest[i].client
  <2> TAKE i \in DOMAIN rest
  <2>1. /\ i \in Nat /\ i >= 1 /\ i + 1 \in DOMAIN stack
        /\ stack[i + 1] = rest[i] /\ i + 1 # 1
    BY <1>3
  <2>2. ASSUME rest[i].op = "ReleaseActiveGrabs"
        PROVE  /\ Len(rest) = i + 1
               /\ rest[i + 1] = FreeCall(rest[i].client)
               /\ rest[i].client \in alive
               /\ ~rest[i].over
    <3>1. /\ Len(stack) = (i + 1) + 1
          /\ stack[(i + 1) + 1] = FreeCall(rest[i].client)
          /\ rest[i].client \in alive
          /\ ~rest[i].over
      BY <1>1, <2>1, <2>2 DEF CallsOfClients
    <3>2. Len(rest) = i + 1 /\ i + 1 \in DOMAIN rest
      BY <1>3, <1>4, <2>1, <3>1
    <3> QED  BY <1>3, <3>1, <3>2
  <2>3. ASSUME rest[i].op = "FreeClientResources"
        PROVE  /\ Len(rest) = i
               /\ \/ rest[i].client \in alive
                  \/ \E w \in Range(Windows) : Owner[w] = rest[i].client
    <3>1. /\ Len(stack) = i + 1
          /\ \/ rest[i].client \in alive
             \/ \E w \in Range(Windows) : Owner[w] = rest[i].client
      BY <1>1, <2>1, <2>3 DEF CallsOfClients
    <3>2. Len(rest) = i
      BY <1>3, <1>4, <2>1, <3>1
    <3> QED  BY <3>1, <3>2
  <2> QED  BY <2>2, <2>3
<1>6. ASSUME NEW pg \in passive
      PROVE  \/ pg.client \in alive
             \/ \E i \in DOMAIN rest : rest[i] = FreeCall(pg.client)
  <2>1. CASE \E j \in DOMAIN stack : stack[j] = FreeCall(pg.client)
    <3>1. PICK j \in DOMAIN stack : stack[j] = FreeCall(pg.client)
      BY <2>1
    <3>2. j # 1
      BY <1>2, <1>3, <3>1 DEF FreeCall, ClientOps
    <3>3. j - 1 \in DOMAIN rest /\ rest[j - 1] = FreeCall(pg.client)
      BY <1>3, <3>1, <3>2
    <3> QED  BY <3>3
  <2> QED  BY <1>1, <2>1 DEF PassiveAlive
<1>7. RestClients(rest)
  BY <1>2, <1>5, <1>6 DEF RestClients
<1>8. RestClients(stack)
  <2>1. RestClients(<<c>> \o rest)
    BY <1>2, <1>7, RestClientsCons
  <2> QED  BY <1>2, <2>1
<1> QED  BY <1>7, <1>8 DEF rest

LEMMA ThreeParts ==
  ASSUME NEW a \in Call, NEW b \in Call
  PROVE  <<a>> \o (<<b>> \o << >>) = <<a>> \o <<b>> \o << >>
<1>1. <<a>> \in Seq(Call) /\ <<b>> \in Seq(Call) /\ << >> \in Seq(Call)
  OBVIOUS
<1> QED  BY <1>1, ConcatAssociative

(* The calls that destroy a window come first.                             *)
LEMMA RestClientsOfWindow ==
  ASSUME NEW rest, RestClients(rest), NEW w \in Range(Windows)
  PROVE  RestClients(WindowCalls(w) \o rest)
<1> DEFINE a == [op |-> "UnrealizeWindow", window |-> w,
                 left |-> devices \o devices]
           b == [op |-> "FreeWindow", window |-> w, left |-> devices \o devices]
<1>1. a \in Call /\ b \in Call /\ WindowCalls(w) = <<a, b>>
  BY CallTypes, DevicesInSequence DEF WindowCalls
<1>2. rest \in Seq(Call)
  BY DEF RestClients
<1>3. a.op \notin ClientOps /\ b.op \notin ClientOps
  BY DEF ClientOps
<1> HIDE DEF a, b
<1>4. <<a>> \o (<<b>> \o rest) = <<a, b>> \o rest
  BY <1>1, <1>2, PairInFront
<1>5. RestClients(<<b>> \o rest)
  BY <1>1, <1>3, RestClientsCons
<1>6. RestClients(<<a>> \o (<<b>> \o rest))
  BY <1>1, <1>3, <1>5, RestClientsCons
<1> QED  BY <1>1, <1>4, <1>6

LEMMA ActivateLiving ==
  ASSUME GrabTypes, SyncInv, NEW r \in GrabRequest, r.client \in alive,
         NEW b, NEW rest, ActivateGrab(r, b, rest)
  PROVE  GrabsOfLiving
<1>1. AllocGrab(r).client \in alive /\ r.dev \in Devices
  BY AllocGrabType DEF GrabRequest
<1>2. grab' = [grab EXCEPT ![r.dev] = AllocGrab(r)]
  BY DEF ActivateGrab
<1>3. grab \in [Devices -> Grab \cup {NullGrab}]
  BY DEF GrabTypes
<1> QED  BY <1>1, <1>2, <1>3 DEF GrabsOfLiving

LEMMA DeactivateLiving ==
  ASSUME GrabTypes, NEW d \in Devices, NEW oth, NEW replay, NEW rest,
         Deactivate(d, oth, replay, rest)
  PROVE  GrabsOfLiving
BY DEF Deactivate, GrabTypes, GrabsOfLiving

(* An event activates grabs only of clients that are not gone.             *)
LEMMA ActivatesClients ==
  ASSUME GrabbersOwnNoWindow, TypeOK, SyncInv, GrabAlive,
         NEW e \in Event, NEW rest, RestClients(rest),
         alive' = alive, passive' = passive,
         \/ Activates(e, <<ActivatedCall(e)>> \o rest)
         \/ Activates(e, rest)
         \/ Passes(rest)
  PROVE  ClientsInv'
<1>1. GrabTypes /\ playing \in BOOLEAN
  BY TypeParts DEF GrabTypes
<1>2. ASSUME NEW more, RestClients(more), Activates(e, more)
      PROVE  ClientsInv'
  <2>1. PICK r \in GrabRequest : (r \in passive \/ r.client \in alive)
                                 /\ ActivateGrab(r, TRUE, more)
    BY <1>2 DEF Activates
  <2>2. r.client \in alive
    BY <2>1, GrabbersAlive
  <2>3. GrabsOfLiving
    BY <1>1, <2>1, <2>2, ActivateLiving
  <2>4. StackAfter(<< >>, more)
    BY <1>1, <2>1, StackAfterActivate
  <2> QED  BY <1>2, <2>3, <2>4, QuietClients
<1>3. RestClients(<<ActivatedCall(e)>> \o rest)
  <2>1. ActivatedCall(e) \in Call
    BY CallTypes
  <2>2. ActivatedCall(e).op \notin ClientOps
    BY DEF ActivatedCall, ClientOps
  <2> QED  BY <2>1, <2>2, RestClientsCons
<1>4. CASE Passes(rest)
  <2>1. stack' = rest /\ GrabsOfLiving
    BY <1>4 DEF Passes, GrabsOfLiving
  <2> QED  BY <2>1, QuietClients
<1> QED  BY <1>2, <1>3, <1>4

LEMMA ProcessClients ==
  ASSUME GrabbersOwnNoWindow, TypeOK, SyncInv, GrabAlive,
         NEW e \in Event, NEW rest, RestClients(rest),
         alive' = alive, passive' = passive, ProcessDeviceEvent(e, rest)
  PROVE  ClientsInv'
<1>1. GrabTypes /\ passive \subseteq PassiveGrabs /\ e.dev \in Devices
      /\ playing \in BOOLEAN
  BY DEF TypeOK, GrabTypes, Event
<1>2. CASE DeactivateGrab(e.dev, rest)
  <2>1. Deactivate(e.dev, other, << >>, rest)
    BY <1>2 DEF DeactivateGrab
  <2>2. StackAfter(<< >>, rest) /\ GrabsOfLiving
    BY <1>1, <2>1, StackAfterDeactivate, DeactivateLiving
  <2> QED  BY <2>2, QuietClients
<1> QED  BY <1>1, <1>2, ActivatesClients, ProcessEffect

LEMMA InputEventClients ==
  ASSUME GrabbersOwnNoWindow, Inv, ClientsInv,
         NEW d \in Devices, NEW type \in EventType, InputEvent(d, type)
  PROVE  ClientsInv'
<1> DEFINE e == [dev |-> d, id |-> next, type |-> type]
<1>1. TypeOK /\ SyncInv /\ e \in Event /\ GrabAlive
  BY InputEventType DEF Inv, ClientsInv
<1>2. /\ Idle /\ alive' = alive /\ passive' = passive
      /\ EnqueueEvent(e) \/ ProcessDeviceEvent(e, << >>)
  BY DEF InputEvent, world
<1> HIDE DEF e
<1>3. RestClients(<< >>)
  BY <1>2, RestClientsOfIdle
<1>4. CASE EnqueueEvent(e)
  <2>1. stack' = << >> /\ GrabsOfLiving
    BY <1>2, <1>4 DEF EnqueueEvent, Idle, GrabsOfLiving
  <2> QED  BY <1>1, <1>2, <1>3, <2>1, QuietClients
<1>5. CASE ProcessDeviceEvent(e, << >>)
  BY <1>1, <1>2, <1>3, <1>5, ProcessClients
<1> QED  BY <1>2, <1>4, <1>5

LEMMA RequestClients ==
  ASSUME GrabbersOwnNoWindow, Inv, ClientsInv,
         \/ \E c \in Clients, d \in Devices : UngrabDevice(c, d)
         \/ \E c \in Clients, d \in Devices, s \in NewState : AllowSome(c, d, s)
         \/ \E r \in ActiveGrabs : GrabDevice(r)
  PROVE  ClientsInv'
<1>1. GrabTypes /\ SyncInv /\ playing \in BOOLEAN /\ GrabAlive
  BY TypeParts DEF Inv, GrabTypes, ClientsInv
<1>2. ASSUME Idle, UNCHANGED world, GrabsOfLiving, NEW s, RestClients(s),
             stack' = s \/ StackAfter(<< >>, s)
      PROVE  ClientsInv'
  <2>1. alive' = alive /\ passive' = passive
    BY <1>2 DEF world
  <2> QED  BY <1>1, <1>2, <2>1, QuietClients
<1>3. ASSUME NEW c \in Clients, NEW d \in Devices, UngrabDevice(c, d)
      PROVE  ClientsInv'
  <2>1. Idle /\ Deactivate(d, other, << >>, << >>) /\ UNCHANGED world
    BY <1>3 DEF UngrabDevice, DeactivateGrab
  <2>2. StackAfter(<< >>, << >>) /\ GrabsOfLiving
    BY <1>1, <2>1, StackAfterDeactivate, DeactivateLiving
  <2> QED  BY <1>2, <2>1, <2>2, RestClientsOfIdle
<1>4. ASSUME NEW r \in ActiveGrabs, GrabDevice(r)
      PROVE  ClientsInv'
  <2>1. Idle /\ ActivateGrab(r, FALSE, << >>) /\ UNCHANGED world
        /\ r.client \in alive /\ r \in GrabRequest
    BY <1>4, GrabsAssumption DEF GrabDevice
  <2>2. StackAfter(<< >>, << >>) /\ GrabsOfLiving
    BY <1>1, <2>1, StackAfterActivate, ActivateLiving
  <2> QED  BY <1>2, <2>1, <2>2, RestClientsOfIdle
<1>5. ASSUME NEW c \in Clients, NEW d \in Devices, NEW s \in NewState,
             AllowSome(c, d, s)
      PROVE  ClientsInv'
  <2>1. Idle /\ UNCHANGED world
    BY <1>5 DEF AllowSome
  <2>2. AllowEffect(c, d, s)
    BY <1>1, <1>5, AllowSomeTypes
  <2>3. CASE UNCHANGED grab /\ StackAfter(<< >>, << >>)
    <3>1. GrabsOfLiving
      BY <2>3 DEF GrabsOfLiving
    <3> QED  BY <1>2, <2>1, <2>3, <3>1, RestClientsOfIdle
  <2>4. ASSUME GrabbedBy(d, c),
               NEW oth \in [Devices -> Grab \cup {NullGrab}],
               Deactivate(d, oth,
                 <<[op |-> "Replay", dev |-> d, window |-> grab[d].window]>>, << >>)
        PROVE  ClientsInv'
    <3> DEFINE call == [op |-> "Replay", dev |-> d, window |-> grab[d].window]
    <3>1. call.op \notin ClientOps /\ Deactivate(d, oth, <<call>>, << >>)
      BY <2>4 DEF ClientOps
    <3>2. call \in Call
      <4>1. grab[d].window \in Range(Windows)
        BY <1>1, <2>4, GrabFields DEF GrabbedBy, GrabTypes
      <4> QED  BY <4>1, CallTypes
    <3> HIDE DEF call
    <3>3. StackAfter(<<call>>, << >>) /\ GrabsOfLiving
      BY <1>1, <3>1, StackAfterDeactivate, DeactivateLiving
    <3>4. ~playing
      BY <2>1, RestOfIdle
    <3>5. stack' = <<call>> \o <<PlayCall>> \o << >>
      BY <3>3, <3>4 DEF StackAfter
    <3>6. PlayCall \in Call /\ PlayCall.op \notin ClientOps
      BY CallTypes DEF PlayCall, ClientOps
    <3>7. RestClients(<<PlayCall>> \o << >>)
      BY <2>1, <3>6, RestClientsOfIdle, RestClientsCons
    <3>8. RestClients(<<call>> \o (<<PlayCall>> \o << >>))
      BY <3>1, <3>2, <3>7, RestClientsCons
    <3>9. <<call>> \o (<<PlayCall>> \o << >>) = <<call>> \o <<PlayCall>> \o << >>
      BY <3>2, <3>6, ThreeParts
    <3> QED  BY <1>2, <2>1, <3>3, <3>5, <3>8, <3>9
  <2> QED  BY <2>2, <2>3, <2>4 DEF AllowEffect
<1> QED  BY <1>3, <1>4, <1>5

LEMMA EventCallClients ==
  ASSUME GrabbersOwnNoWindow, Inv, ClientsInv,
         Replay \/ PlayReleasedEvents \/ GrabActivated
  PROVE  ClientsInv'
<1>1. TypeOK /\ SyncInv /\ GrabTypes /\ GrabAlive
  BY TypeParts DEF Inv, ClientsInv
<1>2. alive' = alive /\ passive' = passive
  BY DEF Replay, PlayReleasedEvents, GrabActivated, world
<1>3. CASE Replay
  <2> DEFINE e == event[Head(stack).dev]
             rest == Tail(stack)
  <2>1. e \in Event
        /\ \/ Activates(e, <<ActivatedCall(e)>> \o rest)
           \/ Activates(e, rest)
           \/ Passes(rest)
    BY <1>3, ReplayKeeps DEF Inv
  <2>2. RestClients(rest)
    BY <1>3, RestClientsOfReturn DEF Replay, ClientOps
  <2> HIDE DEF e, rest
  <2> QED  BY <1>1, <1>2, <2>1, <2>2, ActivatesClients
<1>4. CASE PlayReleasedEvents
  <2>1. RestClients(Tail(stack)) /\ RestClients(stack)
    BY <1>4, RestClientsOfReturn DEF PlayReleasedEvents, ClientOps
  <2>2. CASE Released # {} /\ ProcessDeviceEvent(pending[Min(Released)], stack)
    <3>1. pending[Min(Released)] \in Event
      BY <1>1, <2>2, FirstReleased DEF TypeOK
    <3> QED  BY <1>1, <1>2, <2>1, <2>2, <3>1, ProcessClients
  <2>3. CASE stack' = Tail(stack) /\ UNCHANGED grab
    <3>1. GrabsOfLiving
      BY <2>3 DEF GrabsOfLiving
    <3> QED  BY <1>1, <1>2, <2>1, <2>3, <3>1, QuietClients
  <2> QED  BY <1>4, <2>2, <2>3 DEF PlayReleasedEvents
<1>5. CASE GrabActivated
  <2>1. RestClients(Tail(stack))
    BY <1>5, RestClientsOfReturn DEF GrabActivated, ClientOps
  <2>2. stack' = Tail(stack) /\ GrabsOfLiving
    BY <1>5 DEF GrabActivated, GrabsOfLiving
  <2> QED  BY <1>1, <1>2, <2>1, <2>2, QuietClients
<1> QED  BY <1>3, <1>4, <1>5

LEMMA EachDevice ==
  \A d \in Devices : \E k \in DOMAIN devices : devices[k] = d
<1>1. 1 \in DOMAIN devices /\ 2 \in DOMAIN devices
      /\ devices[1] = "pointer" /\ devices[2] = "keyboard"
  BY DEF devices
<1>2. \A d \in Devices : d = "pointer" \/ d = "keyboard"
  BY DEF Devices
<1> QED  BY <1>1, <1>2

(* The stack while ReleaseActiveGrabs runs, called by CloseDownClient.     *)
LEMMA ClosingStack ==
  ASSUME NEW c \in Clients, NEW rest \in Seq(Call),
         DOMAIN rest = {1}, rest[1] = FreeCall(c),
         NEW l \in Seq(Devices), NEW over \in BOOLEAN
  PROVE  LET s == <<ReleaseRound(c, l, over)>> \o rest
         IN  /\ s \in Seq(Call) /\ Len(s) = 2 /\ DOMAIN s = {1, 2}
             /\ s[1].op = "ReleaseActiveGrabs" /\ s[1].client = c
             /\ s[1].left = l /\ s[1].over = over
             /\ s[2] = FreeCall(c)
<1> DEFINE r == ReleaseRound(c, l, over)
           s == <<r>> \o rest
<1>1. /\ r \in Call /\ r.op = "ReleaseActiveGrabs" /\ r.client = c
      /\ r.left = l /\ r.over = over
  BY CallTypes DEF ReleaseRound
<1> HIDE DEF r
<1>2. /\ s \in Seq(Call) /\ s[1] = r
      /\ DOMAIN s = 1..(Len(rest) + 1) /\ Len(rest) \in Nat
      /\ DOMAIN rest = 1..Len(rest)
      /\ \A i \in DOMAIN rest : i + 1 \in DOMAIN s /\ s[i + 1] = rest[i]
  <2>1. r \in Call
    BY <1>1
  <2> QED  BY <2>1, ConsProperties
<1> HIDE DEF s
<1>3. Len(rest) = 1
  BY <1>2
<1>4. DOMAIN s = {1, 2} /\ Len(s) = 2 /\ s[2] = FreeCall(c)
  BY <1>2, <1>3
<1> QED  BY <1>1, <1>2, <1>4 DEF r, s

(* A round in which no grab of the client has been found so far.           *)
LEMMA RoundClients ==
  ASSUME NEW c \in Clients, c \in alive, NEW rest \in Seq(Call),
         DOMAIN rest = {1}, rest[1] = FreeCall(c),
         NEW l \in Seq(Devices), NEW over \in BOOLEAN,
         over => \A d \in Devices : GrabbedBy(d, c) =>
                   \E k \in DOMAIN l : l[k] = d,
         GrabAlive, UNCHANGED <<grab, alive, passive>>,
         \A pg \in passive : pg.client \in alive,
         stack' = <<ReleaseRound(c, l, over)>> \o rest
  PROVE  ClientsInv'
<1> DEFINE s == <<ReleaseRound(c, l, over)>> \o rest
<1>1. /\ s \in Seq(Call) /\ Len(s) = 2 /\ DOMAIN s = {1, 2}
      /\ s[1].op = "ReleaseActiveGrabs" /\ s[1].client = c
      /\ s[1].left = l /\ s[1].over = over
      /\ s[2] = FreeCall(c)
  BY ClosingStack
<1>2. s[2].op = "FreeClientResources" /\ s[2].client = c
  BY <1>1 DEF FreeCall
<1>3. stack' = s
  OBVIOUS
<1> HIDE DEF s
<1>4. CallsOfClients'
  <2>1. SUFFICES ASSUME NEW i \in {1, 2}
                 PROVE  (/\ stack[i].op = "ReleaseActiveGrabs" =>
                              /\ Len(stack) = i + 1
                              /\ stack[i + 1] = FreeCall(stack[i].client)
                              /\ stack[i].client \in alive
                              /\ stack[i].over =>
                                   /\ i = 1
                                   /\ \A d \in Devices :
                                        GrabbedBy(d, stack[i].client) =>
                                          \E k \in DOMAIN stack[i].left :
                                            stack[i].left[k] = d
                         /\ stack[i].op = "FreeClientResources" =>
                              /\ Len(stack) = i
                              /\ \/ i = 1
                                 \/ stack[i].client \in alive
                                 \/ \E w \in Range(Windows) :
                                      Owner[w] = stack[i].client)'
    BY <1>1, <1>3 DEF CallsOfClients
  <2>2. CASE i = 1
    <3>1. Len(s) = i + 1 /\ s[i + 1] = FreeCall(s[i].client)
      BY <1>1, <2>2
    <3>2. over => \A d \in Devices : GrabbedBy(d, c)' =>
                    \E k \in DOMAIN l : l[k] = d
      BY DEF GrabbedBy
    <3>3. alive' = alive /\ s[i].client \in alive /\ s[i].op # "FreeClientResources"
      BY <1>1, <2>2
    <3>4. s[i].over => \A d \in Devices : GrabbedBy(d, s[i].client)' =>
                         \E k \in DOMAIN s[i].left : s[i].left[k] = d
      BY <1>1, <2>2, <3>2 DEF GrabbedBy
    <3> QED  BY <1>3, <2>2, <3>1, <3>3, <3>4 DEF GrabbedBy
  <2>3. CASE i = 2
    BY <1>1, <1>2, <1>3, <2>3
  <2> QED  BY <2>1, <2>2, <2>3
<1>5. PassiveAlive' /\ GrabAlive'
  BY DEF PassiveAlive, GrabAlive
<1> QED  BY <1>4, <1>5 DEF ClientsInv

LEMMA ReleaseClients ==
  ASSUME GrabbersOwnNoWindow, Inv, ClientsInv, ReleaseActiveGrabs
  PROVE  ClientsInv'
<1> DEFINE call == Head(stack)
           c == call.client
           rest == Tail(stack)
<1>1. GrabTypes /\ playing \in BOOLEAN /\ stack \in Seq(Call) /\ TypeOK
      /\ CallsOfClients /\ PassiveAlive /\ GrabAlive
  BY TypeParts DEF Inv, GrabTypes, ClientsInv
<1>2. /\ call \in Call /\ call.op = "ReleaseActiveGrabs"
      /\ c \in Clients /\ call.left \in Seq(Devices) /\ call.over \in BOOLEAN
      /\ rest \in Seq(Call)
  BY <1>1, HeadOfStack, CallFields DEF ReleaseActiveGrabs
<1>3. /\ 1 \in DOMAIN stack /\ stack[1] = call
      /\ Len(rest) + 1 = Len(stack)
      /\ DOMAIN rest = 1..(Len(stack) - 1)
      /\ \A i \in DOMAIN rest : rest[i] = stack[i + 1]
  BY <1>1, HeadOfStack DEF ReleaseActiveGrabs
<1>4. passive' = passive
  BY DEF ReleaseActiveGrabs
<1>5. /\ Len(stack) = 1 + 1 /\ stack[1 + 1] = FreeCall(c) /\ c \in alive
      /\ call.over => \A d \in Devices : GrabbedBy(d, c) =>
                        \E k \in DOMAIN call.left : call.left[k] = d
  BY <1>1, <1>2, <1>3 DEF CallsOfClients
<1>6. DOMAIN rest = {1} /\ rest[1] = FreeCall(c) /\ Len(rest) = 1
  BY <1>3, <1>5
<1>7. \A pg \in passive : pg.client \in alive
  <2> SUFFICES ASSUME NEW pg \in passive, NEW i \in DOMAIN stack,
                      stack[i] = FreeCall(pg.client)
               PROVE  pg.client \in alive
    BY <1>1 DEF PassiveAlive
  <2>1. i = 1 \/ i = 2
    BY <1>1, <1>5
  <2>2. stack[i].op = "FreeClientResources" /\ stack[i].client = pg.client
    BY DEF FreeCall
  <2>3. i = 2
    BY <1>2, <1>3, <2>1, <2>2
  <2>4. stack[2].client = c
    BY <1>5 DEF FreeCall
  <2> QED  BY <1>5, <2>2, <2>3, <2>4
<1>8. call.left # << >> => /\ Head(call.left) \in Devices
                           /\ Tail(call.left) \in Seq(Devices)
  BY <1>2, LeftProperties
<1>9. CASE /\ call.left # << >>
           /\ DeactivateGrab(Head(call.left),
                <<ReleaseRound(c, Tail(call.left), FALSE)>> \o rest)
           /\ UNCHANGED alive
  <2> DEFINE d == Head(call.left)
             l == Tail(call.left)
             s == <<ReleaseRound(c, l, FALSE)>> \o rest
  <2>1. d \in Devices /\ l \in Seq(Devices)
    BY <1>8, <1>9
  <2>2. Deactivate(d, other, << >>, s)
    BY <1>9 DEF DeactivateGrab
  <2>3. /\ s \in Seq(Call) /\ Len(s) = 2 /\ DOMAIN s = {1, 2}
        /\ s[1].op = "ReleaseActiveGrabs" /\ s[1].client = c
        /\ s[1].over = FALSE
        /\ s[2] = FreeCall(c)
    <3>1. c \in Clients /\ rest \in Seq(Call) /\ l \in Seq(Devices)
          /\ FALSE \in BOOLEAN /\ DOMAIN rest = {1} /\ rest[1] = FreeCall(c)
      BY <1>2, <1>6, <2>1
    <3> HIDE DEF c, rest, l
    <3>2. ASSUME NEW o \in BOOLEAN
          PROVE  LET x == <<ReleaseRound(c, l, o)>> \o rest
                 IN  /\ x \in Seq(Call) /\ Len(x) = 2 /\ DOMAIN x = {1, 2}
                     /\ x[1].op = "ReleaseActiveGrabs" /\ x[1].client = c
                     /\ x[1].over = o
                     /\ x[2] = FreeCall(c)
      BY <3>1, ClosingStack
    <3> QED  BY <3>2
  <2> HIDE DEF s, d
  <2>4. RestClients(s)
    <3>1. s[2].op = "FreeClientResources" /\ s[2].client = c
      BY <2>3 DEF FreeCall
    <3>2. \A i \in DOMAIN s :
            /\ s[i].op = "ReleaseActiveGrabs" =>
                 /\ Len(s) = i + 1
                 /\ s[i + 1] = FreeCall(s[i].client)
                 /\ s[i].client \in alive
                 /\ ~s[i].over
            /\ s[i].op = "FreeClientResources" =>
                 /\ Len(s) = i
                 /\ \/ s[i].client \in alive
                    \/ \E w \in Range(Windows) : Owner[w] = s[i].client
      <4> TAKE i \in DOMAIN s
      <4>1. CASE i = 1
        BY <1>5, <2>3, <4>1
      <4>2. CASE i = 2
        BY <1>5, <2>3, <3>1, <4>2
      <4> QED  BY <2>3, <4>1, <4>2
    <3> QED  BY <1>7, <2>3, <3>2 DEF RestClients
  <2>5. StackAfter(<< >>, s) /\ GrabsOfLiving
    BY <1>1, <2>1, <2>2, StackAfterDeactivate, DeactivateLiving
  <2> QED  BY <1>1, <1>4, <1>9, <2>4, <2>5, QuietClients
<1>10. CASE /\ call.left # << >>
            /\ ~GrabbedBy(Head(call.left), c)
            /\ stack' = <<ReleaseRound(c, Tail(call.left), call.over)>> \o rest
            /\ UNCHANGED <<grab, alive>>
  <2> DEFINE l == Tail(call.left)
  <2>1. l \in Seq(Devices)
    BY <1>8, <1>10
  <2>2. ASSUME call.over, NEW d \in Devices, GrabbedBy(d, c)
        PROVE  \E k \in DOMAIN l : l[k] = d
    <3>1. PICK k \in DOMAIN call.left : call.left[k] = d
      BY <1>5, <2>2
    <3>2. k = 1 \/ (k - 1 \in DOMAIN l /\ call.left[k] = l[k - 1])
      BY <1>2, <1>10, LeftParts
    <3>3. call.left[1] = Head(call.left)
      BY <1>2, <1>10, LeftParts
    <3>4. k # 1
      BY <1>10, <2>2, <3>1, <3>3
    <3> QED  BY <3>1, <3>2, <3>4
  <2>3. stack' = <<ReleaseRound(c, l, call.over)>> \o rest
    BY <1>10
  <2>4. call.over => \A d \in Devices : GrabbedBy(d, c) =>
                       \E k \in DOMAIN l : l[k] = d
    BY <2>2
  <2>5. GrabAlive /\ UNCHANGED <<grab, alive, passive>>
    BY <1>1, <1>4, <1>10
  <2>6. c \in Clients /\ c \in alive /\ rest \in Seq(Call)
        /\ DOMAIN rest = {1} /\ rest[1] = FreeCall(c)
    BY <1>2, <1>5, <1>6
  <2> DEFINE o == call.over
  <2>7. o \in BOOLEAN
    BY <1>2
  <2> HIDE DEF c, rest, l, o
  <2>8. /\ stack' = <<ReleaseRound(c, l, o)>> \o rest
        /\ o => \A d \in Devices : GrabbedBy(d, c) => \E k \in DOMAIN l : l[k] = d
    BY <2>3, <2>4 DEF o
  <2> QED  BY <1>7, <2>1, <2>5, <2>6, <2>7, <2>8, RoundClients
<1>11. CASE /\ stack' = <<ReleaseRound(c, devices, TRUE)>> \o rest
            /\ UNCHANGED <<grab, alive>>
  <2>1. \A d \in Devices : \E k \in DOMAIN devices : devices[k] = d
    BY EachDevice
  <2>2. devices \in Seq(Devices)
    BY DevicesInSequence
  <2>3. GrabAlive /\ UNCHANGED <<grab, alive, passive>>
    BY <1>1, <1>4, <1>11
  <2>4. c \in Clients /\ c \in alive /\ rest \in Seq(Call)
        /\ DOMAIN rest = {1} /\ rest[1] = FreeCall(c)
    BY <1>2, <1>5, <1>6
  <2>5. ASSUME NEW l \in Seq(Devices), NEW o \in BOOLEAN,
               \A d \in Devices : \E k \in DOMAIN l : l[k] = d,
               stack' = <<ReleaseRound(c, l, o)>> \o rest
        PROVE  ClientsInv'
    <3> HIDE DEF c, rest
    <3> QED  BY <1>7, <2>3, <2>4, <2>5, RoundClients
  <2>6. TRUE \in BOOLEAN
    OBVIOUS
  <2> HIDE DEF c, rest
  <2> QED  BY <1>11, <2>1, <2>2, <2>5, <2>6
<1>12. CASE /\ call.left = << >> /\ call.over
            /\ stack' = rest
            /\ alive' = alive \ {c}
            /\ UNCHANGED grab
  <2>1. \A d \in Devices : ~GrabbedBy(d, c)
    BY <1>5, <1>12
  <2>2. GrabAlive'
    BY <1>1, <1>12, <2>1 DEF GrabAlive, GrabbedBy
  <2>3. rest[1].op = "FreeClientResources"
    BY <1>6 DEF FreeCall
  <2>4. CallsOfClients'
    BY <1>6, <1>12, <2>3 DEF CallsOfClients
  <2>5. PassiveAlive'
    <3> SUFFICES ASSUME NEW pg \in passive, pg.client \notin alive \ {c}
                 PROVE  \E i \in DOMAIN rest : rest[i] = FreeCall(pg.client)
      BY <1>4, <1>12 DEF PassiveAlive
    <3>1. pg.client = c
      BY <1>7
    <3> QED  BY <1>6, <3>1
  <2> QED  BY <2>2, <2>4, <2>5 DEF ClientsInv
<1> QED  BY <1>9, <1>10, <1>11, <1>12 DEF ReleaseActiveGrabs

LEMMA DeleteWindowClients ==
  ASSUME GrabbersOwnNoWindow, Inv, ClientsInv, DeleteWindowFromAnyEvents
  PROVE  ClientsInv'
<1> DEFINE call == Head(stack)
           w == call.window
           more == Tail(stack)
           nextCall == [call EXCEPT !.left = Tail(@)]
           rest == <<nextCall>> \o more
<1>1. GrabTypes /\ playing \in BOOLEAN /\ stack \in Seq(Call) /\ GrabAlive
  BY TypeParts DEF Inv, GrabTypes, ClientsInv
<1>2. /\ call \in Call /\ call.op \in WindowOps /\ call.left \in Seq(Devices)
  BY <1>1, HeadOfStack, CallFields DEF DeleteWindowFromAnyEvents, WindowOps
<1>3. RestClients(more)
  BY RestClientsOfReturn DEF DeleteWindowFromAnyEvents, ClientOps
<1>4. alive' = alive /\ passive' \subseteq passive
  BY DEF DeleteWindowFromAnyEvents
<1>5. ASSUME call.left # << >> PROVE RestClients(rest) /\ Head(call.left) \in Devices
  <2>1. nextCall \in Call /\ nextCall.op = call.op
    BY <1>2, <1>5, NextDevice DEF WindowOps
  <2>2. nextCall.op \notin ClientOps
    BY <1>2, <2>1 DEF ClientOps, WindowOps
  <2>3. Head(call.left) \in Devices
    BY <1>2, <1>5, LeftProperties
  <2> HIDE DEF nextCall, more
  <2> QED  BY <1>3, <2>1, <2>2, <2>3, RestClientsCons
<1>6. CASE call.left # << >> /\ DeactivateGrab(Head(call.left), rest)
  <2> DEFINE d == Head(call.left)
  <2>1. RestClients(rest) /\ d \in Devices
    BY <1>5, <1>6
  <2>2. Deactivate(d, other, << >>, rest)
    BY <1>6 DEF DeactivateGrab
  <2> HIDE DEF d, rest
  <2>3. StackAfter(<< >>, rest) /\ GrabsOfLiving
    BY <1>1, <2>1, <2>2, StackAfterDeactivate, DeactivateLiving
  <2> QED  BY <1>1, <1>4, <2>1, <2>3, QuietClients
<1>7. ASSUME UNCHANGED grab, NEW s, RestClients(s), stack' = s
      PROVE  ClientsInv'
  <2>1. GrabsOfLiving
    BY <1>7 DEF GrabsOfLiving
  <2> QED  BY <1>1, <1>4, <1>7, <2>1, QuietClients
<1>8. CASE call.left # << >> /\ stack' = rest /\ UNCHANGED grab
  BY <1>5, <1>7, <1>8
<1>9. CASE stack' = more /\ UNCHANGED grab
  BY <1>3, <1>7, <1>9
<1> QED  BY <1>6, <1>8, <1>9 DEF DeleteWindowFromAnyEvents

(* A step that only changes passive grabs.                                 *)
LEMMA PassiveClients ==
  ASSUME ClientsInv, UNCHANGED <<grab, alive, stack>>,
         \A pg \in passive' : pg \in passive \/ pg.client \in alive
  PROVE  ClientsInv'
<1>1. CallsOfClients'
  BY DEF ClientsInv, CallsOfClients, GrabbedBy
<1>2. PassiveAlive' /\ GrabAlive'
  BY DEF ClientsInv, PassiveAlive, GrabAlive
<1> QED  BY <1>1, <1>2 DEF ClientsInv

LEMMA FreeResourcesClients ==
  ASSUME GrabbersOwnNoWindow, Inv, ClientsInv, FreeClientResources
  PROVE  ClientsInv'
<1> DEFINE call == Head(stack)
           c == call.client
<1>1. /\ stack \in Seq(Call) /\ CallsOfClients /\ PassiveAlive /\ GrabAlive
      /\ trace \subseteq Range(Windows) /\ TypeOK
  BY DEF Inv, TypeOK, ClientsInv
<1>2. /\ call.op = "FreeClientResources" /\ stack[1] = call /\ 1 \in DOMAIN stack
      /\ Tail(stack) \in Seq(Call) /\ Len(Tail(stack)) + 1 = Len(stack)
  BY <1>1, HeadOfStack DEF FreeClientResources
<1>3. UNCHANGED <<grab, alive>>
  BY DEF FreeClientResources
<1>4. Len(stack) = 1
  BY <1>1, <1>2 DEF CallsOfClients
<1>5. DOMAIN stack = {1} /\ Tail(stack) = << >>
  <2>1. stack \in Seq(Call) /\ Tail(stack) \in Seq(Call)
    BY <1>1, <1>2
  <2>2. DOMAIN stack = {1}
    BY <1>4, <2>1
  <2>3. Len(Tail(stack)) \in Nat
    BY <2>1, LenProperties
  <2> DEFINE t == Tail(stack)
  <2> HIDE DEF t
  <2>4. t \in Seq(Call) /\ Len(t) = 0
    BY <1>2, <1>4, <2>1, <2>3 DEF t
  <2>5. t = << >>
    BY <2>4, EmptySeq
  <2> QED  BY <2>2, <2>5 DEF t
<1>6. \A pg \in passive : pg.client \in alive \/ pg.client = c
  <2> SUFFICES ASSUME NEW pg \in passive, NEW i \in DOMAIN stack,
                      stack[i] = FreeCall(pg.client)
               PROVE  pg.client = c
    BY <1>1 DEF PassiveAlive
  <2>1. stack[i] = call
    BY <1>2, <1>5
  <2>2. FreeCall(pg.client).client = pg.client
    BY DEF FreeCall
  <2> QED  BY <2>1, <2>2
<1>7. CASE UNCHANGED stack /\ passive' \subseteq passive
  BY <1>3, <1>7, PassiveClients
<1>8. ASSUME NEW w \in trace, Owner[w] = c, UNCHANGED passive,
             stack' = WindowCalls(w) \o stack
      PROVE  ClientsInv'
  <2>1. \A i \in DOMAIN stack :
          /\ stack[i].op # "ReleaseActiveGrabs"
          /\ Len(stack) = i
          /\ \E v \in Range(Windows) : Owner[v] = stack[i].client
    BY <1>1, <1>2, <1>4, <1>5, <1>8
  <2>2. \A pg \in passive :
          \/ pg.client \in alive
          \/ \E i \in DOMAIN stack : stack[i] = FreeCall(pg.client)
    BY <1>1 DEF PassiveAlive
  <2>3. RestClients(stack)
    BY <1>1, <2>1, <2>2 DEF RestClients
  <2>4. RestClients(WindowCalls(w) \o stack) /\ GrabsOfLiving
    BY <1>1, <1>3, <1>8, <2>3, RestClientsOfWindow DEF GrabsOfLiving
  <2> QED  BY <1>1, <1>3, <1>8, <2>4, QuietClients
<1>9. CASE /\ {pg \in passive : pg.client = c} = {}
           /\ stack' = Tail(stack) /\ UNCHANGED passive
  <2>1. RestClients(<< >>)
    <3>1. DOMAIN << >> = {} /\ << >> \in Seq(Call)
      OBVIOUS
    <3>2. \A pg \in passive : pg.client \in alive
      BY <1>6, <1>9
    <3> QED  BY <3>1, <3>2 DEF RestClients
  <2>2. stack' = << >> /\ GrabsOfLiving
    BY <1>3, <1>5, <1>9 DEF GrabsOfLiving
  <2> QED  BY <1>1, <1>3, <1>9, <2>1, <2>2, QuietClients
<1> QED  BY <1>7, <1>8, <1>9 DEF FreeClientResources

LEMMA OthersClients ==
  ASSUME GrabbersOwnNoWindow, Inv, ClientsInv,
         \/ \E c \in Clients : CloseDownClient(c)
         \/ \E r \in PassiveGrabs : GrabButton(r)
         \/ \E pg \in passive : UngrabButton(pg)
         \/ \E w \in Range(Windows) : DestroyWindow(w)
  PROVE  ClientsInv'
<1>1. GrabAlive /\ PassiveAlive /\ (Idle => RestClients(<< >>))
  BY RestClientsOfIdle DEF ClientsInv
<1>2. ASSUME NEW c \in Clients, CloseDownClient(c) PROVE ClientsInv'
  <2> DEFINE a == ReleaseRound(c, devices, TRUE)
             rest == <<FreeCall(c)>>
  <2>1. stack' = <<a, FreeCall(c)>> /\ Idle /\ c \in alive
        /\ UNCHANGED <<grab, alive, passive>>
    BY <1>2 DEF CloseDownClient, world, FreeCall
  <2>2. a \in Call /\ FreeCall(c) \in Call
    BY CallTypes, DevicesInSequence DEF FreeCall
  <2>3. rest \in Seq(Call) /\ DOMAIN rest = {1} /\ rest[1] = FreeCall(c)
    BY <2>2
  <2>4. <<a>> \o rest = <<a, FreeCall(c)>>
    <3> DEFINE b == FreeCall(c)
    <3>1. a \in Call /\ b \in Call
      BY <2>2
    <3> HIDE DEF a, b
    <3>2. << >> \in Seq(Call) /\ <<a, b>> \in Seq(Call) /\ <<b>> \in Seq(Call)
      BY <3>1
    <3>3. <<a, b>> \o << >> = <<a, b>> /\ <<b>> \o << >> = <<b>>
      BY <3>2, ConcatEmptySeq
    <3>4. <<a>> \o (<<b>> \o << >>) = <<a, b>> \o << >>
      BY <3>1, <3>2, PairInFront
    <3> QED  BY <3>3, <3>4 DEF b
  <2>5. \A pg \in passive : pg.client \in alive
    BY <1>1, <2>1 DEF RestClients
  <2>6. \A d \in Devices : \E k \in DOMAIN devices : devices[k] = d
    BY EachDevice
  <2>7. devices \in Seq(Devices) /\ TRUE \in BOOLEAN
    BY DevicesInSequence
  <2> HIDE DEF rest
  <2>8. stack' = <<ReleaseRound(c, devices, TRUE)>> \o rest
    BY <2>1, <2>4
  <2>9. ASSUME NEW l \in Seq(Devices), NEW o \in BOOLEAN,
               \A d \in Devices : \E k \in DOMAIN l : l[k] = d,
               stack' = <<ReleaseRound(c, l, o)>> \o rest
        PROVE  ClientsInv'
    BY <1>1, <2>1, <2>3, <2>5, <2>9, RoundClients
  <2> QED  BY <2>6, <2>7, <2>8, <2>9
<1>3. ASSUME NEW r \in PassiveGrabs, GrabButton(r) PROVE ClientsInv'
  <2>1. UNCHANGED <<grab, alive, stack>>
        /\ \A pg \in passive' : pg \in passive \/ pg.client \in alive
    BY <1>3 DEF GrabButton
  <2> QED  BY <2>1, PassiveClients
<1>4. ASSUME NEW pg \in passive, UngrabButton(pg) PROVE ClientsInv'
  <2>1. UNCHANGED <<grab, alive, stack>> /\ passive' \subseteq passive
    BY <1>4 DEF UngrabButton
  <2> QED  BY <2>1, PassiveClients
<1>5. ASSUME NEW w \in Range(Windows), DestroyWindow(w) PROVE ClientsInv'
  <2>1. stack' = WindowCalls(w) /\ Idle /\ UNCHANGED <<grab, alive, passive>>
    BY <1>5 DEF DestroyWindow, world
  <2>2. RestClients(WindowCalls(w) \o << >>)
    BY <1>1, <2>1, RestClientsOfWindow
  <2>3. WindowCalls(w) \o << >> = WindowCalls(w)
    BY WindowCallsType
  <2>4. GrabsOfLiving
    BY <2>1 DEF GrabsOfLiving
  <2> QED  BY <1>1, <2>1, <2>2, <2>3, <2>4, QuietClients
<1> QED  BY <1>2, <1>3, <1>4, <1>5

LEMMA ClientsKept ==
  ASSUME GrabbersOwnNoWindow, Inv, ClientsInv, [Next]_vars
  PROVE  ClientsInv'
<1>1. CASE Next
  BY <1>1, InputEventClients, RequestClients, EventCallClients, ReleaseClients,
     DeleteWindowClients, FreeResourcesClients, OthersClients DEF Next, Calls
<1>2. CASE UNCHANGED vars
  <2>1. UNCHANGED <<grab, alive, stack, passive>>
    BY <1>2 DEF vars, world
  <2> QED  BY <2>1, PassiveClients
<1> QED  BY <1>1, <1>2

(* When neither a request nor an event is under way, a client that is gone *)
(* has no grab and no grab is on a window that was destroyed:              *)
(* ReleaseActiveGrabs undoes also those that the events it plays activate. *)
THEOREM NoGrabIsLeftBehind ==
  ASSUME GrabbersOwnNoWindow
  PROVE  Spec => []NoGrabLeftBehind
<1>1. Init => ClientsInv
  <2> SUFFICES ASSUME Init PROVE ClientsInv
    OBVIOUS
  <2>1. stack = << >> /\ passive = {} /\ grab = [d \in Devices |-> NullGrab]
    BY DEF Init
  <2> QED  BY <2>1 DEF ClientsInv, CallsOfClients, PassiveAlive, GrabAlive
<1>2. Inv /\ ClientsInv /\ [Next]_vars => ClientsInv'
  BY ClientsKept
<1>3. Inv /\ ClientsInv => NoGrabLeftBehind
  BY DEF Inv, WindowInv, GrabOnTrace, ClientsInv, GrabAlive, NoGrabLeftBehind,
     NoGrabForTheDead, NoGrabOnDestroyedWindow, Idle
<1> QED  BY <1>1, <1>2, <1>3, InvHolds, PTL DEF Spec
=============================================================================
