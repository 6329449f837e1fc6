-------------------------------- MODULE Sync --------------------------------
(***************************************************************************)
(* Counters, fences, alarms and waiting clients of the Sync extension:     *)
(* Xext/sync/sync.c, with the fences of miext/sync/misync.c.               *)
(*                                                                         *)
(* Every counter and fence has a list of the triggers that look at it.     *)
(* Changing or destroying the object goes through that list and calls what *)
(* fires; a client that stops waiting takes all the triggers of its Await  *)
(* with it, from this and from other lists, in the middle of the walk.     *)
(* One step of a walk is one action.                                       *)
(*                                                                         *)
(* System counters are in SyncTime.  The events that are sent, and so the  *)
(* thresholds of Await and the clients that select an alarm's events, are  *)
(* left out.                                                               *)
(***************************************************************************)
EXTENDS SyncTriggers, Sequences, SequencesExt, Lists

CONSTANTS
  Clients,
  Counters, Fences, Alarms,   \* identifiers
  Owner,           \* the client in whose range an identifier is
  NewValues,       \* what counters are created with and set to
  Increments,      \* what is added to counters
  Awaits,          \* requests Await: sequences of conditions
  FenceAwaits,     \* requests AwaitFence: sequences of fences
  AlarmRequests    \* attributes given in CreateAlarm and ChangeAlarm

Objects == Counters \cup Fences
AlarmAttribute == {"counter", "valueType", "value", "testType", "delta"}
ValueType == {"Absolute", "Relative"}
Condition ==
  [obj : Counters, valueType : ValueType, value : Value, testType : TestType]
AlarmRecord ==
  [sync : Counters \cup {None}, check : TestType, type : TestType,
   valueType : ValueType, wait : Value, value : Value, delta : Value,
   state : {"Active", "Inactive"}]

ASSUME SyncAssumption ==
  /\ Clients \cap Alarms = {} /\ Counters \cap Fences = {}
  /\ None \notin Clients \cup Objects \cup Alarms
  /\ None \notin Value /\ None \notin BOOLEAN /\ None \notin AlarmRecord
  /\ Owner \in [Objects \cup Alarms -> Clients]
  /\ NewValues \subseteq Value /\ Increments \subseteq Value
  /\ Awaits \subseteq Seq(Condition) \ {<< >>}
  /\ FenceAwaits \subseteq Seq(Fences) \ {<< >>}

(* What is in a request is what its attributes allow.                      *)
ASSUME AlarmRequestAssumption ==
  \A r \in AlarmRequests :
    /\ DOMAIN r \subseteq AlarmAttribute
    /\ "counter" \in DOMAIN r => r["counter"] \in Counters \cup {None}
    /\ "valueType" \in DOMAIN r => r["valueType"] \in ValueType
    /\ "value" \in DOMAIN r => r["value"] \in Value
    /\ "testType" \in DOMAIN r => r["testType"] \in TestType
    /\ "delta" \in DOMAIN r => r["delta"] \in Value

VARIABLES
  counter,     \* the value of each counter, or None
  fence,       \* whether each fence is triggered, or None
  triglist,    \* pTriglist of each object: triggers, or Null
  await,       \* the conditions a client waits for, or << >>
  alarm,       \* the alarms, or None
  ignored,     \* clients that are ignored because of an Await
  closing,     \* the client whose resources are being freed, or None
  walk         \* the walk through a trigger list that is under way

vars == <<counter, fence, triglist, await, alarm, ignored, closing, walk>>

(* A trigger is known by the client and the position in its Await, or by   *)
(* its alarm.                                                              *)
Trigger(who, nr) == [who |-> who, nr |-> nr]
Null == Trigger(None, 0)

NoWalk == [op |-> "none"]
Idle == walk = NoWalk /\ closing = None
Exists(o) == IF o \in Counters THEN counter[o] # None ELSE fence[o] # None

Init ==
  /\ counter = [k \in Counters |-> None]
  /\ fence = [f \in Fences |-> None]
  /\ triglist = [o \in Objects |-> << >>]
  /\ await = [c \in Clients |-> << >>]
  /\ alarm = [a \in Alarms |-> None]
  /\ ignored = {}
  /\ closing = None
  /\ walk = NoWalk

---------------------------------------------------------------------------
(* The CheckTrigger function of a trigger on the list of an object.        *)
IsTrue(t, obj, oldval, value) ==
  IF t.who \in Alarms
  THEN CheckTrigger(alarm[t.who].check, alarm[t.who].value, oldval, value)
  ELSE IF obj \in Fences THEN value
  ELSE CheckTrigger(await[t.who][t.nr].testType, await[t.who][t.nr].value,
                    oldval, value)

(* The places in a list that are left when those are deleted that have a   *)
(* trigger of who.                                                         *)
Others(list, who) == {i \in DOMAIN list : list[i].who # who}

(* Variant: the list of an object that is being destroyed                  *)
(* is left as it is.                                                       *)
ListsWithoutNull(c, dying) ==
  [o \in Objects |-> IF o = dying THEN triglist[o]
                     ELSE Keep(triglist[o], Others(triglist[o], c))]

(* FreeAwait: the client's triggers are taken off the lists, and in the    *)
(* list of an object that is being destroyed they become Null.             *)
ListsWithout(c, dying) ==
  [o \in Objects |->
     IF o = dying
     THEN [i \in DOMAIN triglist[o] |->
             IF triglist[o][i].who = c THEN Null ELSE triglist[o][i]]
     ELSE Keep(triglist[o], Others(triglist[o], c))]

(* SyncAwaitTriggerFired: the client is attended to, and the Await freed.  *)
AwaitFired(c) ==
  /\ await' = [await EXCEPT ![c] = << >>]
  /\ ignored' = ignored \ {c}
  /\ UNCHANGED alarm

(* SyncAlarmTriggerFired; an alarm without a counter becomes inactive.     *)
AlarmFired(al) ==
  IF al.sync = None THEN [al EXCEPT !.state = "Inactive"]
  ELSE AlarmAfter(al, counter[al.sync])

(* A trigger fires: the function TriggerFired of an Await or of an alarm.  *)
Fire(t) ==
  IF t.who \in Clients
  THEN AwaitFired(t.who) /\ triglist' = ListsWithout(t.who, None)
  ELSE /\ alarm' = [alarm EXCEPT ![t.who] = AlarmFired(@)]
       /\ UNCHANGED <<await, ignored, triglist>>

---------------------------------------------------------------------------
(* SyncChangeCounter has given the counter its new value; it now goes      *)
(* through the list.  due is a history variable.                           *)
FirstOf(list) == IF list = << >> THEN Null ELSE Head(list)

Active(t) == t.who \in Alarms => alarm[t.who].state = "Active"

StartChange(k, value) ==
  /\ counter' = [counter EXCEPT ![k] = value]
  /\ walk' = [op |-> "change", obj |-> k, cur |-> FirstOf(triglist[k]),
              oldval |-> counter[k],
              due |-> {t \in Range(triglist[k]) :
                         Active(t) /\ IsTrue(t, k, counter[k], value)}]
  /\ UNCHANGED <<fence, triglist, await, alarm, ignored, closing>>

(* The node after the one that has been looked at.                         *)
After(t, list) ==
  LET i == CHOOSE i \in DOMAIN list : list[i] = t
  IN  IF i = Len(list) THEN Null ELSE list[i + 1]

(* Variants: the node that was remembered is used whatever has             *)
(* become of it; the walk ends; it starts again after everything that      *)
(* fires.                                                                  *)
ResumeUnchecked(pnext, list) == pnext

ResumeFromHead(pnext, list) == FirstOf(list)

(* When firing has taken that node off the list as well, the walk starts   *)
(* again from the head.                                                    *)
Resume(pnext, list) ==
  IF pnext = Null \/ pnext \in Range(list) THEN pnext ELSE FirstOf(list)

WalkChange ==
  /\ walk.op = "change"
  /\ walk.cur # Null
  /\ LET t == walk.cur
         pnext == After(t, triglist[walk.obj])
     IN  IF IsTrue(t, walk.obj, walk.oldval, counter[walk.obj])
         THEN /\ Fire(t)
              /\ walk' = [walk EXCEPT !.cur = Resume(pnext, triglist'[walk.obj]),
                                      !.due = @ \ (IF t.who \in Clients
                                         THEN {u \in @ : u.who = t.who} ELSE {t})]
         ELSE /\ walk' = [walk EXCEPT !.cur = pnext]
              /\ UNCHANGED <<triglist, await, alarm, ignored>>
  /\ UNCHANGED <<counter, fence, closing>>

ChangeEnds ==
  /\ walk.op = "change"
  /\ walk.cur = Null
  /\ walk' = NoWalk
  /\ UNCHANGED <<counter, fence, triglist, await, alarm, ignored, closing>>

(* miSyncTriggerFence: the first trigger that is true fires, until none is.*)
WalkFence ==
  /\ walk.op = "fence"
  /\ LET true == {i \in DOMAIN triglist[walk.obj] :
                    IsTrue(triglist[walk.obj][i], walk.obj, 0, fence[walk.obj])}
     IN  IF true # {}
         THEN Fire(triglist[walk.obj][Min(true)]) /\ UNCHANGED walk
         ELSE walk' = NoWalk /\ UNCHANGED <<triglist, await, alarm, ignored>>
  /\ UNCHANGED <<counter, fence, closing>>

(* FreeCounter and miSyncDestroyFence: CounterDestroyed of each trigger,   *)
(* once the node is off the list; at the end the object is gone.           *)
NullPassed(o) ==
  /\ triglist[o] # << >>
  /\ Head(triglist[o]) = Null
  /\ triglist' = [triglist EXCEPT ![o] = Tail(@)]
  /\ UNCHANGED <<counter, fence, await, alarm, ignored, walk>>

AwaitCounterDestroyed(o, c) ==
  /\ triglist[o] # << >>
  /\ Head(triglist[o]).who = c
  /\ AwaitFired(c)
  /\ triglist' = [ListsWithout(c, o) EXCEPT ![o] = Tail(@)]
  /\ UNCHANGED <<counter, fence, walk>>

AlarmCounterDestroyed(o, a) ==
  /\ triglist[o] # << >>
  /\ Head(triglist[o]).who = a
  /\ alarm' = [alarm EXCEPT ![a] = [@ EXCEPT !.state = "Inactive", !.sync = None]]
  /\ triglist' = [triglist EXCEPT ![o] = Tail(@)]
  /\ UNCHANGED <<counter, fence, await, ignored, walk>>

ObjectFreed(o) ==
  /\ triglist[o] = << >>
  /\ counter' = [k \in Counters |-> IF k = o THEN None ELSE counter[k]]
  /\ fence' = [f \in Fences |-> IF f = o THEN None ELSE fence[f]]
  /\ walk' = NoWalk
  /\ UNCHANGED <<triglist, await, alarm, ignored>>

WalkDestroy ==
  /\ walk.op = "destroy"
  /\ \/ NullPassed(walk.obj)
     \/ \E c \in Clients : AwaitCounterDestroyed(walk.obj, c)
     \/ \E a \in Alarms : AlarmCounterDestroyed(walk.obj, a)
     \/ ObjectFreed(walk.obj)
  /\ UNCHANGED closing

---------------------------------------------------------------------------
(* Requests: some client that is not ignored makes them.                   *)
Requesting == Idle /\ ignored # Clients

CreateCounter(k, v) ==
  /\ Idle
  /\ Owner[k] \notin ignored
  /\ counter[k] = None
  /\ counter' = [counter EXCEPT ![k] = v]
  /\ UNCHANGED <<fence, triglist, await, alarm, ignored, closing, walk>>

SetCounter(k, v) ==
  /\ Requesting
  /\ counter[k] # None
  /\ StartChange(k, v)

ChangeCounter(k, amount) ==
  /\ Requesting
  /\ counter[k] # None
  /\ ~Overflows(counter[k] + amount)                           \* BadValue
  /\ StartChange(k, counter[k] + amount)

StartDestroy(o) ==
  /\ walk' = [op |-> "destroy", obj |-> o]
  /\ UNCHANGED <<counter, fence, triglist, await, alarm, ignored, closing>>

Destroy(o) ==
  /\ Requesting
  /\ Exists(o)
  /\ StartDestroy(o)

CreateFence(f, triggered) ==
  /\ Idle
  /\ Owner[f] \notin ignored
  /\ fence[f] = None
  /\ fence' = [fence EXCEPT ![f] = triggered]
  /\ UNCHANGED <<counter, triglist, await, alarm, ignored, closing, walk>>

TriggerFence(f) ==
  /\ Requesting
  /\ fence[f] # None
  /\ fence' = [fence EXCEPT ![f] = TRUE]
  /\ walk' = [op |-> "fence", obj |-> f]
  /\ UNCHANGED <<counter, triglist, await, alarm, ignored, closing>>

ResetFence(f) ==
  /\ Requesting
  /\ fence[f] = TRUE                                           \* BadMatch
  /\ fence' = [fence EXCEPT ![f] = FALSE]
  /\ UNCHANGED <<counter, triglist, await, alarm, ignored, closing, walk>>

(* The conditions of a client's Await, in the lists of their objects: each *)
(* is put before the triggers that are there.                              *)
ListsWith(c, conds) ==
  [o \in Objects |->
     LET mine == {i \in DOMAIN conds : conds[i].obj = o}
         n == Cardinality(mine)
     IN  [j \in 1..n |-> Trigger(c, Nth(mine, n + 1 - j))] \o triglist[o]]

(* Variant: the client waits for the next change.                          *)
StartAwaitLate(c, conds, holds) ==
  /\ await' = [await EXCEPT ![c] = conds]
  /\ ignored' = ignored \cup {c}
  /\ triglist' = ListsWith(c, conds)
  /\ UNCHANGED <<counter, fence, alarm, closing, walk>>

(* SyncAwaitEpilogue: when one of the conditions holds already, the Await  *)
(* is fired at once, and nothing is left of it.                            *)
StartAwait(c, conds, holds) ==
  /\ ~holds
  /\ await' = [await EXCEPT ![c] = conds]
  /\ ignored' = ignored \cup {c}
  /\ triglist' = ListsWith(c, conds)
  /\ UNCHANGED <<counter, fence, alarm, closing, walk>>

(* ProcSyncAwait.  An error in one condition removes the triggers of those *)
(* before it: nothing has changed.                                         *)
Await(c, request) ==
  LET test(cond) == cond.value +
                    (IF cond.valueType = "Relative" THEN counter[cond.obj] ELSE 0)
      conds == [i \in DOMAIN request |->
                  [request[i] EXCEPT !.value = test(request[i])]]
  IN  /\ Idle
      /\ c \notin ignored
      /\ \A i \in DOMAIN request : counter[request[i].obj] # None
      /\ \A i \in DOMAIN request : ~Overflows(test(request[i]))
      /\ StartAwait(c, conds, \E i \in DOMAIN conds :
           CheckTrigger(conds[i].testType, conds[i].value,
                        counter[conds[i].obj], counter[conds[i].obj]))

(* ProcSyncAwaitFence.                                                     *)
AwaitFence(c, fences) ==
  /\ Idle
  /\ c \notin ignored
  /\ \A i \in DOMAIN fences : fence[fences[i]] # None
  /\ StartAwait(c, [i \in DOMAIN fences |-> [obj |-> fences[i]]],
                \E i \in DOMAIN fences : fence[fences[i]])

---------------------------------------------------------------------------
(* Alarms.                                                                 *)

NewAlarm == [sync |-> None, check |-> "PositiveComparison",
             type |-> "PositiveComparison", valueType |-> "Absolute",
             wait |-> 0, value |-> 0, delta |-> 1, state |-> "Inactive"]

Given(r, attribute, otherwise) ==
  IF attribute \in DOMAIN r THEN r[attribute] ELSE otherwise

(* The CheckTrigger function after the request.                            *)
SelectedCheck(al, r) == Given(r, "testType", al.check)

(* SyncChangeAlarmAttributes, with SyncInitTrigger: al with the attributes *)
(* of the request, and whether there was an error.  test_value is assigned *)
(* before the overflow is noticed; CheckTrigger and the counter are only   *)
(* assigned when nothing has failed before.                                *)
WithAttributes(al, r) ==
  LET type == Given(r, "testType", al.type)
      delta == Given(r, "delta", al.delta)
      sync == Given(r, "counter", al.sync)
      mismatch == /\ DOMAIN r \cap {"delta", "testType"} # {}
                  /\ ~DeltaMatches(type, delta)
      stored == [al EXCEPT !.type = type, !.delta = delta,
                           !.valueType = Given(r, "valueType", al.valueType),
                           !.wait = Given(r, "value", al.wait)]
      unknown == sync # None /\ counter[sync] = None
      revalued == DOMAIN r \cap {"valueType", "value"} # {}
      relative == stored.valueType = "Relative"
      test == IF ~revalued THEN al.value
              ELSE IF relative THEN stored.wait + counter[sync] ELSE stored.wait
  IN  IF mismatch THEN [ok |-> FALSE, alarm |-> al]               \* BadMatch
      ELSE IF unknown                                           \* BadCounter
              \/ (revalued /\ relative /\ sync = None)            \* BadMatch
      THEN [ok |-> FALSE, alarm |-> stored]
      ELSE IF Overflows(test)                                     \* BadValue
      THEN [ok |-> FALSE, alarm |-> [stored EXCEPT !.value = Wrapped(test)]]
      ELSE [ok |-> TRUE,
            alarm |-> [stored EXCEPT
              !.value = test, !.sync = sync, !.state = "Active",
              !.check = SelectedCheck(al, r)]]

(* The lists after an alarm has gone from one counter to another.          *)
ListsMoved(a, from, to) ==
  IF from = to THEN triglist
  ELSE [o \in Objects |->
          IF o = to THEN <<Trigger(a, 0)>> \o triglist[o]
          ELSE Keep(triglist[o], Others(triglist[o], a))]

(* A trigger that holds when the alarm is given its attributes.            *)
HoldsNow(al) ==
  al.sync # None
    /\ CheckTrigger(al.check, al.value, counter[al.sync], counter[al.sync])

(* ProcSyncCreateAlarm: without a counter the alarm is inactive.           *)
CreateAlarm(a, r) ==
  LET new == WithAttributes(NewAlarm, r)
      al == new.alarm
  IN  /\ Idle
      /\ Owner[a] \notin ignored
      /\ alarm[a] = None
      /\ new.ok
      /\ alarm' = [alarm EXCEPT ![a] =
                     IF al.sync = None THEN [al EXCEPT !.state = "Inactive"]
                     ELSE IF HoldsNow(al) THEN AlarmFired(al) ELSE al]
      /\ triglist' = ListsMoved(a, None, al.sync)
      /\ UNCHANGED <<counter, fence, await, ignored, closing, walk>>

(* ProcSyncChangeAlarm: without a counter the alarm goes off.              *)
ChangeAlarm(a, r) ==
  LET new == WithAttributes(alarm[a], r)
      al == new.alarm
  IN  /\ Requesting
      /\ alarm[a] # None
      /\ new.ok
      /\ alarm' = [alarm EXCEPT ![a] =
                     IF al.sync = None \/ HoldsNow(al) THEN AlarmFired(al) ELSE al]
      /\ triglist' = ListsMoved(a, alarm[a].sync, al.sync)
      /\ UNCHANGED <<counter, fence, await, ignored, closing, walk>>

(* FreeAlarm.                                                              *)
FreeAlarm(a) ==
  /\ alarm[a] # None
  /\ triglist' = ListsMoved(a, alarm[a].sync, None)
  /\ alarm' = [alarm EXCEPT ![a] = None]
  /\ UNCHANGED <<counter, fence, await, ignored, walk>>

DestroyAlarm(a) == Requesting /\ FreeAlarm(a) /\ UNCHANGED closing

---------------------------------------------------------------------------
(* A client goes away.  FreeClientResources frees what it has created and  *)
(* its Await in any order; a new client may then have its number.          *)
CloseDownClient(c) ==
  /\ Idle
  /\ closing' = c
  /\ UNCHANGED <<counter, fence, triglist, await, alarm, ignored, walk>>

FreeClientResource ==
  /\ closing # None
  /\ walk = NoWalk
  /\ LET c == closing
         objects == {o \in Objects : Owner[o] = c /\ Exists(o)}
         alarms == {a \in Alarms : Owner[a] = c /\ alarm[a] # None}
     IN  \/ \E o \in objects : StartDestroy(o)
         \/ \E a \in alarms : FreeAlarm(a) /\ UNCHANGED closing
         \/ /\ await[c] # << >>
            /\ await' = [await EXCEPT ![c] = << >>]
            /\ triglist' = ListsWithout(c, None)
            /\ UNCHANGED <<counter, fence, alarm, ignored, closing, walk>>
         \/ /\ objects = {} /\ alarms = {} /\ await[c] = << >>
            /\ closing' = None
            /\ ignored' = ignored \ {c}
            /\ UNCHANGED <<counter, fence, triglist, await, alarm, walk>>

Walk == WalkChange \/ ChangeEnds \/ WalkFence \/ WalkDestroy

Request ==
  \/ \E k \in Counters, v \in NewValues : CreateCounter(k, v) \/ SetCounter(k, v)
  \/ \E k \in Counters, v \in Increments : ChangeCounter(k, v)
  \/ \E o \in Objects : Destroy(o)
  \/ \E f \in Fences : \E t \in BOOLEAN : CreateFence(f, t)
  \/ \E f \in Fences : TriggerFence(f) \/ ResetFence(f)
  \/ \E c \in Clients :
       \/ \E r \in Awaits : Await(c, r)
       \/ \E r \in FenceAwaits : AwaitFence(c, r)
       \/ CloseDownClient(c)
  \/ \E a \in Alarms :
       \/ DestroyAlarm(a)
       \/ \E r \in AlarmRequests : CreateAlarm(a, r) \/ ChangeAlarm(a, r)

Next == Walk \/ FreeClientResource \/ Request

Spec == Init /\ [][Next]_vars

(* The server finishes the request it has begun.                           *)
FairSpec == Spec /\ WF_vars(Walk \/ FreeClientResource)

---------------------------------------------------------------------------
Triggers == [who : Clients \cup Alarms \cup {None}, nr : Nat]

WalkType ==
  {NoWalk}
  \cup [op : {"change"}, obj : Counters, cur : Triggers, oldval : Value,
        due : SUBSET Triggers]
  \cup [op : {"fence"}, obj : Fences]
  \cup [op : {"destroy"}, obj : Objects]

TypeOK ==
  /\ counter \in [Counters -> Value \cup {None}]
  /\ fence \in [Fences -> BOOLEAN \cup {None}]
  /\ triglist \in [Objects -> Seq(Triggers)]
  /\ await \in [Clients -> Seq(Condition) \cup Seq([obj : Fences])]
  /\ alarm \in [Alarms -> AlarmRecord \cup {None}]
  /\ ignored \subseteq Clients
  /\ closing \in Clients \cup {None}
  /\ walk \in WalkType

(* The triggers that look at an object: those of the waiting clients and   *)
(* those of the alarms.                                                    *)
WaitingFor(c, o) ==
  {Trigger(c, i) : i \in {j \in DOMAIN await[c] : await[c][j].obj = o}}
AlarmsOn(o) ==
  {Trigger(a, 0) : a \in {b \in Alarms : alarm[b] # None /\ alarm[b].sync = o}}
Watching(o) == AlarmsOn(o) \cup UNION {WaitingFor(c, o) : c \in Clients}

(* The lists hold pointers into awaits and alarms, which are freed in the  *)
(* middle of walks: a list has exactly the triggers that look at its       *)
(* object, each once, and FreeAwait leaves no pointer to what it frees,    *)
(* not even in the list of an object that is being destroyed.              *)
TriggersListed ==
  /\ TypeOK
  /\ \A o \in Objects :
    LET list == triglist[o]
    IN  /\ \A i, j \in DOMAIN list : list[i] = list[j] /\ list[i] # Null => i = j
        /\ Range(list) \ {Null} = Watching(o)
        /\ ~Exists(o) => list = << >>
        /\ Null \in Range(list) => walk.op = "destroy" /\ walk.obj = o

(* The node SyncChangeCounter goes on with has not been freed by what has  *)
(* fired.                                                                  *)
WalksOnList ==
  walk.op = "change" /\ walk.cur # Null =>
    walk.cur \in Range(triglist[walk.obj])

(* SyncChangeCounter has fired every trigger that the change makes true,   *)
(* whatever it has had to skip and to visit again.                         *)
AllDueFire == walk.op = "change" /\ walk.cur = Null => walk.due = {}

(* SyncChangeCounter gets through a list that changes under it.            *)
ChangesFire == WalksOnList /\ AllDueFire

(* A client is ignored exactly as long as it waits: each path that ends an *)
(* Await attends to the client, and once.                                  *)
IgnoredWhileWaiting ==
  \A c \in Clients \ {closing} : c \in ignored <=> await[c] # << >>

(* No client is left waiting for a comparison that holds or for a fence    *)
(* that is triggered.                                                      *)
NoneWaitsForTrue ==
  walk = NoWalk =>
    \A c \in Clients : \A i \in DOMAIN await[c] :
      LET cond == await[c][i]
      IN  IF cond.obj \in Fences THEN ~fence[cond.obj]
          ELSE cond.testType \in ComparisonTypes =>
                 ~CheckTrigger(cond.testType, cond.value, counter[cond.obj],
                               counter[cond.obj])

(* A client is ignored only as long as it waits for what does not hold,    *)
(* whichever of its conditions became true and whichever object went away. *)
NobodyWaitsInVain == IgnoredWhileWaiting /\ NoneWaitsForTrue

(* An active alarm on a comparison has been moved on to a value that the   *)
(* counter has not reached.                                                *)
AlarmsAhead ==
  walk = NoWalk =>
    \A a \in Alarms :
      alarm[a] # None /\ alarm[a].state = "Active"
        /\ alarm[a].check \in ComparisonTypes => ~HoldsNow(alarm[a])

(* The function that tests an alarm is the one of its test type, and its   *)
(* delta has the sign that makes the loop in SyncAlarmTriggerFired end.    *)
AlarmsAdvance ==
  \A a \in Alarms : alarm[a] # None =>
    /\ alarm[a].check = alarm[a].type
    /\ DeltaMatches(alarm[a].check, alarm[a].delta)

(* SyncAlarmTriggerFired and SyncChangeAlarmAttributes leave an alarm that *)
(* is consistent in itself and ahead of its counter.                       *)
AlarmsReady == AlarmsAhead /\ AlarmsAdvance

(* Every request ends: the walk that starts again from the head does so    *)
(* only after it has taken a waiting client's triggers off the list.       *)
RequestsEnd == []<>Idle
=============================================================================
