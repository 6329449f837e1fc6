------------------------------ MODULE SyncTime ------------------------------
(***************************************************************************)
(* The system counters SERVERTIME and IDLETIME of the Sync extension,      *)
(* Xext/sync/sync.c: how triggers on a counter that nobody changes become  *)
(* true in time.  A system counter keeps the next lower and the next       *)
(* higher value at which a trigger may fire, its brackets; a block handler *)
(* shortens the main thread's poll for them, and a wakeup handler changes  *)
(* the counter when one has been reached.                                  *)
(*                                                                         *)
(* A watcher is an Await of one condition or an alarm.  GetTime and        *)
(* lastDeviceEventTime are the variables now and last, in milliseconds.    *)
(***************************************************************************)
EXTENDS SyncTriggers

CONSTANTS
  Watchers,
  Asks,        \* what each may ask for
  MaxTime      \* bound: the time at which an instance ends

SystemCounters == {"SERVERTIME", "IDLETIME"}

ASSUME SyncTimeAssumption ==
  /\ None \notin Int
  /\ MaxTime \in Nat /\ MaxTime < Limit
  /\ Asks \in [Watchers ->
                SUBSET [counter : SystemCounters, testType : TestType,
                        valueType : {"Absolute", "Relative"},
                        value : Value, delta : Value, await : BOOLEAN]]
  /\ \A w \in Watchers : \A r \in Asks[w] : DeltaMatches(r.testType, r.delta)

VARIABLES
  now,       \* GetTimeInMillis
  last,      \* lastDeviceEventTime: when the last input was processed
  reset,     \* whether there was input since the wakeup handler looked
  value,     \* the value of each counter
  bracket,   \* the brackets of each counter, None or a value
  watcher,   \* each watcher's trigger, or None
  poll       \* until when the main thread sleeps: a time, Never, or Busy

timeVars == <<now, last, reset, value, bracket, watcher, poll>>

Never == MaxTime + 1
Busy == -1

(* GetTime, and IdleTimeQueryValue.                                        *)
QueryValue(k) == IF k = "SERVERTIME" THEN now ELSE now - last

NoBracket == [less |-> None, greater |-> None]

TimeInit ==
  /\ now = 0
  /\ last = 0
  /\ reset = FALSE
  /\ value = [k \in SystemCounters |-> 0]
  /\ bracket = [k \in SystemCounters |-> NoBracket]
  /\ watcher = [w \in Watchers |-> None]
  /\ poll = Busy

---------------------------------------------------------------------------
(* The watchers in the trigger list of a counter.                          *)
Listed(k, ws) == {w \in Watchers : ws[w] # None /\ ws[w].counter = k}

(* Whether SyncComputeBracketValues looks at a trigger of this type, for   *)
(* SERVERTIME, which never decreases, and IDLETIME, which is unrestricted. *)
Looked(k, type) ==
  \/ k = "IDLETIME"
  \/ type \in {"PositiveComparison", "NegativeTransition"}

(* SyncComputeBracketValues for the value v and the watchers ws.           *)
ComputeBracketValues(k, v, ws) ==
  LET looked == {w \in Listed(k, ws) : Looked(k, ws[w].type)}
      above == {ws[w].value : w \in
                 {x \in looked : \/ v < ws[x].value
                                 \/ v = ws[x].value
                                    /\ ws[x].type = "PositiveTransition"}}
      below == {ws[w].value : w \in
                 {x \in looked : \/ v > ws[x].value
                                 \/ v = ws[x].value
                                    /\ ws[x].type = "NegativeTransition"}}
  IN  [less |-> IF below = {} THEN None ELSE Max(below),
       greater |-> IF above = {} THEN None ELSE Min(above)]

(* IdleTimeBracketValues: the reset flag is cleared when the handlers are  *)
(* registered.                                                             *)
ResetAfter(k, new) ==
  IF k = "IDLETIME" /\ bracket[k] = NoBracket /\ new # NoBracket
  THEN FALSE ELSE reset

---------------------------------------------------------------------------
(* A counter with its brackets and the watchers.                           *)
Counter(k) == [value |-> value[k], bracket |-> bracket[k], watcher |-> watcher]

(* What is left of a watcher that fires.                                   *)
Fired(trigger, v) == IF trigger.await THEN None ELSE AlarmAfter(trigger, v)

Holds(trigger, oldval, v) ==
  CheckTrigger(trigger.check, trigger.value, oldval, v)

(* Variant: the brackets are computed before the triggers                  *)
(* are checked.                                                            *)
ChangeSystemCounterEarly(k, s, v) ==
  LET ws == [w \in Watchers |->
               IF w \in Listed(k, s.watcher) /\ Holds(s.watcher[w], s.value, v)
               THEN Fired(s.watcher[w], v) ELSE s.watcher[w]]
  IN  [value |-> v, watcher |-> ws,
       bracket |-> ComputeBracketValues(k, v, s.watcher)]

(* SyncChangeCounter: the counter gets the value v, what becomes true      *)
(* fires, and the brackets are computed anew.                              *)
ChangeSystemCounter(k, s, v) ==
  LET ws == [w \in Watchers |->
               IF w \in Listed(k, s.watcher) /\ Holds(s.watcher[w], s.value, v)
               THEN Fired(s.watcher[w], v) ELSE s.watcher[w]]
  IN  [value |-> v, watcher |-> ws, bracket |-> ComputeBracketValues(k, v, ws)]

Reached(b, v) ==
  \/ b.greater # None /\ v >= b.greater
  \/ b.less # None /\ v <= b.less

(* IdleTimeCheckBrackets, with SyncUpdateCounter.                          *)
CheckBrackets(s, v) ==
  IF Reached(s.bracket, v) THEN ChangeSystemCounter("IDLETIME", s, v)
  ELSE [s EXCEPT !.value = v]

(* ServertimeWakeupHandler.  Only the upper bracket is looked at.          *)
ServertimeWakeup(s) ==
  IF s.bracket.greater # None /\ now >= s.bracket.greater
  THEN ChangeSystemCounter("SERVERTIME", s, now) ELSE s

(* Variant: that the idle time was 0 is not looked                         *)
(* at.                                                                     *)
IdleTimeWakeupNow(s) == s

(* IdleTimeWakeupHandler: when input has set the idle time back, the       *)
(* brackets are checked for 0 first.  It is not called without a bracket.  *)
IdleTimeWakeupReset(s) ==
  IF s.bracket # NoBracket /\ reset /\ now # last THEN CheckBrackets(s, 0) ELSE s

IdleTimeWakeup(s) ==
  IF bracket["IDLETIME"] = NoBracket THEN s ELSE CheckBrackets(s, now - last)

(* The poll has ended, because its time is over or because there is input  *)
(* or a request.                                                           *)
WakeupHandler ==
  /\ poll # Busy
  /\ poll' = Busy
  /\ reset' = (reset /\ bracket["IDLETIME"] = NoBracket)
  /\ \E server \in {ServertimeWakeup(Counter("SERVERTIME"))} :
     \E idle0 \in {IdleTimeWakeupReset(
                     [Counter("IDLETIME") EXCEPT !.watcher = server.watcher])} :
     \E idle \in {IdleTimeWakeup(idle0)} :
       /\ value' = [SERVERTIME |-> server.value, IDLETIME |-> idle.value]
       /\ bracket' = [SERVERTIME |-> server.bracket, IDLETIME |-> idle.bracket]
       /\ watcher' = idle.watcher
  /\ UNCHANGED <<now, last>>

TimesOut == now >= poll /\ WakeupHandler
WokenUp == now < poll /\ WakeupHandler

---------------------------------------------------------------------------
(* ServertimeBlockHandler: how long the poll may take.                     *)
ServertimeDelays ==
  LET next == bracket["SERVERTIME"].greater
  IN  IF next = None THEN {} ELSE {IF now >= next THEN 0 ELSE next - now}

(* IdleTimeBlockHandler.                                                   *)
IdleTimeDelays ==
  LET idle == now - last
      less == bracket["IDLETIME"].less
      greater == bracket["IDLETIME"].greater
      true == {w \in Listed("IDLETIME", watcher) :
                 Holds(watcher[w], value["IDLETIME"], idle)}
      ifTrue == IF true # {} THEN {0} ELSE {}
  IN  IF less # None /\ idle > less /\ reset THEN {0}
      ELSE IF less # None /\ idle <= less
      THEN ifTrue \cup (IF idle = less THEN {1} ELSE {})
      ELSE IF greater = None THEN {}
      ELSE IF idle < greater THEN {greater - idle} ELSE ifTrue

(* The main thread goes to sleep.                                          *)
BlockHandler ==
  LET delays == ServertimeDelays \cup IdleTimeDelays
  IN  /\ poll = Busy
      /\ poll' = IF delays = {} THEN Never ELSE now + Min(delays)
      /\ UNCHANGED <<now, last, reset, value, bracket, watcher>>

---------------------------------------------------------------------------
(* Variant: the overflow of a relative value is not noticed.               *)
TestValueUnchecked(r, v) ==
  {IF r.valueType = "Relative" THEN v + r.value ELSE r.value}

(* SyncInitTrigger: the test value, and none when it overflows, which is   *)
(* answered with BadValue.                                                 *)
TestValue(r, v) ==
  LET test == IF r.valueType = "Relative" THEN v + r.value ELSE r.value
  IN  IF Overflows(test) THEN {} ELSE {test}

(* ProcSyncAwait or ProcSyncCreateAlarm: SyncInitTrigger asks for the      *)
(* value and puts the trigger in the list, which computes the brackets;    *)
(* if it holds, it fires at once, and an Await is taken off the list       *)
(* again, which computes them again.                                       *)
StartWatching(w, r) ==
  LET k == r.counter
      v == QueryValue(k)
  IN  /\ poll = Busy
      /\ watcher[w] = None
      /\ value' = [value EXCEPT ![k] = v]
      /\ \E test \in TestValue(r, v) :
           LET trigger == [check |-> r.testType, type |-> r.testType,
                           value |-> test, delta |-> r.delta,
                           state |-> "Active", counter |-> k,
                           await |-> r.await]
               listed == [watcher EXCEPT ![w] = trigger]
               fired == [watcher EXCEPT ![w] = Fired(trigger, v)]
               new == ComputeBracketValues(k, v, listed)
               holds == Holds(trigger, v, v)
           IN  /\ watcher' = IF holds THEN fired ELSE listed
               /\ bracket' = [bracket EXCEPT ![k] =
                                IF holds /\ r.await
                                THEN ComputeBracketValues(k, v, fired) ELSE new]
               /\ reset' = ResetAfter(k, new)
      /\ UNCHANGED <<now, last, poll>>

(* The alarm is destroyed or the waiting client goes away.                 *)
StopWatching(w) ==
  LET k == watcher[w].counter
      left == [watcher EXCEPT ![w] = None]
  IN  /\ poll = Busy
      /\ watcher[w] # None
      /\ watcher' = left
      /\ bracket' = [bracket EXCEPT ![k] = ComputeBracketValues(k, value[k], left)]
      /\ UNCHANGED <<now, last, reset, value, poll>>

(* ProcSyncQueryCounter.                                                   *)
QueryCounter(k) ==
  /\ poll = Busy
  /\ value' = [value EXCEPT ![k] = QueryValue(k)]
  /\ UNCHANGED <<now, last, reset, bracket, watcher, poll>>

(* NoticeTime, when an input event is processed.                           *)
NoticeTime ==
  /\ poll = Busy
  /\ last' = now
  /\ reset' = TRUE
  /\ UNCHANGED <<now, value, bracket, watcher, poll>>

(* Time passes; a poll ends as soon as its time is over.                   *)
Tick ==
  /\ now < MaxTime
  /\ poll = Busy \/ now < poll
  /\ now' = now + 1
  /\ UNCHANGED <<last, reset, value, bracket, watcher, poll>>

TimeNext ==
  \/ TimesOut
  \/ WokenUp
  \/ BlockHandler
  \/ \E w \in Watchers : \E r \in Asks[w] : StartWatching(w, r)
  \/ \E w \in Watchers : StopWatching(w)
  \/ \E k \in SystemCounters : QueryCounter(k)
  \/ NoticeTime
  \/ Tick

TimeSpec == TimeInit /\ [][TimeNext]_timeVars

(* The main thread goes on: what it does between two polls ends, and a     *)
(* poll ends when its time is over.                                        *)
TimeFairSpec == TimeSpec /\ WF_timeVars(BlockHandler) /\ WF_timeVars(TimesOut)

---------------------------------------------------------------------------
TriggerRecord == [check : TestType, type : TestType, value : Value,
                  delta : Value, state : {"Active", "Inactive"},
                  counter : SystemCounters, await : BOOLEAN]

TimeTypeOK ==
  /\ now \in 0..MaxTime
  /\ last \in 0..now
  /\ reset \in BOOLEAN
  /\ value \in [SystemCounters -> Value]
  /\ bracket \in [SystemCounters -> [less : Value \cup {None},
                                    greater : Value \cup {None}]]
  /\ watcher \in [Watchers -> TriggerRecord \cup {None}]
  /\ poll \in {Busy, Never} \cup Nat

IsActive(w) == watcher[w] # None /\ watcher[w].state = "Active"

(* When a watcher's condition will hold, if there is no input until then.  *)
DueAt(w) ==
  watcher[w].value + (IF watcher[w].counter = "IDLETIME" THEN last ELSE 0)

(* The main thread does not sleep beyond the moment at which an active     *)
(* watcher's condition becomes true.                                       *)
PollInTime ==
  poll # Busy =>
    \A w \in Watchers :
      IsActive(w) /\ watcher[w].type \in PositiveTypes /\ now < DueAt(w)
        => poll <= DueAt(w)

(* The condition of an active watcher is a comparison, and it is true.     *)
Overdue(w) ==
  /\ IsActive(w)
  /\ watcher[w].type \in {"PositiveComparison", "NegativeComparison"}
  /\ LET v == QueryValue(watcher[w].counter) IN Holds(watcher[w], v, v)

(* What can be missed: that the idle time had reached a value before input *)
(* set it back.                                                            *)
Missable(w) ==
  watcher[w].counter = "IDLETIME" /\ watcher[w].type = "PositiveComparison"

(* What holds fires: no watcher stays overdue, and an Await whose          *)
(* condition has been true ends.  That the idle time was set back to 0 is  *)
(* not missed, however late the main thread looks.                         *)
WatchersFire ==
  \A w \in Watchers :
    /\ (Overdue(w) /\ watcher[w].await /\ ~Missable(w)) ~> (watcher[w] = None)
    /\ []<>~Overdue(w)
=============================================================================
