------------------------------- MODULE OsTimer -------------------------------
(***************************************************************************)
(* The server's timers, os/WaitFor.c: a list sorted by expiry, kept by     *)
(* TimerSet, TimerForce, TimerCancel and TimerFree, and run by the main    *)
(* thread in check_timers, whose result is the timeout of its next poll.   *)
(*                                                                         *)
(* Times are CARD32 milliseconds that wrap around; every comparison in the *)
(* code is a signed or unsigned difference.  Callbacks run with input_lock *)
(* held and may themselves set, force, cancel and free timers, so the main *)
(* thread has a stack of calls.  What a callback is for is left out.       *)
(***************************************************************************)
EXTENDS Lists, SequencesExt

CONSTANTS
  Timer,          \* the OsTimerRecs
  InputTimers,    \* those that drivers set on the input thread
  NoTimer,
  CARD32_SIZE,    \* 2^32
  SLACK,          \* the 250 ms a timeout may be longer than its delta
  Delays,         \* delays that timers are set to, relative
  Offsets,        \* times timers are set to with TimerAbsolute, less the clock
  Rewinds,        \* amounts by which the clock is set back (without
                  \* CLOCK_MONOTONIC)
  MaxRewinds,     \* bound: how often it is set back
  MaxLate,        \* bound: how long a timer that is due waits for the main
                  \* thread, and how long check_timers takes
  MaxDepth        \* bound: depth of the call stack

CARD32 == 0..(CARD32_SIZE - 1)

ASSUME TimerAssumption ==
  /\ InputTimers \subseteq Timer
  /\ NoTimer \notin Timer
  /\ CARD32_SIZE \in Nat \ {0} /\ CARD32_SIZE % 2 = 0
  /\ SLACK \in Nat
  /\ Delays \subseteq CARD32 \ {0}
  /\ Offsets \subseteq CARD32
  /\ Rewinds \subseteq Nat
  /\ MaxRewinds \in Nat
  /\ MaxLate \in Nat
  /\ MaxDepth \in Nat

VARIABLES
  timers,     \* the list, as a sequence
  allocated,  \* timers that are allocated
  expires,    \* OsTimerRec.expires
  delta,      \* OsTimerRec.delta
  clock,      \* GetTimeInMillis
  mpc,        \* where the main thread is in WaitForSomething
  calls,      \* its calls of TimerSet and of callbacks, innermost first
  seen,       \* the local timer of check_timers
  timeout,    \* the local timeout of check_timers; in the poll, what is left
  now,        \* the local now of check_timers and DoTimers
  kicked,     \* the input thread has written to the main thread's pipe
  left,       \* real time until a timer is due
  spent,      \* real time between the clock's reading in check_timers and
              \* the poll
  rewinds     \* how often the clock has been set back

observed == <<left, spent, rewinds>>
list == <<timers, allocated, expires, delta>>
locals == <<seen, timeout, now>>
vars == <<list, clock, mpc, calls, locals, kicked, observed>>

(* (int) x for a CARD32 x.                                                 *)
Signed(x) ==
  LET v == x % CARD32_SIZE
  IN  IF 2 * v >= CARD32_SIZE THEN v - CARD32_SIZE ELSE v
Unsigned(x) == x % CARD32_SIZE

(* A call in progress: TimerSet between its two locked sections, with the  *)
(* now it has read and what it will write, or a callback.                  *)
SetCall(t, e, d, n) ==
  [call |-> "set", timer |-> t, expires |-> e, delta |-> d, now |-> n]
Callback(t, rearm, forced) ==
  [call |-> "callback", timer |-> t, rearm |-> rearm, forced |-> forced]

Pending(t) == t \in Range(timers)
InCall(t) == \E i \in 1..Len(calls) : calls[i].timer = t
InSet(t) ==
  \E i \in 1..Len(calls) : calls[i].timer = t /\ calls[i].call = "set"
InCallback == \E i \in 1..Len(calls) : calls[i].call = "callback"

Init ==
  /\ timers = << >>
  /\ allocated = InputTimers
  /\ expires = [t \in Timer |-> 0]
  /\ delta = [t \in Timer |-> 0]
  /\ clock = 0
  /\ mpc = "dispatch"
  /\ calls = << >>
  /\ seen = NoTimer
  /\ timeout = 0
  /\ now = 0
  /\ kicked = FALSE
  /\ left = [t \in Timer |-> 0]
  /\ spent = 0
  /\ rewinds = 0
-----------------------------------------------------------------------------
(* The calls                                                               *)

(* The main thread is in code of its own: a request, an event or a         *)
(* callback.                                                               *)
MainRuns ==
  IF calls = << >> THEN mpc = "dispatch" ELSE Head(calls).call = "callback"

MayCall == MainRuns /\ Len(calls) < MaxDepth

(* Variant: new timers go behind the list.                                 *)
SortedInAtEnd(ts, t, e) == Append(ts, t)

(* "Sort into list": before the first timer that expires later.            *)
SortedIn(ts, t, e) ==
  LET later == {i \in 1..Len(ts) : Signed(expires[ts[i]] - e) > 0}
      at    == IF later = {} THEN Len(ts) + 1
               ELSE CHOOSE i \in later : \A j \in later : i <= j
  IN  InsertAt(ts, at, t)

(* xorg_list_del, which does nothing to a timer that is not in the list.   *)
Unlinked(t) == Keep(timers, {i \in DOMAIN timers : timers[i] # t})

(* The second half of TimerSet: write the fields, sort the timer in, and   *)
(* call it back at once (DoTimer takes it out again) when its time has     *)
(* come.  until is the real time to the moment the timer is set to.        *)
Insert(t, e, d, n, until, ts, rest) ==
  /\ expires' = [expires EXCEPT ![t] = e]
  /\ delta' = [delta EXCEPT ![t] = d]
  /\ \/ /\ Signed(e - n) > 0
        /\ timers' = SortedIn(ts, t, e)
        /\ left' = [left EXCEPT ![t] = until]
        /\ calls' = rest
     \/ /\ Signed(e - n) <= 0
        /\ timers' = ts
        /\ left' = [left EXCEPT ![t] = 0]
        /\ calls' = <<Callback(t, TRUE, FALSE)>> \o rest

(* TimerSet(timer, flags, millis, ...) up to the first input_unlock, on    *)
(* the main thread.  A timer that is not allocated is passed as NULL.  A   *)
(* callback called for TimerForceOld does not set its own timer again      *)
(* (nothing in the server passes that flag).                               *)
TimerSet(t, e, d, until, force) ==
  /\ MayCall
  /\ t \notin InputTimers
  /\ ~InSet(t)
  /\ allocated' = allocated \cup {t}
  /\ timers' = Unlinked(t)
  /\ left' = [left EXCEPT ![t] = until]
  /\ LET set == <<SetCall(t, e, d, clock)>> \o calls
     IN  calls' = IF force /\ Pending(t)
                    THEN <<Callback(t, FALSE, TRUE)>> \o set ELSE set
  /\ UNCHANGED <<expires, delta, clock, mpc, locals, kicked, spent, rewinds>>

TimerSetRelative(t, m, force) ==
  TimerSet(t, Unsigned(clock + m), m, m, force)

TimerSetAbsolute(t, offset, force) ==
  /\ Unsigned(clock + offset) # 0
  /\ TimerSet(t, Unsigned(clock + offset), Unsigned(offset), offset, force)

(* With millis = 0 TimerSet only stops the timer, or allocates it.         *)
TimerSetZero(t) ==
  /\ MayCall
  /\ t \notin InputTimers
  /\ ~InSet(t)
  /\ allocated' = allocated \cup {t}
  /\ timers' = Unlinked(t)
  /\ left' = [left EXCEPT ![t] = 0]
  /\ UNCHANGED <<expires, delta, clock, mpc, calls, locals, kicked, spent,
                 rewinds>>

TimerSetInserts ==
  /\ calls # << >>
  /\ Head(calls).call = "set"
  /\ LET c == Head(calls)
     IN  Insert(c.timer, c.expires, c.delta, c.now, left[c.timer], timers,
                Tail(calls))
  /\ UNCHANGED <<allocated, clock, mpc, locals, kicked, spent, rewinds>>

TimerForce(t) ==
  /\ MayCall
  /\ t \in allocated
  /\ Pending(t)
  /\ timers' = Unlinked(t)
  /\ calls' = <<Callback(t, TRUE, TRUE)>> \o calls
  /\ left' = [left EXCEPT ![t] = 0]
  /\ UNCHANGED <<allocated, expires, delta, clock, mpc, locals, kicked, spent,
                 rewinds>>

TimerCancel(t) ==
  /\ MayCall
  /\ t \in allocated
  /\ Pending(t)
  /\ timers' = Unlinked(t)
  /\ left' = [left EXCEPT ![t] = 0]
  /\ UNCHANGED <<allocated, expires, delta, clock, mpc, calls, locals, kicked,
                 spent, rewinds>>

(* TimerCancel and free.  A timer that is being set or called back is not  *)
(* freed.                                                                  *)
TimerFree(t) ==
  /\ MayCall
  /\ t \in allocated \ InputTimers
  /\ ~InCall(t)
  /\ timers' = Unlinked(t)
  /\ allocated' = allocated \ {t}
  /\ left' = [left EXCEPT ![t] = 0]
  /\ UNCHANGED <<expires, delta, clock, mpc, calls, locals, kicked, spent,
                 rewinds>>

(* A callback returns.  DoTimer sets the timer again when the result is    *)
(* not 0, without giving up the lock; TimerSet ignores the result.         *)
CallbackReturns(m) ==
  /\ calls # << >>
  /\ Head(calls).call = "callback"
  /\ LET t == Head(calls).timer
     IN  \/ /\ Head(calls).rearm /\ m # 0
            /\ Insert(t, Unsigned(clock + m), m, clock, m, Unlinked(t),
                      Tail(calls))
            /\ UNCHANGED allocated
         \/ /\ ~Head(calls).rearm \/ m = 0
            /\ calls' = Tail(calls)
            /\ UNCHANGED <<list, left>>
  /\ UNCHANGED <<clock, mpc, locals, kicked, spent, rewinds>>
-----------------------------------------------------------------------------
(* WaitForSomething                                                        *)

Dispatched ==
  /\ mpc = "dispatch"
  /\ calls = << >>
  /\ mpc' = "check"
  /\ UNCHANGED <<list, clock, calls, locals, kicked, observed>>

(* check_timers: look at the first timer, without the lock.                *)
CheckTimers ==
  /\ mpc = "check"
  /\ \/ /\ timers = << >>
        /\ mpc' = "poll"
        /\ timeout' = -1
        /\ UNCHANGED <<seen, now>>
     \/ /\ timers # << >>
        /\ timeout' = Signed(expires[Head(timers)] - clock)
        /\ \/ /\ timeout' <= 0
              /\ mpc' = "DoTimers"
              /\ now' = clock
              /\ UNCHANGED seen
           \/ /\ timeout' > 0
              /\ mpc' = "sane"
              /\ seen' = Head(timers)
              /\ UNCHANGED now
  /\ UNCHANGED <<list, clock, calls, kicked, observed>>

(* Variant: the timeout is believed.                                       *)
CheckSaneAlways ==
  /\ mpc = "sane"
  /\ mpc' = "poll"
  /\ seen' = NoTimer
  /\ UNCHANGED <<list, timeout, now, clock, calls, kicked, observed>>

(* "Make sure the timeout is sane": the comparison with the delta of that  *)
(* timer is unsigned, and the timer may have been set anew meanwhile.      *)
CheckSane ==
  /\ mpc = "sane"
  /\ mpc' = IF timeout < Unsigned(delta[seen] + SLACK) THEN "poll"
                                                       ELSE "CheckAllTimers"
  /\ seen' = NoTimer
  /\ UNCHANGED <<list, timeout, now, clock, calls, kicked, observed>>

(* DoTimer, up to the callback.                                            *)
DoTimer(t) ==
  /\ timers' = Unlinked(t)
  /\ left' = [left EXCEPT ![t] = 0]
  /\ calls' = <<Callback(t, TRUE, FALSE)>>
  /\ UNCHANGED <<mpc, timeout, now>>

LoopEnds ==
  /\ mpc' = "poll"
  /\ timeout' = 0
  /\ now' = 0
  /\ UNCHANGED <<timers, calls, left>>

(* Variant: the times are compared as CARD32s instead of by difference.    *)
FirstIsDueUnsigned == timers # << >> /\ expires[Head(timers)] <= now

FirstIsDue == timers # << >> /\ Signed(expires[Head(timers)] - now) <= 0

(* One iteration of DoTimers(now).                                         *)
DoTimers ==
  /\ mpc = "DoTimers"
  /\ calls = << >>
  /\ \/ FirstIsDue /\ DoTimer(Head(timers))
     \/ ~FirstIsDue /\ LoopEnds
  /\ UNCHANGED <<allocated, expires, delta, clock, seen, kicked, spent,
                 rewinds>>

(* "time has rewound": a timer is further away than it was set to.         *)
Rewound(t) == Unsigned(expires[t] - clock) > Unsigned(delta[t] + SLACK)

(* One pass of CheckAllTimers, to the first such timer.                    *)
CheckAllTimers ==
  /\ mpc = "CheckAllTimers"
  /\ calls = << >>
  /\ LET hits == {i \in 1..Len(timers) : Rewound(timers[i])}
     IN  \/ /\ hits # {}
            /\ DoTimer(timers[CHOOSE i \in hits : \A j \in hits : i <= j])
         \/ /\ hits = {}
            /\ LoopEnds
  /\ UNCHANGED <<allocated, expires, delta, clock, seen, kicked, spent,
                 rewinds>>

(* Variant: a poll whose time is up is taken for an interrupted one and    *)
(* resumed.                                                                *)
PollReturnsKicked ==
  /\ mpc = "poll"
  /\ kicked
  /\ kicked' = FALSE
  /\ timeout' = 0
  /\ spent' = 0
  /\ mpc' \in {"dispatch", "check"}
  /\ UNCHANGED <<list, seen, now, clock, calls, left, rewinds>>

(* ospoll_wait returns: the pipe is readable, a client is, or the time is  *)
(* up.  Without anything for Dispatch, WaitForSomething goes round again.  *)
PollReturns ==
  /\ mpc = "poll"
  /\ timeout = 0 \/ kicked
  /\ kicked' = FALSE
  /\ timeout' = 0
  /\ spent' = 0
  /\ mpc' \in {"dispatch", "check"}
  /\ UNCHANGED <<list, seen, now, clock, calls, left, rewinds>>

PollReturnsClient ==
  /\ mpc = "poll"
  /\ timeout # 0
  /\ ~kicked
  /\ timeout' = 0
  /\ spent' = 0
  /\ mpc' = "dispatch"
  /\ UNCHANGED <<list, seen, now, clock, calls, kicked, left, rewinds>>
-----------------------------------------------------------------------------
(* The input thread and the clock                                          *)

LockFree == ~InCallback /\ mpc \notin {"DoTimers", "CheckAllTimers"}

(* Variant: the input thread does not wake the main thread.                *)
InputTimerSetSilent(t, m) ==
  /\ t \in InputTimers
  /\ 2 * m < CARD32_SIZE
  /\ LockFree
  /\ timers' = SortedIn(Unlinked(t), t, Unsigned(clock + m))
  /\ expires' = [expires EXCEPT ![t] = Unsigned(clock + m)]
  /\ delta' = [delta EXCEPT ![t] = m]
  /\ left' = [left EXCEPT ![t] = m]
  /\ UNCHANGED <<allocated, clock, mpc, calls, locals, kicked, spent, rewinds>>

(* A driver sets a timer in its readInputProc: all of TimerSet under       *)
(* input_lock, which InputReady holds.  The main thread is kicked after.   *)
InputTimerSet(t, m) ==
  /\ t \in InputTimers
  /\ 2 * m < CARD32_SIZE
  /\ LockFree
  /\ timers' = SortedIn(Unlinked(t), t, Unsigned(clock + m))
  /\ expires' = [expires EXCEPT ![t] = Unsigned(clock + m)]
  /\ delta' = [delta EXCEPT ![t] = m]
  /\ left' = [left EXCEPT ![t] = m]
  /\ kicked' = TRUE
  /\ UNCHANGED <<allocated, clock, mpc, calls, locals, spent, rewinds>>

Counted(t) == Pending(t) \/ InSet(t)

Tick ==
  /\ \A t \in Timer : Counted(t) => left[t] > -MaxLate
  /\ mpc = "DoTimers" => Unsigned(clock - now) < MaxLate
  /\ mpc = "sane" => spent < MaxLate
  /\ clock' = Unsigned(clock + 1)
  /\ left' = [t \in Timer |-> IF Counted(t) THEN left[t] - 1 ELSE left[t]]
  /\ timeout' = IF mpc = "poll" /\ timeout > 0 THEN timeout - 1 ELSE timeout
  /\ spent' = IF mpc = "sane" THEN spent + 1 ELSE spent
  /\ UNCHANGED <<list, mpc, calls, seen, now, kicked, rewinds>>

ClockRewinds(r) ==
  /\ rewinds < MaxRewinds
  /\ rewinds' = rewinds + 1
  /\ clock' = Unsigned(clock - r)
  /\ UNCHANGED <<list, mpc, calls, locals, kicked, left, spent>>

Calls ==
  \E t \in Timer :
    \/ \E force \in BOOLEAN :
         \/ \E m \in Delays : TimerSetRelative(t, m, force)
         \/ \E o \in Offsets : TimerSetAbsolute(t, o, force)
    \/ TimerSetZero(t)
    \/ TimerForce(t)
    \/ TimerCancel(t)
    \/ TimerFree(t)

MainStep ==
  \/ TimerSetInserts
  \/ \E m \in Delays \cup {0} : CallbackReturns(m)
  \/ Dispatched
  \/ CheckTimers
  \/ CheckSane
  \/ DoTimers
  \/ CheckAllTimers
  \/ PollReturns

Next ==
  \/ MainStep
  \/ Calls
  \/ PollReturnsClient
  \/ \E t \in InputTimers, m \in Delays : InputTimerSet(t, m)
  \/ Tick
  \/ \E r \in Rewinds : ClockRewinds(r)

Spec == Init /\ [][Next]_vars

(* The main thread is scheduled and gets from one call to the next, its    *)
(* callbacks and the requests it dispatches end (a client is only served   *)
(* for its time slice), a poll returns when its time is up or its pipe     *)
(* readable, and time passes.                                              *)
CallsEnd == \E m \in Delays \cup {0} : CallbackReturns(m) /\ calls' = << >>

FairSpec ==
  /\ Spec
  /\ WF_vars(MainStep)
  /\ SF_vars(Dispatched)
  /\ SF_vars(CallsEnd)
  /\ WF_vars(Tick)
-----------------------------------------------------------------------------
(* Properties                                                              *)

Calling ==
  [call : {"set"}, timer : Timer, expires : CARD32, delta : CARD32,
   now : CARD32]
    \cup
  [call : {"callback"}, timer : Timer, rearm : BOOLEAN, forced : BOOLEAN]

(* The timers are well formed, and the list holds no timer twice, as       *)
(* include/list.h requires, and no timer that TimerFree has freed.         *)
TypeOK ==
  /\ timers \in Seq(allocated)
  /\ Cardinality(Range(timers)) = Len(timers)
  /\ allocated \subseteq Timer
  /\ expires \in [Timer -> CARD32]
  /\ delta \in [Timer -> CARD32]
  /\ clock \in CARD32
  /\ mpc \in {"dispatch", "check", "sane", "DoTimers", "CheckAllTimers",
              "poll"}
  /\ calls \in Seq(Calling)
  /\ seen \in Timer \cup {NoTimer}
  /\ timeout \in -CARD32_SIZE..CARD32_SIZE
  /\ now \in CARD32
  /\ kicked \in BOOLEAN
  /\ left \in [Timer -> -MaxLate..CARD32_SIZE]
  /\ spent \in 0..MaxLate
  /\ rewinds \in 0..MaxRewinds

(* The list is in the order the timers are due in real time, across the    *)
(* wrap of CARD32 and whatever the callbacks do while it is being run: the *)
(* first timer, the only one check_timers and DoTimers look at, is one     *)
(* that is due first.  And no timer is twice in the list, or freed.        *)
TimersSorted ==
  /\ TypeOK
  /\ \A i, j \in 1..Len(timers) : i < j => left[timers[i]] <= left[timers[j]]

(* No timer is called back before the time it was set to, unless it is     *)
(* forced: not when expires has wrapped around, and not when the input     *)
(* thread sets the timer that check_timers is looking at without the lock. *)
CalledAtOnce ==
  /\ calls' # calls
  /\ Len(calls') >= Len(calls)
  /\ Head(calls').call = "callback"
  /\ ~Head(calls').forced

DueWhenCalled == CalledAtOnce => left[Head(calls').timer] <= 0

NeverEarly == [][DueWhenCalled]_vars

(* The poll of WaitForSomething is over by the time any timer is due (but  *)
(* for the time spent before it began), or the input thread, which has set *)
(* an earlier one, has written to the pipe that ends it.                   *)
PollWakesInTime ==
  mpc = "poll" /\ ~kicked =>
    \A t \in Range(timers) :
      timeout # -1 /\ (timeout = 0 \/ timeout <= left[t] + spent)

(* check_timers, "Make sure the timeout is sane": with a clock that is set *)
(* back, the main thread never sleeps longer than the first timer's delta  *)
(* and the slack.                                                          *)
PollIsSane ==
  mpc = "poll" /\ ~kicked /\ timers # << >> =>
    timeout <= delta[Head(timers)] + SLACK

(* A timer that is due is called back, set anew or stopped, however the    *)
(* requests, the input thread and the other timers keep the server busy.   *)
TimersRun ==
  \A t \in Timer :
    (Pending(t) /\ left[t] <= 0) ~> (~Pending(t) \/ left[t] > 0)
=============================================================================
