------------------------------ MODULE Sleepers ------------------------------
(***************************************************************************)
(* Clients that wait inside a request: the sleep queue and the work queue  *)
(* of dix/dixutils.c, the delays of dix/sleepuntil.c, and those who use    *)
(* them: XTestFakeInput with a delay, the swap throttling and the waits of *)
(* Xext/dri2/dri2.c, and OpenFont from a font server in dix/dixfonts.c.    *)
(*                                                                         *)
(* All of this runs on the main thread, one round after the other: the     *)
(* work queue, the block handlers, the poll, the wakeup handlers and the   *)
(* events of the drivers and of the font server, and the requests of one   *)
(* client.  There is one DRI2 drawable.                                    *)
(***************************************************************************)
EXTENDS Integers, Sequences, FiniteSets, FiniteSetsExt, SequencesExt, Lists

CONSTANTS
  Clients,
  Requests,     \* the requests that each client makes
  Deaths,       \* in which state of its sleep a client may be closed down
  SbcOfOthers,  \* whether clients wait for the swaps of other clients
  None,
  UINT,         \* bound: the unsigned counts of sleepers are modulo UINT
  SwapLimit,    \* swap_limit of the drawable
  MaxTime,      \* bound: the time at which an instance ends
  MaxHandlers   \* bound: how often the handlers are registered

WakeType == {"SWAP", "MSC", "SBC"}
Request == {"FakeInput", "SwapBuffers", "GetBuffers", "WaitMSC", "WaitSBC",
            "OpenFont", "KillClient", "DestroyDrawable"}

ASSUME SleepersAssumption ==
  /\ Requests \in [Clients -> SUBSET Request]
  /\ Deaths \subseteq {"dri2", "signalledFont"}
  /\ SbcOfOthers \in BOOLEAN
  /\ None \notin Clients \cup Int
  /\ {UINT, SwapLimit, MaxHandlers} \subseteq Nat \ {0}
  /\ IsFiniteSet(Clients) /\ Cardinality(Clients) < UINT
  /\ MaxTime \in Nat

VARIABLES
  pc,            \* where the main thread is in its round
  serving,       \* the client whose requests are executed
  gone,          \* the clients that are closed down
  ignoreCount,
  sleepQueue,    \* the newest first
  workQueue,
  pending,       \* the delayed clients
  handlers,      \* how often the handlers of sleepuntil.c are registered
  now,
  timeout,       \* until when the poll may take
  blocked,       \* how many sleepers dri2.c believes it has to wake
  swaps,         \* the clients of the swaps that are pending, in order
  targetSbc,     \* how many swaps a WaitSBC still waits for, or None
  mscs           \* the clients for which the driver has scheduled an MSC wait

dri2Vars == <<blocked, swaps, targetSbc, mscs>>
queueVars == <<gone, ignoreCount, sleepQueue, workQueue>>
timeVars == <<pending, handlers, now, timeout>>
vars == <<pc, serving, queueVars, timeVars, dri2Vars>>

Never == MaxTime + 1

(* What a client sleeps for: a wakeup of dri2.c or a font.                 *)
Sleep(c, why) == [client |-> c, why |-> why]

Init ==
  /\ pc = "work" /\ serving = None
  /\ gone = {}
  /\ ignoreCount = [c \in Clients |-> 0]
  /\ sleepQueue = <<>> /\ workQueue = <<>> /\ pending = <<>>
  /\ handlers = 0 /\ now = 0 /\ timeout = Never
  /\ blocked = [t \in WakeType |-> 0]
  /\ swaps = <<>> /\ targetSbc = None /\ mscs = {}

---------------------------------------------------------------------------
(* The queues of a client, as a record that the functions below change.    *)
Queues == [ignore |-> ignoreCount, sleep |-> sleepQueue, work |-> workQueue]

(* The entries of a client in a queue.                                     *)
PlacesOf(c, list) == {i \in DOMAIN list : list[i].client = c}
Without(list, i) == Keep(list, DOMAIN list \ {i})

ClientIsAsleep(q, c) == PlacesOf(c, q.sleep) # {}

AttendClient(q, c) ==
  IF c \in gone THEN q ELSE [q EXCEPT !.ignore[c] = @ - 1]

(* ClientSleep.                                                            *)
ClientSleep(q, c, why) ==
  [q EXCEPT !.ignore[c] = @ + 1, !.sleep = <<Sleep(c, why)>> \o @]

(* ClientWakeup: the client's first entry is taken out of the queue.       *)
ClientWakeup(q, c) ==
  IF ~ClientIsAsleep(q, c) THEN q
  ELSE [AttendClient(q, c) EXCEPT !.sleep = Without(@, Min(PlacesOf(c, @)))]

(* ClientSignalAll for those who sleep for a wakeup, of one client or of   *)
(* all (None).  How many it queues is what dri2.c counts.                  *)
Signalled(q, c, why) ==
  Keep(q.sleep, {i \in DOMAIN q.sleep :
                   q.sleep[i].why = why /\ c \in {None, q.sleep[i].client}})

(* dixClientSignal: the client's first entry, whatever it sleeps for.      *)
ClientSignal(q, c) ==
  IF ~ClientIsAsleep(q, c) THEN q
  ELSE [q EXCEPT !.work = Append(@, q.sleep[Min(PlacesOf(c, q.sleep))])]

SetQueues(q) ==
  /\ ignoreCount' = q.ignore
  /\ sleepQueue' = q.sleep
  /\ workQueue' = q.work

---------------------------------------------------------------------------
(* ProcessWorkQueue calls the next function, which returns TRUE and is     *)
(* removed.                                                                *)
CallWork(c) ==
  /\ pc = "work"
  /\ workQueue # <<>>
  /\ workQueue[1].client = c
  /\ UNCHANGED <<pc, serving, gone, timeVars, dri2Vars>>

Called == [Queues EXCEPT !.work = Tail(@)]

(* dri2WakeClient wakes the client up; so does doOpenFont when it has      *)
(* finished the request, and frees the closure.                            *)
WorkWakes(c) == CallWork(c) /\ SetQueues(ClientWakeup(Called, c))

(* doOpenFont finds that the answer is not complete: the client stays      *)
(* asleep.                                                                 *)
WorkSuspends(c) ==
  CallWork(c) /\ workQueue[1].why = "font" /\ SetQueues(Called)

WorkDone ==
  /\ pc = "work"
  /\ workQueue = <<>>
  /\ pc' = "block"
  /\ UNCHANGED <<serving, queueVars, timeVars, dri2Vars>>

---------------------------------------------------------------------------
(* The delays that are over, in the list in the order of time: those       *)
(* before the first one that is LATER.                                     *)
Due == {i \in DOMAIN pending : \A j \in 1..i : pending[j].revive <= now}

(* FreeResource of these, with SertafiedDelete and ClientAwaken.           *)
FreeDue ==
  /\ pending' = Keep(pending, DOMAIN pending \ Due)
  /\ ignoreCount' = [c \in Clients |->
       ignoreCount[c] - Cardinality(Due \cap PlacesOf(c, pending))]

(* SertafiedBlockHandler.                                                  *)
BlockHandler ==
  /\ pc = "block"
  /\ pc' = "poll"
  /\ IF handlers = 0
     THEN timeout' = Never /\ UNCHANGED <<pending, ignoreCount>>
     ELSE /\ FreeDue
          /\ timeout' = IF Due # {} THEN now
                        ELSE IF pending = <<>> THEN Never
                        ELSE pending[1].revive
  /\ UNCHANGED <<serving, gone, sleepQueue, workQueue, handlers, now,
                 dri2Vars>>

(* SertafiedWakeupHandler, as often as it is registered.  When nobody is   *)
(* delayed each call marks the first registration as deleted, so that one  *)
(* is removed.                                                             *)
WakeupHandler ==
  /\ pc = "poll"
  /\ pc' = "events"
  /\ IF handlers = 0 THEN UNCHANGED <<pending, ignoreCount, handlers>>
     ELSE /\ FreeDue
          /\ handlers' = IF pending' = <<>> THEN handlers - 1 ELSE handlers
  /\ UNCHANGED <<serving, gone, sleepQueue, workQueue, now, timeout,
                 dri2Vars>>

(* The poll ends when its time is over, or sooner, for something to read.  *)
TimesOut == now >= timeout /\ WakeupHandler
WokenUp == now < timeout /\ WakeupHandler

Tick ==
  /\ now < MaxTime
  /\ pc = "poll" => now < timeout
  /\ now' = now + 1
  /\ UNCHANGED <<pc, serving, queueVars, pending, handlers, timeout,
                 dri2Vars>>

---------------------------------------------------------------------------
(* The state that a wakeup of dri2.c changes.                              *)
Dri2 == [q |-> Queues, blocked |-> blocked]

SetDri2(d) == SetQueues(d.q) /\ blocked' = d.blocked

(* dri2Sleep.                                                              *)
Dri2Sleep(d, c, t) ==
  [q |-> ClientSleep(d.q, c, t), blocked |-> [d.blocked EXCEPT ![t] = (@ + 1) % UINT]]

(* Variant: the count is set to 0.                                         *)
WakeAllResets(d, c, t) ==
  LET signalled == Signalled(d.q, c, t)
  IN  IF d.blocked[t] = 0 THEN d
      ELSE [q |-> [d.q EXCEPT !.work = @ \o signalled],
            blocked |-> [d.blocked EXCEPT ![t] = 0]]

(* dri2WakeAll: nobody is looked for when the count is 0.                  *)
WakeAll(d, c, t) ==
  LET signalled == Signalled(d.q, c, t)
  IN  IF d.blocked[t] = 0 THEN d
      ELSE [q |-> [d.q EXCEPT !.work = @ \o signalled],
            blocked |-> [d.blocked EXCEPT ![t] = (@ - Len(signalled)) % UINT]]

(* Variant: the throttled clients are woken up only if                     *)
(* nobody waits for the swap.                                              *)
SwapCompletedEither(c) ==
  LET target == IF targetSbc \in {None, 0} THEN targetSbc ELSE targetSbc - 1
      d == IF target = 0 /\ c # None THEN WakeAll(Dri2, c, "SBC") ELSE Dri2
  IN  [d |-> IF d.q # Queues THEN d ELSE WakeAll(d, None, "SWAP"),
       target |-> IF d.q # Queues THEN None ELSE target]

(* DRI2SwapComplete with DRI2WakeClient, for a swap of c, or of None if    *)
(* the client is gone: c is woken up if it waits for this swap, and        *)
(* everyone who is throttled.                                              *)
SwapCompleted(c) ==
  LET target == IF targetSbc \in {None, 0} THEN targetSbc ELSE targetSbc - 1
      d == IF target = 0 /\ c # None THEN WakeAll(Dri2, c, "SBC") ELSE Dri2
  IN  [d |-> WakeAll(d, None, "SWAP"),
       target |-> IF d.q # Queues THEN None ELSE target]

(* The driver reports that a swap is complete.                             *)
SwapComplete ==
  LET r == SwapCompleted(swaps[1])
  IN  /\ pc = "events"
      /\ swaps # <<>>
      /\ swaps' = Tail(swaps)
      /\ SetDri2(r.d)
      /\ targetSbc' = r.target
      /\ UNCHANGED <<pc, serving, gone, timeVars, mscs>>

(* The driver reports that the time of an MSC wait has come.               *)
WaitMSCComplete(c) ==
  /\ pc = "events"
  /\ c \in mscs
  /\ mscs' = mscs \ {c}
  /\ SetDri2(WakeAll(Dri2, c, "MSC"))
  /\ UNCHANGED <<pc, serving, gone, timeVars, swaps, targetSbc>>

(* The font server answers: the library signals the client, once for an    *)
(* answer.                                                                 *)
FontAnswer(c) ==
  /\ pc = "events"
  /\ Sleep(c, "font") \in Range(sleepQueue) \ Range(workQueue)
  /\ SetQueues(ClientSignal(Queues, c))
  /\ UNCHANGED <<pc, serving, gone, timeVars, dri2Vars>>

(* A client is chosen, also one that is ignored if its connection has      *)
(* ended, or none is ready.                                                *)
EventsDone ==
  /\ pc = "events"
  /\ \/ \E c \in Clients \ gone : serving' = c /\ pc' = "dispatch"
     \/ serving' = None /\ pc' = "work"
  /\ UNCHANGED <<queueVars, timeVars, dri2Vars>>

(* A client connects.                                                      *)
Connect(c) ==
  /\ pc = "events"
  /\ c \in gone
  /\ gone' = gone \ {c}
  /\ ignoreCount' = [ignoreCount EXCEPT ![c] = 0]
  /\ UNCHANGED <<pc, serving, sleepQueue, workQueue, timeVars, dri2Vars>>

---------------------------------------------------------------------------
(* The time slice ends, in any case when the client is ignored.            *)
SliceEnds ==
  /\ pc = "dispatch"
  /\ pc' = "work"
  /\ serving' = None
  /\ UNCHANGED <<queueVars, timeVars, dri2Vars>>

(* The served client makes a request.                                      *)
Serves(c, request) ==
  /\ pc = "dispatch"
  /\ serving = c
  /\ ignoreCount[c] = 0
  /\ request \in Requests[c]
  /\ UNCHANGED <<pc, now, timeout>>

(* Variant: the client is put at the end.                                  *)
InsertLast(list, entry) == Append(list, entry)

(* The place in the list of ClientSleepUntil: before the first that is     *)
(* LATER.                                                                  *)
Insert(list, entry) ==
  LET later == {i \in DOMAIN list : list[i].revive > entry.revive}
  IN  IF later = {} THEN Append(list, entry)
      ELSE InsertAt(list, Min(later), entry)

(* XTestFakeInput with a delay: ClientSleepUntil.  The delay is added to   *)
(* currentTime, which may be behind the clock.  The handlers are           *)
(* registered by each call, since BlockHandlerRegistered is cleared first. *)
FakeInput(c, revive) ==
  /\ Serves(c, "FakeInput")
  /\ handlers < MaxHandlers
  /\ handlers' = handlers + 1
  /\ pending' = Insert(pending, [client |-> c, revive |-> revive])
  /\ ignoreCount' = [ignoreCount EXCEPT ![c] = @ + 1]
  /\ UNCHANGED <<serving, gone, sleepQueue, workQueue, dri2Vars>>

(* DRI2ThrottleClient: it is put to sleep and will make the request again. *)
Throttle(c) ==
  /\ Len(swaps) >= SwapLimit
  /\ SetDri2(Dri2Sleep(Dri2, c, "SWAP"))
  /\ UNCHANGED <<serving, gone, pending, handlers, swaps, targetSbc, mscs>>

GetBuffers(c) == Serves(c, "GetBuffers") /\ Throttle(c)

(* ProcDRI2SwapBuffers: the swap is scheduled, or done by a blit.          *)
SwapBuffers(c) ==
  LET r == SwapCompleted(c)
  IN  /\ Serves(c, "SwapBuffers")
      /\ \/ Throttle(c)
         \/ /\ Len(swaps) < SwapLimit
            /\ \/ /\ swaps' = Append(swaps, c)
                  /\ UNCHANGED <<ignoreCount, sleepQueue, workQueue, blocked,
                                 targetSbc>>
               \/ SetDri2(r.d) /\ targetSbc' = r.target /\ UNCHANGED swaps
            /\ UNCHANGED <<serving, gone, pending, handlers, mscs>>

(* DRI2WaitMSC: the driver schedules an event and blocks the client.       *)
WaitMSC(c) ==
  /\ Serves(c, "WaitMSC")
  /\ mscs' = mscs \cup {c}
  /\ SetDri2(Dri2Sleep(Dri2, c, "MSC"))
  /\ UNCHANGED <<serving, gone, pending, handlers, swaps, targetSbc>>

(* DRI2WaitSBC until n more swaps are complete, of those that are pending. *)
(* One client at a time.                                                   *)
WaitSBC(c, n) ==
  /\ Serves(c, "WaitSBC")
  /\ targetSbc = None
  /\ n <= Len(swaps)
  /\ SbcOfOthers \/ Range(swaps) = {c}
  /\ targetSbc' = n
  /\ SetDri2(Dri2Sleep(Dri2, c, "SBC"))
  /\ UNCHANGED <<serving, gone, pending, handlers, swaps, mscs>>

(* OpenFont: doOpenFont is Suspended, or finishes and wakes up the client, *)
(* which does not sleep.                                                   *)
OpenFont(c) ==
  /\ Serves(c, "OpenFont")
  /\ \/ SetQueues(ClientSleep(Queues, c, "font"))
     \/ SetQueues(ClientWakeup(Queues, c))
  /\ UNCHANGED <<serving, gone, pending, handlers, dri2Vars>>

(* DRI2DrawableGone, and a new drawable.  The driver's events for the old  *)
(* one come to nothing.                                                    *)
DestroyDrawable(c) ==
  LET d == WakeAll(WakeAll(WakeAll(Dri2, None, "SWAP"), None, "MSC"), None, "SBC")
  IN  /\ Serves(c, "DestroyDrawable")
      /\ SetQueues(d.q)
      /\ blocked' = [t \in WakeType |-> 0]
      /\ swaps' = <<>>
      /\ targetSbc' = None
      /\ mscs' = {}
      /\ UNCHANGED <<serving, gone, pending, handlers>>

---------------------------------------------------------------------------
(* CloseDownClient: a client that sleeps is signalled.                     *)
SignalGone(q, k) == ClientSignal(q, k)

(* The states of its sleep in which a client is closed down.               *)
DeathOf(k) ==
  (IF \E t \in WakeType : Sleep(k, t) \in Range(sleepQueue) THEN {"dri2"} ELSE {})
  \cup (IF Sleep(k, "font") \in Range(workQueue) THEN {"signalledFont"} ELSE {})

(* CloseDownClient of k by the request of c, or of c itself because its    *)
(* connection has ended.                                                   *)
CloseDownClient(c, k) ==
  /\ pc = "dispatch"
  /\ serving = c
  /\ k # c => ignoreCount[c] = 0 /\ "KillClient" \in Requests[c]
  /\ k \notin gone
  /\ DeathOf(k) \subseteq Deaths
  /\ gone' = gone \cup {k}
  /\ SetQueues(SignalGone(Queues, k))
  /\ pc' = "zombies"
  /\ UNCHANGED <<serving, timeVars, dri2Vars>>

(* The functions in the work queue for clients that have gone.             *)
Zombies == {i \in DOMAIN workQueue : workQueue[i].client \in gone}

(* Variant: the function stays in the queue.                               *)
ZombieCalledKept == ClientWakeup(Queues, workQueue[Min(Zombies)].client)

(* The first is called and removed; all of them end the client's sleep.    *)
ZombieCalled ==
  ClientWakeup([Queues EXCEPT !.work = Without(@, Min(Zombies))],
               workQueue[Min(Zombies)].client)

(* ProcessWorkQueueZombies.                                                *)
CallZombie ==
  /\ pc = "zombies"
  /\ Zombies # {}
  /\ SetQueues(ZombieCalled)
  /\ UNCHANGED <<pc, serving, gone, timeVars, dri2Vars>>

(* The rest of CloseDownClient: the client's delays are freed with its     *)
(* resources, its swaps and MSC waits lose their client.                   *)
ZombiesDone ==
  /\ pc = "zombies"
  /\ Zombies = {}
  /\ pc' = "dispatch"
  /\ serving' = IF serving \in gone THEN None ELSE serving
  /\ pending' = Keep(pending, {i \in DOMAIN pending : pending[i].client \notin gone})
  /\ swaps' = [i \in DOMAIN swaps |-> IF swaps[i] \in gone THEN None ELSE swaps[i]]
  /\ mscs' = mscs \ gone
  /\ UNCHANGED <<queueVars, handlers, now, timeout, blocked, targetSbc>>

ServedRequest ==
  \E c \in Clients :
    \/ \E revive \in 0..MaxTime : FakeInput(c, revive)
    \/ GetBuffers(c)
    \/ SwapBuffers(c)
    \/ WaitMSC(c)
    \/ \E n \in 1..SwapLimit : WaitSBC(c, n)
    \/ OpenFont(c)
    \/ DestroyDrawable(c)
    \/ \E k \in Clients : CloseDownClient(c, k)

Next ==
  \/ \E c \in Clients : WorkWakes(c) \/ WorkSuspends(c)
  \/ WorkDone
  \/ BlockHandler
  \/ TimesOut
  \/ WokenUp
  \/ SwapComplete
  \/ \E c \in Clients : WaitMSCComplete(c) \/ FontAnswer(c) \/ Connect(c)
  \/ EventsDone
  \/ SliceEnds
  \/ ServedRequest
  \/ CallZombie
  \/ ZombiesDone
  \/ Tick

Spec == Init /\ [][Next]_vars

Asleep(c) ==
  \/ \E s \in Range(sleepQueue) : s.client = c
  \/ \E e \in Range(pending) : e.client = c

(* The steps that the main thread takes by itself.                         *)
Round ==
  \/ WorkDone \/ BlockHandler \/ TimesOut \/ EventsDone
  \/ SliceEnds \/ CallZombie \/ ZombiesDone

(* What the drivers and the font server have to report.                    *)
Outstanding ==
  swaps # <<>> \/ mscs # {} \/ \E c \in Clients : Sleep(c, "font") \in Range(sleepQueue)

(* The main thread goes on with its round and time passes; the hardware    *)
(* and the font server report what is outstanding, however often the main  *)
(* thread is somewhere else, and a font is complete at some time.          *)
Fairness ==
  /\ WF_vars(Round)
  /\ WF_vars(Outstanding /\ WokenUp)
  /\ WF_vars(Tick)
  /\ SF_vars(SwapComplete)
  /\ \A c \in Clients : /\ SF_vars(WorkWakes(c))
                        /\ SF_vars(WaitMSCComplete(c))
                        /\ SF_vars(FontAnswer(c))

FairSpec == Spec /\ Fairness

---------------------------------------------------------------------------
SleepEntry == [client : Clients, why : WakeType \cup {"font"}]

TypeOK ==
  /\ pc \in {"work", "block", "poll", "events", "dispatch", "zombies"}
  /\ serving \in Clients \cup {None}
  /\ gone \subseteq Clients
  /\ ignoreCount \in [Clients -> Nat]
  /\ sleepQueue \in Seq(SleepEntry)
  /\ workQueue \in Seq(SleepEntry)
  /\ pending \in Seq([client : Clients, revive : 0..MaxTime])
  /\ handlers \in 0..MaxHandlers
  /\ now \in 0..MaxTime
  /\ timeout \in 0..Never
  /\ blocked \in [WakeType -> 0..(UINT - 1)]
  /\ swaps \in Seq(Clients \cup {None}) /\ Len(swaps) <= SwapLimit
  /\ targetSbc \in 0..SwapLimit \cup {None}
  /\ mscs \subseteq Clients

(* A client is ignored exactly as often as it is in a queue from which     *)
(* somebody will take it and attend to it again.                           *)
IgnoredAsOftenAsAsleep ==
  \A c \in Clients \ gone :
    ignoreCount[c] = Cardinality(PlacesOf(c, sleepQueue))
                     + Cardinality(PlacesOf(c, pending))

(* After a client is closed down, whatever it was waiting for, nothing in   *)
(* the queues refers to it any more: CloseDownClient frees the client.     *)
NoEntryOfTheGone ==
  pc # "zombies" =>
  \A c \in gone :
    /\ ~Asleep(c)
    /\ \A e \in Range(workQueue) : e.client # c

(* doOpenFont frees its closure when it wakes the client up: no call of it *)
(* for the same closure is left in the work queue then.                    *)
ClosuresAlive ==
  \A e \in Range(workQueue) : e.why = "font" => e \in Range(sleepQueue)

(* What CloseDownClient and doOpenFont free is in no queue any more.       *)
NothingOfTheFreed == NoEntryOfTheGone /\ ClosuresAlive

(* As long as somebody sleeps in dri2.c who has not been signalled, the    *)
(* count is not 0, as dri2WakeAll does not look for sleepers otherwise.    *)
SleepersCounted ==
  \A s \in Range(sleepQueue) :
    s.why \in WakeType /\ s \notin Range(workQueue) => blocked[s.why] # 0

(* All counts of sleepers agree with the queues: a client is neither left  *)
(* ignored nor attended to twice, and nobody is overlooked in dri2.c.      *)
SleepersAccounted == TypeOK /\ IgnoredAsOftenAsAsleep /\ SleepersCounted

(* The main thread's poll ends when the first delay is over, whoever was   *)
(* delayed last and however often the handlers are registered and removed. *)
PollInTime ==
  pc = "poll" => \A e \in Range(pending) : timeout <= e.revive

(* A client that sleeps is woken up or closed down.                        *)
SleepersWake == \A c \in Clients : Asleep(c) ~> ~Asleep(c)
=============================================================================
