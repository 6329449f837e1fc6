----------------------------- MODULE InputQueue -----------------------------
(***************************************************************************)
(* The machine independent event queue, mi/mieq.c: a ring of event slots   *)
(* filled by mieqEnqueue, from the input thread and from the main thread,  *)
(* and emptied by mieqProcessInputEvents on the main thread.               *)
(*                                                                         *)
(* A section of code run under input_lock is one step: the mutex is        *)
(* recursive, nobody blocks while holding it here, and the state is only   *)
(* observed by others between two sections.  mieqProcessInputEvents gives  *)
(* the lock up while it processes the event it copied out of the ring, so  *)
(* the input thread enqueues, and grows the ring, between its iterations.  *)
(*                                                                         *)
(* Abstracted: the body of an event is its type (a motion or anything      *)
(* else), the device it originates from and its time stamp.                *)
(***************************************************************************)
EXTENDS Integers, Sequences

CONSTANTS
  Device,              \* devices that originate events
  NoDevice,            \* lastMotion when the last event was no motion
  NoEvent,             \* no event
  QUEUE_INITIAL_SIZE,  \* size the ring is created with
  QueueSizes,          \* sizes memory allows the ring to take
  UINT_MAX,            \* largest value of the unsigned int oldtail
  GrowFailure,         \* ways an allowed growth may still fail, a subset of
                       \* {"calloc", "InitEventList"}
  SIZE_MAX,            \* largest value of the size_t dropped
  MaxTime              \* bound: time stamps go up to MaxTime

EventType == {"Motion", "Other"}
Event == [type : EventType, dev : Device, time : 0..MaxTime]

(* Ring sizes are at least two (one slot is always left free), and an      *)
(* unsigned decrement of index 0 lands on the last slot of the ring: every *)
(* size divides 2^32, "initial size multiplied by a power of 2".           *)
ASSUME SizesAssumption ==
  /\ QueueSizes \subseteq Nat \ {0, 1}
  /\ QUEUE_INITIAL_SIZE \in QueueSizes
  /\ \A n \in QueueSizes : QUEUE_INITIAL_SIZE <= n
  /\ UINT_MAX \in Nat
  /\ \A n \in QueueSizes : UINT_MAX % n = n - 1

ASSUME BoundsAssumption ==
  /\ MaxTime \in Nat
  /\ SIZE_MAX \in Nat
  /\ GrowFailure \subseteq {"calloc", "InitEventList"}

ASSUME NamesAssumption ==
  /\ NoDevice \notin Device
  /\ NoEvent \notin Event

VARIABLES
  head, tail,     \* miEventQueue.head, .tail
  nevents,        \* miEventQueue.nevents
  events,         \* miEventQueue.events: slots 0..nevents-1
  lastMotion,     \* miEventQueue.lastMotion
  lastEventTime,  \* miEventQueue.lastEventTime
  dropped,        \* miEventQueue.dropped
  current,        \* the local event of mieqProcessInputEvents
  made,           \* event the main thread generated and has not yet enqueued
  slot,           \* slot an enqueue without the lock has chosen, or -1
  now             \* GetTimeInMillis

ring == <<head, tail, nevents, events, lastMotion, lastEventTime>>
vars == <<ring, dropped, current, made, slot, now>>

(* A slot: whether the InternalEvent it points to is still allocated, and  *)
(* the event last copied into it.                                          *)
Slot == [live : BOOLEAN, ev : Event \cup {NoEvent}]
FreshSlot == [live |-> TRUE, ev |-> NoEvent]

Slots(n) == 0..(n - 1)

(* Variant: the index is not wrapped.                                      *)
NextSlotUnwrapped(i, n) == i + 1

NextSlot(i, n) == (i + 1) % n

(* (oldtail - 1) % nevents on an unsigned int: 0 - 1 is UINT_MAX.          *)
PrevSlot(i, n) == (IF i = 0 THEN UINT_MAX ELSE i - 1) % n

mieqNumEnqueued ==
  IF tail - head + nevents >= nevents THEN tail - head
                                      ELSE tail - head + nevents

Init ==
  /\ head = 0
  /\ tail = 0
  /\ nevents = QUEUE_INITIAL_SIZE
  /\ events = [i \in Slots(QUEUE_INITIAL_SIZE) |-> FreshSlot]
  /\ lastMotion = NoDevice
  /\ lastEventTime = 0
  /\ dropped = 0
  /\ current = NoEvent
  /\ made = NoEvent
  /\ slot = -1
  /\ now = 0
-----------------------------------------------------------------------------
(* mieqEnqueue                                                             *)

MotionOf(e) == IF e.type = "Motion" THEN e.dev ELSE NoDevice

(* Motion compression: the event overwrites the last slot of the ring.     *)
Merges(e) ==
  /\ MotionOf(e) # NoDevice
  /\ MotionOf(e) = lastMotion
  /\ tail # head

Full == mieqNumEnqueued + 1 = nevents

(* Variant: the slots are copied from index 0 instead of from head.        *)
GrownFromZero(n) ==
  [i \in Slots(n) |-> IF i < nevents THEN events[i] ELSE FreshSlot]

(* The ring after mieqGrowQueue(n): the old slots, oldest first, then the  *)
(* new ones.                                                               *)
Grown(n) ==
  [i \in Slots(n) |-> IF i < nevents THEN events[(head + i) % nevents]
                                     ELSE FreshSlot]

(* Variant: lastMotion is only written for motion events.                  *)
StoreAtKeepsMotion(evs, n, i, e) ==
  /\ events' = [evs EXCEPT ![i].ev = e]
  /\ nevents' = n
  /\ tail' = NextSlot(i, n)
  /\ lastEventTime' = e.time
  /\ lastMotion' = IF e.type = "Motion" THEN e.dev ELSE lastMotion

(* The end of mieqEnqueue: copy the event into slot i of ring evs with n   *)
(* slots.  The time correction is applied to the caller's event after it   *)
(* was copied, so the stored time is the event's own.                      *)
StoreAt(evs, n, i, e) ==
  /\ events' = [evs EXCEPT ![i].ev = e]
  /\ nevents' = n
  /\ tail' = NextSlot(i, n)
  /\ lastEventTime' = e.time
  /\ lastMotion' = MotionOf(e)

EnqueueMerge(e) ==
  /\ Merges(e)
  /\ StoreAt(events, nevents, PrevSlot(tail, nevents), e)
  /\ UNCHANGED <<head, dropped>>

EnqueueAppend(e) ==
  /\ ~Merges(e)
  /\ ~Full
  /\ StoreAt(events, nevents, tail, e)
  /\ UNCHANGED <<head, dropped>>

(* Variant: the event goes into the first new slot instead of behind the   *)
(* events already queued.                                                  *)
EnqueueGrowGap(e) ==
  /\ ~Merges(e)
  /\ Full
  /\ 2 * nevents \in QueueSizes
  /\ head' = 0
  /\ StoreAt(Grown(2 * nevents), 2 * nevents, nevents, e)
  /\ UNCHANGED dropped

EnqueueGrow(e) ==
  /\ ~Merges(e)
  /\ Full
  /\ 2 * nevents \in QueueSizes
  /\ head' = 0
  /\ StoreAt(Grown(2 * nevents), 2 * nevents, mieqNumEnqueued, e)
  /\ UNCHANGED dropped

(* The growth fails.  When calloc refuses the new array nothing changes;   *)
(* when InitEventList refuses one of the new events, the cleanup frees the *)
(* events of new_events[0..i-1], which the old slots share.                *)
EnqueueToss(e) ==
  /\ ~Merges(e)
  /\ Full
  /\ \/ /\ 2 * nevents \notin QueueSizes \/ "calloc" \in GrowFailure
        /\ UNCHANGED events
     \/ /\ 2 * nevents \in QueueSizes
        /\ "InitEventList" \in GrowFailure
        /\ events' = [i \in Slots(nevents) |-> [events[i] EXCEPT !.live = FALSE]]
  /\ dropped' = (dropped + 1) % (SIZE_MAX + 1)
  /\ UNCHANGED <<head, tail, nevents, lastMotion, lastEventTime>>

mieqEnqueue(e) ==
  \/ EnqueueMerge(e)
  \/ EnqueueAppend(e)
  \/ EnqueueGrow(e)
  \/ EnqueueToss(e)
-----------------------------------------------------------------------------
(* The threads                                                             *)

(* Input thread: a driver's readInputProc, called under input_lock by      *)
(* InputReady, generates an event stamped now and enqueues it.             *)
ReadInput(d, t) ==
  /\ mieqEnqueue([type |-> t, dev |-> d, time |-> now])
  /\ UNCHANGED <<current, made, slot, now>>

(* Main thread: an event is generated, with its time stamp, before the     *)
(* lock is taken (miPointerMove, BarrierFreeBarrier).                      *)
MainGenerate(d, t) ==
  /\ made = NoEvent
  /\ made' = [type |-> t, dev |-> d, time |-> now]
  /\ UNCHANGED <<ring, dropped, current, slot, now>>

(* Main thread: enqueue it under input_lock (miPointerMove).               *)
MainEnqueue ==
  /\ made # NoEvent
  /\ slot = -1
  /\ mieqEnqueue(made)
  /\ made' = NoEvent
  /\ UNCHANGED <<current, slot, now>>

(* The top of the while loop of mieqProcessInputEvents: copy the oldest    *)
(* event out and release the lock, or leave.                               *)
Dequeue ==
  \/ /\ head # tail
     /\ current' = events[head].ev
     /\ head' = NextSlot(head, nevents)
     /\ UNCHANGED <<tail, nevents, events, lastMotion, lastEventTime>>
  \/ /\ head = tail
     /\ current' = NoEvent
     /\ UNCHANGED ring

(* mieqProcessInputEvents, from input_lock to the first input_unlock.      *)
(* Called when InputCheckPending, or when a device is being disabled.      *)
ProcessBegin ==
  /\ current = NoEvent
  /\ made = NoEvent
  /\ Dequeue
  /\ dropped' = 0
  /\ UNCHANGED <<made, slot, now>>

(* The event in hand is processed; lock again and go round the loop.       *)
ProcessNext ==
  /\ current # NoEvent
  /\ made = NoEvent
  /\ Dequeue
  /\ UNCHANGED <<dropped, made, slot, now>>

Tick ==
  /\ now < MaxTime
  /\ now' = now + 1
  /\ UNCHANGED <<ring, dropped, current, made, slot>>

Next ==
  \/ \E d \in Device, t \in EventType : ReadInput(d, t) \/ MainGenerate(d, t)
  \/ MainEnqueue
  \/ ProcessBegin
  \/ ProcessNext
  \/ Tick

Spec == Init /\ [][Next]_vars
-----------------------------------------------------------------------------
(* BarrierFreeBarrier and remove_master_func call mieqEnqueue on the main  *)
(* thread without input_lock: what they read of the ring may have changed  *)
(* when they write.  The slot is chosen in one step and filled in another. *)
BarrierReadsTail ==
  /\ made # NoEvent
  /\ made.type = "Other"
  /\ slot = -1
  /\ ~Full
  /\ slot' = tail
  /\ UNCHANGED <<ring, dropped, current, made, now>>

BarrierStores ==
  /\ slot # -1
  /\ slot \in Slots(nevents)
  /\ StoreAt(events, nevents, slot, made)
  /\ made' = NoEvent
  /\ slot' = -1
  /\ UNCHANGED <<head, dropped, current, now>>

BarrierNext == Next \/ BarrierReadsTail \/ BarrierStores

BarrierSpec == Init /\ [][BarrierNext]_vars
-----------------------------------------------------------------------------
(* Properties                                                              *)

RingTypeOK ==
  /\ nevents \in QueueSizes
  /\ head \in Slots(nevents)
  /\ tail \in Slots(nevents)
  /\ events \in [Slots(nevents) -> Slot]
  /\ lastMotion \in Device \cup {NoDevice}
  /\ lastEventTime \in 0..MaxTime
  /\ dropped \in 0..SIZE_MAX

(* The state of the queue and of its two threads is well formed: head and  *)
(* tail of miEventQueue index slots of the array as it is now allocated.   *)
TypeOK ==
  /\ RingTypeOK
  /\ current \in Event \cup {NoEvent}
  /\ made \in Event \cup {NoEvent}
  /\ slot \in {-1} \cup Nat
  /\ now \in 0..MaxTime

(* The events in the ring, oldest first.                                   *)
QueuedEvent(i) == events[(head + i - 1) % nevents].ev
Contents == [i \in 1..mieqNumEnqueued |-> QueuedEvent(i)]

Fifo == INSTANCE InputFifo WITH queue <- Contents

(* Events come out of the queue in the order they went in, whatever the    *)
(* ring does meanwhile (wrapping, growing while the main thread is between *)
(* two iterations, merging motions, tossing at the limit): mieqEnqueue and *)
(* mieqProcessInputEvents implement the queue of module InputFifo.         *)
FifoOrder == Fifo!Spec

(* A motion is only ever merged into a motion of its own device:           *)
(* miEventQueue.lastMotion describes the newest event in the ring, also    *)
(* after the ring has grown or an event has been tossed.                   *)
LastMotionIsNewest ==
  head # tail /\ lastMotion # NoDevice =>
    LET newest == events[PrevSlot(tail, nevents)].ev
    IN  newest # NoEvent /\ newest.type = "Motion" /\ newest.dev = lastMotion

(* Every event between head and tail is one that was enqueued, in a slot   *)
(* whose InternalEvent is allocated: mieqProcessInputEvents never copies   *)
(* an event that was not written or was freed.                             *)
QueuedSlotsValid ==
  \A i \in 1..mieqNumEnqueued :
    LET s == events[(head + i - 1) % nevents]
    IN  s.live /\ s.ev # NoEvent
=============================================================================
