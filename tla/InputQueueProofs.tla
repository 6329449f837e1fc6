-------------------------- MODULE InputQueueProofs --------------------------
(***************************************************************************)
(* Proofs about the event queue of mi/mieq.c, for every set of devices,    *)
(* every family of ring sizes and every bound.                             *)
(***************************************************************************)
EXTENDS InputQueue, SequenceTheorems, TLAPS
-----------------------------------------------------------------------------
(* Arithmetic of ring indexes.                                             *)

(* A slot of a ring with n slots is an index from 0 to n - 1.              *)
LEMMA SlotBounds ==
  ASSUME NEW n \in Nat, NEW i \in Slots(n)
  PROVE  i \in Int /\ 0 <= i /\ i < n
BY DEF Slots

(* The index after a slot, (i + 1) % nevents, with the modulo removed.     *)
LEMMA NextSlotCases ==
  ASSUME NEW n \in Nat \ {0, 1}, NEW i \in Slots(n)
  PROVE  NextSlot(i, n) = IF i = n - 1 THEN 0 ELSE i + 1
<1>1. CASE i = n - 1
  <2>1. n % n = 0
    BY Z3
  <2> QED  BY <1>1, <2>1 DEF NextSlot
<1>2. CASE i # n - 1
  <2>1. i + 1 \in 0..(n - 1)
    BY <1>2 DEF Slots
  <2>2. (i + 1) % n = i + 1
    BY <2>1, Z3
  <2> QED  BY <1>2, <2>2 DEF NextSlot
<1> QED  BY <1>1, <1>2

(* (oldtail - 1) % nevents is the slot before, also for oldtail = 0, where *)
(* the unsigned subtraction wraps around.                                  *)
LEMMA PrevSlotCases ==
  ASSUME NEW n \in QueueSizes, NEW i \in Slots(n)
  PROVE  PrevSlot(i, n) = IF i = 0 THEN n - 1 ELSE i - 1
<1>1. n \in Nat \ {0, 1} /\ UINT_MAX % n = n - 1
  BY SizesAssumption
<1>2. CASE i = 0
  BY <1>1, <1>2 DEF PrevSlot
<1>3. CASE i # 0
  <2>1. i - 1 \in 0..(n - 1)
    BY <1>1, <1>3 DEF Slots
  <2>2. (i - 1) % n = i - 1
    BY <1>1, <2>1, Z3
  <2> QED  BY <1>3, <2>2 DEF PrevSlot
<1> QED  BY <1>2, <1>3

(* An index of less than twice the size of the ring, without the modulo.   *)
LEMMA WrapCases ==
  ASSUME NEW n \in Nat \ {0, 1}, NEW x \in 0..(2 * n - 1)
  PROVE  x % n = IF x < n THEN x ELSE x - n
<1>1. CASE x < n
  BY <1>1, Z3
<1>2. CASE x >= n
  <2>1. (x - n) % n = x - n
    BY <1>2, Z3
  <2>2. x % n = (x - n) % n
    BY <1>2, Z3
  <2> QED BY <1>2, <2>1, <2>2
<1> QED  BY <1>1, <1>2

(* n_enqueued, without the modulo.                                         *)
LEMMA NumEnqueuedCases ==
  ASSUME RingTypeOK
  PROVE  /\ mieqNumEnqueued = IF head <= tail THEN tail - head
                                             ELSE tail - head + nevents
         /\ mieqNumEnqueued \in Slots(nevents)
         /\ nevents \in Nat \ {0, 1}
BY SizesAssumption DEF RingTypeOK, Slots, mieqNumEnqueued
-----------------------------------------------------------------------------
(* Type correctness                                                        *)

(* mieqGrowQueue builds an array of well formed slots.                     *)
LEMMA GrownType ==
  ASSUME RingTypeOK, NEW n \in QueueSizes, nevents <= n
  PROVE  Grown(n) \in [Slots(n) -> Slot]
<1> nevents \in Nat \ {0, 1} /\ n \in Nat
  BY SizesAssumption DEF RingTypeOK
<1>1. ASSUME NEW i \in Slots(n), i < nevents
      PROVE  events[(head + i) % nevents] \in Slot
  <2>1. head + i \in 0..(2 * nevents - 1)
    BY <1>1 DEF RingTypeOK, Slots
  <2>2. (head + i) % nevents \in Slots(nevents)
    BY <2>1, WrapCases DEF Slots
  <2> QED  BY <2>2 DEF RingTypeOK
<1>2. FreshSlot \in Slot
  BY DEF FreshSlot, Slot
<1> QED  BY <1>1, <1>2 DEF Grown

(* Copying an event into a slot and advancing tail keeps the ring well     *)
(* formed.                                                                 *)
LEMMA StoreAtType ==
  ASSUME NEW n \in QueueSizes, NEW i \in Slots(n), NEW e \in Event,
         NEW evs \in [Slots(n) -> Slot], StoreAt(evs, n, i, e),
         head' \in Slots(n), dropped' \in 0..SIZE_MAX
  PROVE  RingTypeOK'
<1>1. n \in Nat \ {0, 1}
  BY SizesAssumption
<1>2. tail' \in Slots(n)
  BY <1>1, NextSlotCases DEF StoreAt, Slots
<1>3. [evs EXCEPT ![i].ev = e] \in [Slots(n) -> Slot]
  BY DEF Slot
<1>4. lastMotion' \in Device \cup {NoDevice} /\ lastEventTime' \in 0..MaxTime
  BY DEF StoreAt, MotionOf, Event
<1> QED  BY <1>2, <1>3, <1>4 DEF StoreAt, RingTypeOK

(* mieqEnqueue, in each of its four outcomes, keeps the ring well formed.  *)
LEMMA EnqueueType ==
  ASSUME RingTypeOK, NEW e \in Event, mieqEnqueue(e)
  PROVE  RingTypeOK'
<1> nevents \in QueueSizes /\ nevents \in Nat \ {0, 1}
  BY SizesAssumption DEF RingTypeOK
<1>1. CASE EnqueueMerge(e)
  <2>1. PrevSlot(tail, nevents) \in Slots(nevents)
    BY PrevSlotCases DEF RingTypeOK, Slots
  <2> QED  BY <1>1, <2>1, StoreAtType DEF EnqueueMerge, RingTypeOK
<1>2. CASE EnqueueAppend(e)
  BY <1>2, StoreAtType DEF EnqueueAppend, RingTypeOK
<1>3. CASE EnqueueGrow(e)
  <2>1. Grown(2 * nevents) \in [Slots(2 * nevents) -> Slot]
    BY <1>3, GrownType DEF EnqueueGrow
  <2>2. mieqNumEnqueued \in Slots(2 * nevents) /\ 0 \in Slots(2 * nevents)
    BY NumEnqueuedCases DEF Slots
  <2> QED  BY <1>3, <2>1, <2>2, StoreAtType DEF EnqueueGrow, RingTypeOK
<1>4. CASE EnqueueToss(e)
  <2>1. dropped' \in 0..SIZE_MAX
    <3>1. dropped + 1 \in Nat /\ SIZE_MAX + 1 \in Nat \ {0}
      BY BoundsAssumption DEF RingTypeOK
    <3>2. (dropped + 1) % (SIZE_MAX + 1) \in 0..SIZE_MAX
      BY <3>1, BoundsAssumption, Z3
    <3> QED  BY <1>4, <3>2 DEF EnqueueToss
  <2>2. events' \in [Slots(nevents) -> Slot]
    <3>1. ASSUME NEW s \in Slot
          PROVE  [s EXCEPT !.live = FALSE] \in Slot
      BY <3>1 DEF Slot
    <3>2. \A i \in Slots(nevents) :
            [events[i] EXCEPT !.live = FALSE] \in Slot
      BY <3>1 DEF RingTypeOK
    <3>3. [i \in Slots(nevents) |-> [events[i] EXCEPT !.live = FALSE]]
            \in [Slots(nevents) -> Slot]
      BY <3>2
    <3>4. \/ UNCHANGED events
          \/ events' = [i \in Slots(nevents) |->
                           [events[i] EXCEPT !.live = FALSE]]
      BY <1>4 DEF EnqueueToss
    <3> QED  BY <3>3, <3>4 DEF RingTypeOK
  <2> QED  BY <1>4, <2>1, <2>2 DEF EnqueueToss, RingTypeOK
<1> QED  BY <1>1, <1>2, <1>3, <1>4 DEF mieqEnqueue

(* Taking the oldest event out of the ring keeps it well formed and hands  *)
(* on an event or none.                                                    *)
LEMMA DequeueType ==
  ASSUME RingTypeOK, Dequeue, dropped' \in 0..SIZE_MAX
  PROVE  RingTypeOK' /\ current' \in Event \cup {NoEvent}
<1>1. nevents \in Nat \ {0, 1}
  BY SizesAssumption DEF RingTypeOK
<1>2. NextSlot(head, nevents) \in Slots(nevents)
  BY <1>1, NextSlotCases DEF RingTypeOK, Slots
<1>3. events[head].ev \in Event \cup {NoEvent}
  BY DEF RingTypeOK, Slot
<1> QED  BY <1>2, <1>3 DEF Dequeue, RingTypeOK, ring

(* The queue that mieqInit makes is well formed.                           *)
LEMMA InitType == Init => TypeOK
<1>1. FreshSlot \in Slot
  BY DEF FreshSlot, Slot
<1> QED  BY <1>1, SizesAssumption, BoundsAssumption
         DEF Init, TypeOK, RingTypeOK, Slots

(* Every step of either thread keeps the state well formed.                *)
LEMMA NextType == TypeOK /\ [Next]_vars => TypeOK'
<1> SUFFICES ASSUME TypeOK, [Next]_vars PROVE TypeOK'
  OBVIOUS
<1> RingTypeOK
  BY DEF TypeOK
<1>1. ASSUME NEW d \in Device, NEW t \in EventType, ReadInput(d, t)
      PROVE  TypeOK'
  <2>1. [type |-> t, dev |-> d, time |-> now] \in Event
    BY DEF TypeOK, Event
  <2> QED  BY <1>1, <2>1, EnqueueType DEF ReadInput, TypeOK
<1>2. ASSUME NEW d \in Device, NEW t \in EventType, MainGenerate(d, t)
      PROVE  TypeOK'
  <2>1. made' \in Event
    BY <1>2 DEF MainGenerate, TypeOK, Event
  <2> QED  BY <1>2, <2>1 DEF MainGenerate, TypeOK, RingTypeOK, ring
<1>3. CASE MainEnqueue
  BY <1>3, EnqueueType DEF MainEnqueue, TypeOK
<1>4. CASE ProcessBegin
  BY <1>4, DequeueType, BoundsAssumption DEF ProcessBegin, TypeOK
<1>5. CASE ProcessNext
  BY <1>5, DequeueType DEF ProcessNext, TypeOK, RingTypeOK
<1>6. CASE Tick
  BY <1>6, BoundsAssumption DEF Tick, TypeOK, RingTypeOK, ring
<1>7. CASE UNCHANGED vars
  BY <1>7 DEF vars, ring, TypeOK, RingTypeOK
<1> QED  BY <1>1, <1>2, <1>3, <1>4, <1>5, <1>6, <1>7 DEF Next

(* head and tail of miEventQueue always index allocated slots, whatever    *)
(* sizes the ring takes and however enqueueing and processing interleave.  *)
THEOREM TypeCorrect == Spec => []TypeOK
BY InitType, NextType, PTL DEF Spec
-----------------------------------------------------------------------------
(* What the ring holds                                                     *)

(* The number of slots from h to t, and which slots these are.             *)
Count(h, t, n) == IF h <= t THEN t - h ELSE t - h + n

(* The queued events lie in slots of the ring, none of them the one at     *)
(* tail, which follows the last of them.                                   *)
LEMMA RingSlots ==
  ASSUME NEW n \in Nat \ {0, 1}, NEW h \in Slots(n), NEW t \in Slots(n)
  PROVE  /\ Count(h, t, n) \in Slots(n)
         /\ (h + Count(h, t, n)) % n = t
         /\ \A i \in 1..Count(h, t, n) : /\ (h + i - 1) % n \in Slots(n)
                                         /\ (h + i - 1) % n # t
<1> DEFINE c == Count(h, t, n)
<1>1. c \in Slots(n)
  BY DEF Count, Slots
<1>2. (h + c) % n = t
  <2>1. h + c \in 0..(2 * n - 1)
    BY <1>1 DEF Slots
  <2>2. (h + c) % n = IF h + c < n THEN h + c ELSE h + c - n
    BY <1>1, <2>1, WrapCases DEF Slots
  <2> QED  BY <2>2 DEF Count, Slots
<1>3. ASSUME NEW i \in 1..c
      PROVE  (h + i - 1) % n \in Slots(n) /\ (h + i - 1) % n # t
  <2> DEFINE x == h + i - 1
  <2>1. x \in 0..(2 * n - 1)
    BY <1>1 DEF Slots
  <2> HIDE DEF x
  <2>2. x % n = IF x < n THEN x ELSE x - n
    BY <2>1, WrapCases
  <2> QED  BY <2>2 DEF Count, Slots, x
<1> QED  BY <1>1, <1>2, <1>3

(* The slot before t is the last of them.                                  *)
LEMMA RingLastSlot ==
  ASSUME NEW n \in QueueSizes, NEW h \in Slots(n), NEW t \in Slots(n), h # t
  PROVE  /\ Count(h, t, n) >= 1
         /\ PrevSlot(t, n) = (h + Count(h, t, n) - 1) % n
         /\ \A i \in 1..(Count(h, t, n) - 1) : (h + i - 1) % n # PrevSlot(t, n)
<1> DEFINE c == Count(h, t, n)
<1> n \in Nat \ {0, 1}
  BY SizesAssumption
<1>1. c \in 1..(n - 1)
  BY DEF Count, Slots
<1>2. PrevSlot(t, n) = IF t = 0 THEN n - 1 ELSE t - 1
  BY PrevSlotCases
<1>3. (h + c - 1) % n = PrevSlot(t, n)
  <2>1. h + c - 1 \in 0..(2 * n - 1)
    BY <1>1 DEF Slots
  <2>2. (h + c - 1) % n = IF h + c - 1 < n THEN h + c - 1 ELSE h + c - 1 - n
    BY <1>1, <2>1, WrapCases DEF Slots
  <2> QED  BY <1>2, <2>2 DEF Count, Slots
<1>4. ASSUME NEW i \in 1..(c - 1)
      PROVE  (h + i - 1) % n # PrevSlot(t, n)
  <2> DEFINE x == h + i - 1
  <2>1. x \in 0..(2 * n - 1)
    BY <1>1 DEF Slots
  <2> HIDE DEF x
  <2>2. x % n = IF x < n THEN x ELSE x - n
    BY <2>1, WrapCases
  <2> QED  BY <1>2, <2>2 DEF Count, Slots, x
<1> QED  BY <1>1, <1>3, <1>4

(* mieqNumEnqueued is the number of slots from head to tail.               *)
LEMMA NumEnqueuedIsCount ==
  ASSUME RingTypeOK
  PROVE  mieqNumEnqueued = Count(head, tail, nevents)
BY SizesAssumption DEF RingTypeOK, Slots, mieqNumEnqueued, Count

(* The contents of the ring are a sequence, of as many events as           *)
(* mieqNumEnqueued says.                                                   *)
LEMMA ContentsType ==
  ASSUME RingTypeOK
  PROVE  /\ Contents \in Seq(Event \cup {NoEvent})
         /\ Len(Contents) = mieqNumEnqueued
         /\ mieqNumEnqueued \in Slots(nevents)
         /\ Contents = << >> <=> head = tail
<1> DEFINE S == Event \cup {NoEvent}
<1> nevents \in Nat \ {0, 1}
  BY SizesAssumption DEF RingTypeOK
<1>1. mieqNumEnqueued = Count(head, tail, nevents)
  BY NumEnqueuedIsCount
<1>2. mieqNumEnqueued \in Slots(nevents) /\ mieqNumEnqueued \in Nat
  BY <1>1, RingSlots DEF RingTypeOK, Slots
<1>3. ASSUME NEW i \in 1..mieqNumEnqueued
      PROVE  QueuedEvent(i) \in S
  <2>1. (head + i - 1) % nevents \in Slots(nevents)
    BY <1>1, <1>3, RingSlots DEF RingTypeOK
  <2>2. events[(head + i - 1) % nevents] \in Slot
    BY <2>1 DEF RingTypeOK
  <2> QED  BY <2>2 DEF QueuedEvent, Slot
<1>4. Contents \in [1..mieqNumEnqueued -> S]
  BY <1>3 DEF Contents
<1>5. Contents \in Seq(S) /\ Len(Contents) = mieqNumEnqueued
  BY <1>2, <1>4
<1>6. Contents = << >> <=> mieqNumEnqueued = 0
  BY <1>5, EmptySeq
<1>7. mieqNumEnqueued = 0 <=> head = tail
  BY <1>1 DEF Count, RingTypeOK, Slots
<1> QED  BY <1>2, <1>5, <1>6, <1>7

(* The same facts, collected, for the state before and after a step.       *)
ContentsFacts ==
  /\ nevents \in Nat \ {0, 1}
  /\ mieqNumEnqueued = Count(head, tail, nevents)
  /\ mieqNumEnqueued \in Slots(nevents)
  /\ Contents \in Seq(Event \cup {NoEvent})
  /\ Len(Contents) = mieqNumEnqueued
  /\ \A i \in 1..mieqNumEnqueued :
       Contents[i] = events[(head + i - 1) % nevents].ev

(* The facts about the contents that the following lemmas use, in every    *)
(* well formed state.                                                      *)
LEMMA ContentsFactsHold == RingTypeOK => ContentsFacts
BY ContentsType, NumEnqueuedIsCount, SizesAssumption
   DEF ContentsFacts, Contents, QueuedEvent, RingTypeOK

(* The same facts of the state after a step.                               *)
LEMMA ContentsFactsHoldPrime == RingTypeOK' => ContentsFacts'
BY ContentsFactsHold, PTL

(* When the ring is given by its contents, adding a slot appends.          *)
LEMMA AppendEvents ==
  ASSUME NEW S, NEW s \in Seq(S), NEW t \in Seq(S), NEW e \in S,
         Len(t) = Len(s) + 1,
         \A i \in 1..Len(s) : t[i] = s[i],
         t[Len(s) + 1] = e
  PROVE  t = Append(s, e)
OBVIOUS

(* Storing an event at tail, with room left, appends it to the contents.   *)
LEMMA AppendContents ==
  ASSUME RingTypeOK, RingTypeOK', NEW e \in Event, EnqueueAppend(e)
  PROVE  Contents' = Append(Contents, e)
<1> DEFINE c == mieqNumEnqueued
<1>1. ContentsFacts /\ ContentsFacts'
  BY ContentsFactsHold, ContentsFactsHoldPrime
<1>2. /\ head' = head /\ nevents' = nevents /\ tail' = NextSlot(tail, nevents)
      /\ events' = [events EXCEPT ![tail].ev = e]
      /\ c + 1 # nevents
  BY DEF EnqueueAppend, StoreAt, Full
<1>3. /\ head \in Slots(nevents) /\ tail \in Slots(nevents)
      /\ events \in [Slots(nevents) -> Slot]
  BY DEF RingTypeOK
<1>4. c' = c + 1
  <2>1. tail' = IF tail = nevents - 1 THEN 0 ELSE tail + 1
    BY <1>1, <1>2, <1>3, NextSlotCases DEF ContentsFacts
  <2>2. c = Count(head, tail, nevents) /\ c' = Count(head, tail', nevents)
    BY <1>1, <1>2 DEF ContentsFacts
  <2>3. /\ nevents \in Nat /\ nevents > 1
        /\ head \in Int /\ 0 <= head /\ head < nevents
        /\ tail \in Int /\ 0 <= tail /\ tail < nevents
    BY <1>1, <1>3, SlotBounds DEF ContentsFacts
  <2> QED  BY <1>2, <2>1, <2>2, <2>3 DEF Count
<1>5. ASSUME NEW i \in 1..c
      PROVE  Contents'[i] = Contents[i]
  <2>1. (head + i - 1) % nevents \in Slots(nevents) \ {tail}
    BY <1>1, <1>3, <1>5, RingSlots DEF ContentsFacts
  <2>2. events'[(head' + i - 1) % nevents'] = events[(head + i - 1) % nevents]
    BY <1>2, <1>3, <2>1
  <2>3. i \in 1..c'
    BY <1>1, <1>4, <1>5, SlotBounds DEF ContentsFacts
  <2> QED  BY <1>1, <1>5, <2>2, <2>3 DEF ContentsFacts
<1>6. Contents'[c + 1] = e
  <2>1. (head + c) % nevents = tail
    BY <1>1, <1>3, RingSlots DEF ContentsFacts
  <2>2. head + (c + 1) - 1 = head + c
    BY <1>1, <1>3, SlotBounds DEF ContentsFacts
  <2>3. Contents'[c + 1] = events'[(head + (c + 1) - 1) % nevents].ev
    <3>1. c + 1 \in 1..c'
      BY <1>1, <1>4, SlotBounds DEF ContentsFacts
    <3> QED  BY <1>1, <1>2, <3>1 DEF ContentsFacts
  <2>4. events'[tail].ev = e
    BY <1>2, <1>3 DEF Slot
  <2> QED  BY <2>1, <2>2, <2>3, <2>4
<1> QED
  <2>1. Len(Contents) = c /\ Len(Contents') = c + 1
    BY <1>1, <1>4 DEF ContentsFacts
  <2> QED  BY <1>1, <1>5, <1>6, <2>1, AppendEvents DEF ContentsFacts

(* Merging a motion replaces the last event of the contents and no other.  *)
LEMMA MergeContents ==
  ASSUME RingTypeOK, RingTypeOK', NEW e \in Event, EnqueueMerge(e)
  PROVE  /\ Contents # << >>
         /\ Contents' = [Contents EXCEPT ![Len(Contents)] = e]
<1> DEFINE c == mieqNumEnqueued
           p == PrevSlot(tail, nevents)
<1>1. ContentsFacts /\ ContentsFacts'
  BY ContentsFactsHold, ContentsFactsHoldPrime
<1>2. /\ head' = head /\ nevents' = nevents /\ tail' = NextSlot(p, nevents)
      /\ events' = [events EXCEPT ![p].ev = e]
      /\ head # tail
  BY DEF EnqueueMerge, StoreAt, Merges
<1>3. /\ head \in Slots(nevents) /\ tail \in Slots(nevents)
      /\ events \in [Slots(nevents) -> Slot]
      /\ nevents \in QueueSizes /\ nevents \in Nat \ {0, 1}
  BY SizesAssumption DEF RingTypeOK
<1>4. p \in Slots(nevents) /\ NextSlot(p, nevents) = tail
  <2>1. p = IF tail = 0 THEN nevents - 1 ELSE tail - 1
    BY <1>3, PrevSlotCases
  <2>2. p \in Slots(nevents)
    BY <1>3, <2>1 DEF Slots
  <2>3. NextSlot(p, nevents) = IF p = nevents - 1 THEN 0 ELSE p + 1
    BY <1>3, <2>2, NextSlotCases
  <2> QED  BY <1>3, <2>1, <2>2, <2>3 DEF Slots
<1>5. c' = c /\ c = Count(head, tail, nevents)
  BY <1>1, <1>2, <1>4 DEF ContentsFacts
<1>6. /\ c >= 1 /\ c \in Nat
      /\ p = (head + c - 1) % nevents
      /\ \A i \in 1..(c - 1) : (head + i - 1) % nevents # p
  <2>1. c \in Nat
    BY <1>1, SlotBounds DEF ContentsFacts
  <2> QED  BY <1>2, <1>3, <1>5, <2>1, RingLastSlot
<1>7. ASSUME NEW i \in 1..c
      PROVE  Contents'[i] = IF i = c THEN e ELSE Contents[i]
  <2>1. Contents'[i] = events'[(head + i - 1) % nevents].ev
    BY <1>1, <1>2, <1>5, <1>7 DEF ContentsFacts
  <2>2. Contents[i] = events[(head + i - 1) % nevents].ev
    BY <1>1, <1>7 DEF ContentsFacts
  <2>3. (head + i - 1) % nevents \in Slots(nevents)
    BY <1>3, <1>5, <1>7, RingSlots
  <2>4. events[p] \in Slot
    BY <1>3, <1>4
  <2>5. events'[p].ev = e
    BY <1>2, <1>3, <1>4, <2>4 DEF Slot
  <2>6. CASE i = c
    BY <1>6, <2>1, <2>5, <2>6
  <2>7. CASE i # c
    <3>1. (head + i - 1) % nevents # p
      BY <1>6, <1>7, <2>7
    <3> QED  BY <1>2, <1>3, <2>1, <2>2, <2>3, <2>7, <3>1
  <2> QED  BY <2>6, <2>7
<1>8. Len(Contents) = c /\ Len(Contents') = c
  BY <1>1, <1>5 DEF ContentsFacts
<1>9. [Contents EXCEPT ![Len(Contents)] = e] = Contents'
  <2> DEFINE S == Event \cup {NoEvent}
             t == [Contents EXCEPT ![c] = e]
  <2>1. Contents \in Seq(S) /\ Contents' \in Seq(S) /\ c \in 1..c
    BY <1>1, <1>6 DEF ContentsFacts
  <2>2. /\ t \in Seq(S) /\ Len(t) = c
        /\ \A j \in 1..c : t[j] = IF j = c THEN e ELSE Contents[j]
    BY <1>8, <2>1, ExceptSeq
  <2>3. \A j \in 1..c : t[j] = Contents'[j]
    BY <1>7, <2>2
  <2> HIDE DEF t
  <2>4. t = Contents'
    BY <1>8, <2>1, <2>2, <2>3, SeqEqual
  <2> QED  BY <1>8, <2>4 DEF t
<1>10. Contents # << >>
  BY <1>6, <1>8
<1> QED  BY <1>9, <1>10

(* Growing the ring and storing the event behind the old ones appends it   *)
(* to the contents: the copy of mieqGrowQueue loses and reorders nothing.  *)
LEMMA GrowContents ==
  ASSUME RingTypeOK, RingTypeOK', NEW e \in Event, EnqueueGrow(e)
  PROVE  Contents' = Append(Contents, e)
<1> DEFINE c == mieqNumEnqueued
           n == 2 * nevents
<1>1. ContentsFacts /\ ContentsFacts'
  BY ContentsFactsHold, ContentsFactsHoldPrime
<1>2. /\ head' = 0 /\ nevents' = n /\ tail' = NextSlot(c, n)
      /\ events' = [Grown(n) EXCEPT ![c].ev = e]
      /\ n \in QueueSizes
  BY DEF EnqueueGrow, StoreAt
<1>3. /\ nevents \in Nat \ {0, 1} /\ n \in Nat \ {0, 1}
      /\ c \in Int /\ 0 <= c /\ c < nevents
      /\ head \in Slots(nevents) /\ tail \in Slots(nevents)
  BY <1>1, <1>2, SizesAssumption, SlotBounds DEF ContentsFacts, RingTypeOK
<1>4. Grown(n) \in [Slots(n) -> Slot]
  BY <1>2, <1>3, GrownType
<1>5. tail' = c + 1
  <2>1. c \in Slots(n)
    BY <1>3 DEF Slots
  <2> QED  BY <1>2, <1>3, <2>1, NextSlotCases
<1>6. c' = c + 1
  <2>1. c' = Count(0, c + 1, n)
    BY <1>1, <1>2, <1>5 DEF ContentsFacts
  <2> QED  BY <1>3, <2>1 DEF Count
<1>7. ASSUME NEW i \in 1..(c + 1)
      PROVE  Contents'[i] = events'[i - 1].ev /\ i - 1 \in Slots(n)
  <2> DEFINE x == 0 + i - 1
  <2>1. Contents'[i] = events'[x % n].ev
    BY <1>1, <1>2, <1>6, <1>7 DEF ContentsFacts
  <2>2. x = i - 1 /\ x \in 0..(2 * n - 1) /\ x < n
    BY <1>3, <1>7
  <2>3. i - 1 \in Slots(n)
    BY <1>3, <1>7 DEF Slots
  <2> HIDE DEF x
  <2>4. x % n = x
    BY <1>3, <2>2, WrapCases
  <2> QED  BY <2>1, <2>2, <2>3, <2>4
<1>8. ASSUME NEW i \in 1..c
      PROVE  Contents'[i] = Contents[i]
  <2>1. Contents'[i] = events'[i - 1].ev /\ i - 1 \in Slots(n) /\ i - 1 # c
    BY <1>3, <1>7, <1>8
  <2>2. events'[i - 1] = Grown(n)[i - 1]
    BY <1>2, <1>4, <2>1
  <2>3. Grown(n)[i - 1] = events[(head + (i - 1)) % nevents]
    BY <1>3, <1>8, <2>1 DEF Grown
  <2>4. head + (i - 1) = head + i - 1
    BY <1>3, <1>8, SlotBounds
  <2> QED  BY <1>1, <2>1, <2>2, <2>3, <2>4 DEF ContentsFacts
<1>9. Contents'[c + 1] = e
  <2>1. c + 1 \in 1..(c + 1) /\ (c + 1) - 1 = c
    BY <1>3
  <2>2. Contents'[c + 1] = events'[c].ev /\ c \in Slots(n)
    BY <1>7, <2>1
  <2> QED  BY <1>2, <1>4, <2>2 DEF Slot
<1> QED
  <2>1. Len(Contents) = c /\ Len(Contents') = c + 1
    BY <1>1, <1>6 DEF ContentsFacts
  <2> QED  BY <1>1, <1>8, <1>9, <2>1, AppendEvents DEF ContentsFacts

(* A tossed event leaves the contents alone, and only happens when at      *)
(* least QUEUE_INITIAL_SIZE - 1 events are waiting.                        *)
LEMMA TossContents ==
  ASSUME RingTypeOK, RingTypeOK', NEW e \in Event, EnqueueToss(e)
  PROVE  Contents' = Contents /\ Len(Contents) + 1 >= QUEUE_INITIAL_SIZE
<1>1. ContentsFacts /\ ContentsFacts'
  BY ContentsFactsHold, ContentsFactsHoldPrime
<1>2. head' = head /\ nevents' = nevents /\ tail' = tail
  BY DEF EnqueueToss
<1>3. mieqNumEnqueued' = mieqNumEnqueued
  BY <1>2 DEF mieqNumEnqueued
<1>4. ASSUME NEW i \in Slots(nevents)
      PROVE  events'[i].ev = events[i].ev
  <2>1. events[i] \in Slot
    BY DEF RingTypeOK
  <2>2. [events[i] EXCEPT !.live = FALSE].ev = events[i].ev
    BY <2>1 DEF Slot
  <2>3. \/ UNCHANGED events
        \/ events' = [j \in Slots(nevents) |-> [events[j] EXCEPT !.live = FALSE]]
    BY DEF EnqueueToss
  <2> QED  BY <2>2, <2>3
<1>5. ASSUME NEW i \in 1..mieqNumEnqueued
      PROVE  Contents'[i] = Contents[i]
  <2>1. (head + i - 1) % nevents \in Slots(nevents)
    BY <1>1, RingSlots DEF ContentsFacts, RingTypeOK
  <2> QED  BY <1>1, <1>2, <1>3, <1>4, <2>1 DEF ContentsFacts
<1>6. Contents' = Contents
  <2>1. Len(Contents) = mieqNumEnqueued /\ Len(Contents') = mieqNumEnqueued
    BY <1>1, <1>3 DEF ContentsFacts
  <2> QED  BY <1>1, <1>5, <2>1, SeqEqual DEF ContentsFacts
<1>7. Len(Contents) + 1 = nevents
  BY <1>1 DEF ContentsFacts, EnqueueToss, Full
<1> QED  BY <1>6, <1>7, SizesAssumption DEF RingTypeOK

(* Advancing head takes the oldest event from the contents.                *)
LEMMA TakeContents ==
  ASSUME RingTypeOK, RingTypeOK', Dequeue, head # tail
  PROVE  /\ Contents # << >>
         /\ current' = Head(Contents)
         /\ Contents' = Tail(Contents)
         /\ lastMotion' = lastMotion
<1> DEFINE c == mieqNumEnqueued
           S == Event \cup {NoEvent}
<1>1. ContentsFacts /\ ContentsFacts'
  BY ContentsFactsHold, ContentsFactsHoldPrime
<1>2. /\ head' = NextSlot(head, nevents) /\ nevents' = nevents /\ tail' = tail
      /\ events' = events /\ current' = events[head].ev
      /\ lastMotion' = lastMotion
  BY DEF Dequeue
<1>3. /\ nevents \in Nat \ {0, 1}
      /\ head \in Slots(nevents) /\ tail \in Slots(nevents)
      /\ head \in Int /\ 0 <= head /\ head < nevents
      /\ tail \in Int /\ 0 <= tail /\ tail < nevents
  BY SizesAssumption, SlotBounds DEF RingTypeOK
<1>4. head' = IF head = nevents - 1 THEN 0 ELSE head + 1
  BY <1>2, <1>3, NextSlotCases
<1>5. c' = c - 1 /\ c \in 1..(nevents - 1)
  <2>1. c = Count(head, tail, nevents) /\ c' = Count(head', tail, nevents)
    BY <1>1, <1>2 DEF ContentsFacts
  <2> QED  BY <1>3, <1>4, <2>1 DEF Count
<1>6. Contents \in Seq(S) /\ Contents' \in Seq(S)
      /\ Len(Contents) = c /\ Len(Contents') = c - 1
  BY <1>1, <1>5 DEF ContentsFacts
<1>7. Contents # << >>
  BY <1>5, <1>6
<1>8. Contents[1] = events[head].ev
  <2>1. Contents[1] = events[(head + 1 - 1) % nevents].ev
    BY <1>1, <1>5 DEF ContentsFacts
  <2>2. head + 1 - 1 = head /\ head \in 0..(2 * nevents - 1)
    BY <1>3
  <2>3. head % nevents = head
    BY <1>3, <2>2, WrapCases
  <2> QED  BY <2>1, <2>2, <2>3
<1>9. ASSUME NEW i \in 1..(c - 1)
      PROVE  Contents'[i] = Contents[i + 1]
  <2> DEFINE x == head' + i - 1
             y == head + (i + 1) - 1
  <2>1. Contents'[i] = events[x % nevents].ev
    BY <1>1, <1>2, <1>5, <1>9 DEF ContentsFacts
  <2>2. Contents[i + 1] = events[y % nevents].ev
    BY <1>1, <1>5, <1>9 DEF ContentsFacts
  <2>3. x \in 0..(2 * nevents - 1) /\ y \in 0..(2 * nevents - 1)
    BY <1>3, <1>4, <1>5, <1>9
  <2>4. (IF x < nevents THEN x ELSE x - nevents)
          = (IF y < nevents THEN y ELSE y - nevents)
    BY <1>3, <1>4, <1>5, <1>9
  <2> HIDE DEF x, y
  <2>5. x % nevents = y % nevents
    BY <1>3, <2>3, <2>4, WrapCases
  <2> QED  BY <2>1, <2>2, <2>5
<1>10. Contents' = Tail(Contents)
  <2>1. /\ Tail(Contents) \in Seq(S) /\ Len(Tail(Contents)) = c - 1
        /\ \A i \in 1..(c - 1) : Tail(Contents)[i] = Contents[i + 1]
    BY <1>6, <1>7, HeadTailProperties
  <2> QED  BY <1>6, <1>9, <2>1, SeqEqual
<1>11. Head(Contents) = Contents[1]
  BY <1>6, <1>7
<1> QED  BY <1>2, <1>7, <1>8, <1>10, <1>11
-----------------------------------------------------------------------------
(* The inductive invariant: besides types, every queued event was written, *)
(* and lastMotion tells whether, and for which device, the newest one is a *)
(* motion.  Without the last part a merge could hit a foreign event.       *)

NewestMatches ==
  Contents # << >> /\ lastMotion # NoDevice =>
    /\ Contents[Len(Contents)].type = "Motion"
    /\ Contents[Len(Contents)].dev = lastMotion

QueueInv == TypeOK /\ Contents \in Seq(Event) /\ NewestMatches

(* What one call of mieqEnqueue does, seen on the contents.                *)
LEMMA EnqueueSteps ==
  ASSUME RingTypeOK, RingTypeOK', NewestMatches, NEW e \in Event, mieqEnqueue(e)
  PROVE  \/ /\ Contents' = Append(Contents, e)
            /\ lastMotion' = MotionOf(e)
            /\ dropped' = dropped
         \/ /\ Contents # << >>
            /\ e.type = "Motion"
            /\ Contents[Len(Contents)].type = "Motion"
            /\ Contents[Len(Contents)].dev = e.dev
            /\ Contents' = [Contents EXCEPT ![Len(Contents)] = e]
            /\ lastMotion' = MotionOf(e)
            /\ dropped' = dropped
         \/ /\ Len(Contents) + 1 >= QUEUE_INITIAL_SIZE
            /\ Contents' = Contents
            /\ lastMotion' = lastMotion
            /\ dropped' = (dropped + 1) % (SIZE_MAX + 1)
<1>1. CASE EnqueueAppend(e)
  BY <1>1, AppendContents DEF EnqueueAppend, StoreAt
<1>2. CASE EnqueueGrow(e)
  BY <1>2, GrowContents DEF EnqueueGrow, StoreAt
<1>3. CASE EnqueueToss(e)
  BY <1>3, TossContents DEF EnqueueToss
<1>4. CASE EnqueueMerge(e)
  <2>1. /\ Contents # << >>
        /\ Contents' = [Contents EXCEPT ![Len(Contents)] = e]
    BY <1>4, MergeContents
  <2>2. /\ lastMotion # NoDevice /\ MotionOf(e) = lastMotion
        /\ lastMotion' = MotionOf(e) /\ dropped' = dropped
    BY <1>4 DEF EnqueueMerge, Merges, StoreAt
  <2>3. e.type = "Motion" /\ lastMotion = e.dev
    BY <2>2 DEF MotionOf
  <2> QED  BY <2>1, <2>2, <2>3 DEF NewestMatches
<1> QED  BY <1>1, <1>2, <1>3, <1>4 DEF mieqEnqueue

(* mieqEnqueue preserves the inductive invariant.                          *)
LEMMA EnqueueInv ==
  ASSUME QueueInv, RingTypeOK', NEW e \in Event, mieqEnqueue(e)
  PROVE  Contents' \in Seq(Event) /\ NewestMatches'
<1> DEFINE n == Len(Contents)
<1>1. RingTypeOK /\ Contents \in Seq(Event) /\ NewestMatches
  BY DEF QueueInv, TypeOK
<1>2. n \in Nat
  BY <1>1
<1>3. MotionOf(e) # NoDevice => e.type = "Motion" /\ MotionOf(e) = e.dev
  BY DEF MotionOf
<1>4. CASE Contents' = Append(Contents, e) /\ lastMotion' = MotionOf(e)
  <2>1. /\ Contents' \in Seq(Event) /\ Len(Contents') = n + 1
        /\ Contents'[n + 1] = e
    BY <1>1, <1>4
  <2> QED  BY <1>3, <1>4, <2>1 DEF NewestMatches
<1>5. CASE /\ Contents # << >>
           /\ Contents' = [Contents EXCEPT ![Len(Contents)] = e]
           /\ lastMotion' = MotionOf(e)
  <2>1. n \in 1..n
    BY <1>1, <1>2, <1>5, EmptySeq
  <2>2. Contents' \in Seq(Event) /\ Len(Contents') = n /\ Contents'[n] = e
    BY <1>1, <1>5, <2>1, ExceptSeq
  <2> QED  BY <1>3, <1>5, <2>2 DEF NewestMatches
<1>6. CASE Contents' = Contents /\ lastMotion' = lastMotion
  BY <1>1, <1>6 DEF NewestMatches
<1> QED  BY <1>1, <1>4, <1>5, <1>6, EnqueueSteps

(* Taking an event out preserves the inductive invariant.                  *)
LEMMA DequeueInv ==
  ASSUME QueueInv, RingTypeOK', Dequeue
  PROVE  Contents' \in Seq(Event) /\ NewestMatches'
<1> DEFINE n == Len(Contents)
<1>1. RingTypeOK /\ Contents \in Seq(Event) /\ NewestMatches
  BY DEF QueueInv, TypeOK
<1>2. CASE head = tail
  <2>1. UNCHANGED ring
    BY <1>2 DEF Dequeue
  <2>2. Contents' = Contents /\ lastMotion' = lastMotion
    BY <2>1 DEF ring, Contents, QueuedEvent, mieqNumEnqueued
  <2> QED  BY <1>1, <2>2 DEF NewestMatches
<1>3. CASE head # tail
  <2>1. /\ Contents # << >> /\ Contents' = Tail(Contents)
        /\ lastMotion' = lastMotion
    BY <1>1, <1>3, TakeContents
  <2>2. /\ Contents' \in Seq(Event) /\ Len(Contents') = n - 1 /\ n \in Nat
        /\ \A i \in 1..(n - 1) : Contents'[i] = Contents[i + 1]
    BY <1>1, <2>1, HeadTailProperties
  <2>3. ASSUME Contents' # << >>
        PROVE  Contents'[Len(Contents')] = Contents[n]
    <3>1. n - 1 \in 1..(n - 1) /\ (n - 1) + 1 = n
      BY <2>2, <2>3, EmptySeq
    <3> QED  BY <2>2, <3>1
  <2> QED  BY <1>1, <2>1, <2>2, <2>3 DEF NewestMatches
<1> QED  BY <1>2, <1>3

(* The inductive invariant holds of the queue that mieqInit makes.         *)
LEMMA InitInv == Init => QueueInv
<1> SUFFICES ASSUME Init PROVE QueueInv
  OBVIOUS
<1>1. TypeOK
  BY InitType
<1>2. Contents = << >>
  BY <1>1, ContentsType DEF Init, TypeOK
<1> QED  BY <1>1, <1>2, EmptySeq DEF QueueInv, NewestMatches

(* Every step of either thread preserves the inductive invariant.          *)
LEMMA NextInv == QueueInv /\ [Next]_vars => QueueInv'
<1> SUFFICES ASSUME QueueInv, [Next]_vars PROVE QueueInv'
  OBVIOUS
<1>1. TypeOK' /\ RingTypeOK'
  BY NextType DEF QueueInv, TypeOK
<1>2. ASSUME UNCHANGED ring
      PROVE  Contents' \in Seq(Event) /\ NewestMatches'
  BY <1>2 DEF ring, QueueInv, NewestMatches, Contents, QueuedEvent,
              mieqNumEnqueued
<1>3. ASSUME NEW d \in Device, NEW t \in EventType, ReadInput(d, t)
      PROVE  QueueInv'
  <2>1. [type |-> t, dev |-> d, time |-> now] \in Event
    BY DEF QueueInv, TypeOK, Event
  <2> QED  BY <1>1, <1>3, <2>1, EnqueueInv DEF ReadInput, QueueInv
<1>4. ASSUME NEW d \in Device, NEW t \in EventType, MainGenerate(d, t)
      PROVE  QueueInv'
  BY <1>1, <1>2, <1>4 DEF MainGenerate, QueueInv
<1>5. CASE MainEnqueue
  <2>1. made \in Event
    BY <1>5 DEF MainEnqueue, QueueInv, TypeOK
  <2> QED  BY <1>1, <1>5, <2>1, EnqueueInv DEF MainEnqueue, QueueInv
<1>6. CASE ProcessBegin
  BY <1>1, <1>6, DequeueInv DEF ProcessBegin, QueueInv
<1>7. CASE ProcessNext
  BY <1>1, <1>7, DequeueInv DEF ProcessNext, QueueInv
<1>8. CASE Tick
  BY <1>1, <1>2, <1>8 DEF Tick, QueueInv
<1>9. CASE UNCHANGED vars
  BY <1>1, <1>2, <1>9 DEF vars, QueueInv
<1> QED  BY <1>3, <1>4, <1>5, <1>6, <1>7, <1>8, <1>9 DEF Next

(* The inductive invariant holds in every reachable state.                 *)
LEMMA InvariantHolds == Spec => []QueueInv
BY InitInv, NextInv, PTL DEF Spec
-----------------------------------------------------------------------------
(* The safety theorems                                                     *)

(* A motion is only ever merged into a motion of its own device, for every *)
(* interleaving of enqueueing and processing: lastMotion of miEventQueue   *)
(* describes the newest event whenever the ring is not empty.              *)
THEOREM MotionMergeSafe == Spec => []LastMotionIsNewest
<1>1. QueueInv => LastMotionIsNewest
  <2> SUFFICES ASSUME QueueInv, head # tail, lastMotion # NoDevice
               PROVE  /\ events[PrevSlot(tail, nevents)].ev # NoEvent
                      /\ events[PrevSlot(tail, nevents)].ev.type = "Motion"
                      /\ events[PrevSlot(tail, nevents)].ev.dev = lastMotion
    BY DEF LastMotionIsNewest
  <2> DEFINE c == mieqNumEnqueued
  <2>1. RingTypeOK /\ ContentsFacts /\ Contents \in Seq(Event)
    BY ContentsFactsHold DEF QueueInv, TypeOK
  <2>2. Contents # << >>
    BY <2>1, ContentsType
  <2>3. c \in 1..c /\ Len(Contents) = c
    BY <2>1, <2>2, EmptySeq DEF ContentsFacts
  <2>4. Contents[c] = events[(head + c - 1) % nevents].ev
    BY <2>1, <2>3 DEF ContentsFacts
  <2>5. PrevSlot(tail, nevents) = (head + c - 1) % nevents
    BY <2>1, RingLastSlot DEF ContentsFacts, RingTypeOK
  <2>6. Contents[c] \in Event
    BY <2>1, <2>3, ElementOfSeq
  <2>7. Contents[c].type = "Motion" /\ Contents[c].dev = lastMotion
    BY <2>2, <2>3 DEF QueueInv, NewestMatches
  <2> QED  BY <2>4, <2>5, <2>6, <2>7, NamesAssumption
<1> QED  BY <1>1, InvariantHolds, PTL

(* Every slot of miEventQueue.events points to an allocated InternalEvent. *)
ExistingEventsKept == \A i \in Slots(nevents) : events[i].live

(* No slot loses its InternalEvent unless InitEventList can fail inside    *)
(* mieqGrowQueue.                                                          *)
LEMMA SlotsStayLive ==
  ASSUME "InitEventList" \notin GrowFailure
  PROVE  Spec => []ExistingEventsKept
<1>1. Init => ExistingEventsKept
  BY DEF Init, ExistingEventsKept, FreshSlot, Slots
<1>2. TypeOK /\ TypeOK' /\ ExistingEventsKept /\ [Next]_vars => ExistingEventsKept'
  <2> SUFFICES ASSUME TypeOK, TypeOK', ExistingEventsKept, [Next]_vars
               PROVE  ExistingEventsKept'
    OBVIOUS
  <2>1. RingTypeOK
    BY DEF TypeOK
  <2>2. ASSUME UNCHANGED <<events, nevents>>
        PROVE  ExistingEventsKept'
    BY <2>2 DEF ExistingEventsKept
  <2>3. ASSUME NEW n \in QueueSizes, NEW i \in Slots(n), NEW e,
               NEW evs \in [Slots(n) -> Slot], StoreAt(evs, n, i, e),
               \A j \in Slots(n) : evs[j].live
        PROVE  ExistingEventsKept'
    <3>1. \A j \in Slots(n) : [evs EXCEPT ![i].ev = e][j].live
      BY <2>3 DEF Slot
    <3> QED  BY <2>3, <3>1 DEF StoreAt, ExistingEventsKept
  <2>4. ASSUME NEW e \in Event, mieqEnqueue(e)
        PROVE  ExistingEventsKept'
    <3>1. nevents \in QueueSizes /\ nevents \in Nat \ {0, 1}
          /\ head \in Slots(nevents) /\ tail \in Slots(nevents)
          /\ events \in [Slots(nevents) -> Slot]
      BY <2>1, SizesAssumption DEF RingTypeOK
    <3>2. CASE EnqueueMerge(e)
      <4>1. PrevSlot(tail, nevents) \in Slots(nevents)
        BY <3>1, PrevSlotCases DEF Slots
      <4> QED  BY <2>3, <3>1, <3>2, <4>1 DEF EnqueueMerge, ExistingEventsKept
    <3>3. CASE EnqueueAppend(e)
      BY <2>3, <3>1, <3>3 DEF EnqueueAppend, ExistingEventsKept
    <3>4. CASE EnqueueGrow(e)
      <4> DEFINE n == 2 * nevents
      <4>1. n \in QueueSizes /\ Grown(n) \in [Slots(n) -> Slot]
        BY <2>1, <3>1, <3>4, GrownType DEF EnqueueGrow
      <4>2. mieqNumEnqueued \in Slots(n)
        BY <2>1, <3>1, NumEnqueuedCases DEF Slots
      <4>3. ASSUME NEW j \in Slots(n)
            PROVE  Grown(n)[j].live
        <5>1. CASE j < nevents
          <6>1. head + j \in 0..(2 * nevents - 1)
            BY <3>1, <5>1 DEF Slots
          <6>2. (head + j) % nevents \in Slots(nevents)
            BY <3>1, <6>1, WrapCases DEF Slots
          <6> QED  BY <5>1, <6>2 DEF Grown, ExistingEventsKept
        <5>2. CASE ~(j < nevents)
          BY <5>2 DEF Grown, FreshSlot
        <5> QED  BY <5>1, <5>2
      <4> QED  BY <2>3, <3>4, <4>1, <4>2, <4>3 DEF EnqueueGrow
    <3>5. CASE EnqueueToss(e)
      BY <2>2, <3>5 DEF EnqueueToss
    <3> QED  BY <2>4, <3>2, <3>3, <3>4, <3>5 DEF mieqEnqueue
  <2>5. ASSUME NEW d \in Device, NEW t \in EventType, ReadInput(d, t)
        PROVE  ExistingEventsKept'
    <3>1. [type |-> t, dev |-> d, time |-> now] \in Event
      BY DEF TypeOK, Event
    <3> QED  BY <2>4, <2>5, <3>1 DEF ReadInput
  <2>6. CASE MainEnqueue
    BY <2>4, <2>6 DEF MainEnqueue, TypeOK
  <2>7. CASE ProcessBegin \/ ProcessNext
    BY <2>2, <2>7 DEF ProcessBegin, ProcessNext, Dequeue, ring
  <2>8. CASE Tick \/ UNCHANGED vars
    BY <2>2, <2>8 DEF Tick, vars, ring
  <2>9. ASSUME NEW d \in Device, NEW t \in EventType, MainGenerate(d, t)
        PROVE  ExistingEventsKept'
    BY <2>2, <2>9 DEF MainGenerate, ring
  <2> QED  BY <2>5, <2>6, <2>7, <2>8, <2>9 DEF Next
<1> QED  BY <1>1, <1>2, TypeCorrect, PTL DEF Spec

(* mieqProcessInputEvents only copies out events that were enqueued and    *)
(* whose memory is allocated, provided InitEventList does not fail while   *)
(* the ring grows.                                                         *)
THEOREM OnlyValidSlotsQueued ==
  ASSUME "InitEventList" \notin GrowFailure
  PROVE  Spec => []QueuedSlotsValid
<1>1. QueueInv /\ ExistingEventsKept => QueuedSlotsValid
  <2> SUFFICES ASSUME QueueInv, ExistingEventsKept,
                      NEW i \in 1..mieqNumEnqueued
               PROVE  /\ events[(head + i - 1) % nevents].live
                      /\ events[(head + i - 1) % nevents].ev # NoEvent
    BY DEF QueuedSlotsValid
  <2>1. RingTypeOK /\ ContentsFacts /\ Contents \in Seq(Event)
    BY ContentsFactsHold DEF QueueInv, TypeOK
  <2>2. (head + i - 1) % nevents \in Slots(nevents)
    BY <2>1, RingSlots DEF ContentsFacts, RingTypeOK
  <2>3. Contents[i] \in Event
    BY <2>1, ElementOfSeq DEF ContentsFacts
  <2> QED  BY <2>1, <2>2, <2>3, NamesAssumption
           DEF ContentsFacts, ExistingEventsKept
<1> QED  BY <1>1, InvariantHolds, SlotsStayLive, PTL
-----------------------------------------------------------------------------
(* Refinement                                                              *)

(* A call of mieqEnqueue is a step of the abstract queue.                  *)
LEMMA EnqueueRefines ==
  ASSUME QueueInv, RingTypeOK', NEW e \in Event, mieqEnqueue(e), current' = current
  PROVE  Fifo!Next
<1>1. RingTypeOK /\ NewestMatches
  BY DEF QueueInv, TypeOK
<1> QED  BY <1>1, EnqueueSteps DEF Fifo!Next, Fifo!Put, Fifo!Coalesce, Fifo!Toss

(* An iteration of mieqProcessInputEvents is a step of the abstract queue. *)
LEMMA DequeueRefines ==
  ASSUME QueueInv, RingTypeOK', Dequeue, dropped' \in {0, dropped}
  PROVE  Fifo!Next
<1>1. RingTypeOK
  BY DEF QueueInv, TypeOK
<1>2. CASE head # tail
  BY <1>1, <1>2, TakeContents DEF Fifo!Next, Fifo!Take
<1>3. CASE head = tail
  <2>1. UNCHANGED ring /\ current' = NoEvent
    BY <1>3 DEF Dequeue
  <2>2. Contents' = Contents
    BY <2>1 DEF ring, Contents, QueuedEvent, mieqNumEnqueued
  <2>3. Contents = << >>
    BY <1>1, <1>3, ContentsType
  <2> QED  BY <2>1, <2>2, <2>3 DEF Fifo!Next, Fifo!Drained
<1> QED  BY <1>2, <1>3

(* The ring of mi/mieq.c implements the FIFO queue of module InputFifo:    *)
(* every event accepted comes out once, in order, a motion being replaced  *)
(* only by a newer motion of its device while it is the newest, and events *)
(* are only tossed when at least QUEUE_INITIAL_SIZE - 1 are waiting.       *)
THEOREM ImplementsFifo == Spec => FifoOrder
<1>1. Init => Fifo!Init
  <2> SUFFICES ASSUME Init PROVE Fifo!Init
    OBVIOUS
  <2>1. Contents = << >>
    BY InitType, ContentsType DEF Init, TypeOK
  <2> QED  BY <2>1 DEF Init, Fifo!Init
<1>2. QueueInv /\ QueueInv' /\ [Next]_vars => [Fifo!Next]_(Fifo!fifoVars)
  <2> SUFFICES ASSUME QueueInv, QueueInv', [Next]_vars
               PROVE  [Fifo!Next]_(Fifo!fifoVars)
    OBVIOUS
  <2>1. RingTypeOK'
    BY DEF QueueInv, TypeOK
  <2>2. ASSUME UNCHANGED <<ring, dropped, current>>
        PROVE  UNCHANGED Fifo!fifoVars
    <3>1. Contents' = Contents
      BY <2>2 DEF ring, Contents, QueuedEvent, mieqNumEnqueued
    <3> QED  BY <2>2, <3>1 DEF Fifo!fifoVars
  <2>3. ASSUME NEW d \in Device, NEW t \in EventType, ReadInput(d, t)
        PROVE  Fifo!Next
    <3>1. [type |-> t, dev |-> d, time |-> now] \in Event
      BY DEF QueueInv, TypeOK, Event
    <3> QED  BY <2>1, <2>3, <3>1, EnqueueRefines DEF ReadInput
  <2>4. ASSUME NEW d \in Device, NEW t \in EventType, MainGenerate(d, t)
        PROVE  UNCHANGED Fifo!fifoVars
    BY <2>2, <2>4 DEF MainGenerate
  <2>5. CASE MainEnqueue
    <3>1. made \in Event
      BY <2>5 DEF MainEnqueue, QueueInv, TypeOK
    <3> QED  BY <2>1, <2>5, <3>1, EnqueueRefines DEF MainEnqueue
  <2>6. CASE ProcessBegin
    BY <2>1, <2>6, DequeueRefines DEF ProcessBegin
  <2>7. CASE ProcessNext
    BY <2>1, <2>7, DequeueRefines DEF ProcessNext
  <2>8. CASE Tick
    BY <2>2, <2>8 DEF Tick
  <2>9. CASE UNCHANGED vars
    BY <2>2, <2>9 DEF vars
  <2> QED  BY <2>3, <2>4, <2>5, <2>6, <2>7, <2>8, <2>9 DEF Next
<1> QED  BY <1>1, <1>2, InvariantHolds, PTL DEF Spec, Fifo!Spec, FifoOrder
=============================================================================
