----------------------------- MODULE InputFifo -----------------------------
(***************************************************************************)
(* What the machine independent event queue promises to the producers and  *)
(* to ProcessInputEvents: events come out in the order they went in, each  *)
(* exactly once.  The only liberties are those mi/mieq.c announces: a      *)
(* motion event may replace the motion event of the same device queued     *)
(* just before it, and an event may be tossed, and counted, when the queue *)
(* already holds as many events as its initial size allows.                *)
(***************************************************************************)
EXTENDS Naturals, Sequences

CONSTANTS Event,              \* records with at least the fields type and dev
          NoEvent,            \* "no event is being processed"
          QUEUE_INITIAL_SIZE,
          SIZE_MAX            \* the count of tossed events wraps after it

VARIABLES queue,    \* events accepted and not yet handed to the main thread
          current,  \* the event the main thread is processing
          dropped   \* consecutive events tossed

fifoVars == <<queue, current, dropped>>

Init ==
  /\ queue = << >>
  /\ current = NoEvent
  /\ dropped = 0

(* The event is accepted behind all the others.                            *)
Put(e) ==
  /\ queue' = Append(queue, e)
  /\ UNCHANGED <<current, dropped>>

(* Motion compression: the newest queued event is superseded by a newer    *)
(* motion of the same device; no other event may be.                       *)
Coalesce(e) ==
  /\ queue # << >>
  /\ e.type = "Motion"
  /\ queue[Len(queue)].type = "Motion"
  /\ queue[Len(queue)].dev = e.dev
  /\ queue' = [queue EXCEPT ![Len(queue)] = e]
  /\ UNCHANGED <<current, dropped>>

(* Events which come in late are tossed, and every one is counted.         *)
Toss ==
  /\ Len(queue) + 1 >= QUEUE_INITIAL_SIZE
  /\ dropped' = (dropped + 1) % (SIZE_MAX + 1)
  /\ UNCHANGED <<queue, current>>

(* The oldest event is handed to the main thread.                          *)
Take ==
  /\ queue # << >>
  /\ current' = Head(queue)
  /\ queue' = Tail(queue)
  /\ dropped' \in {0, dropped}

(* The main thread goes back to its clients, with nothing left behind.     *)
Drained ==
  /\ queue = << >>
  /\ current' = NoEvent
  /\ dropped' \in {0, dropped}
  /\ UNCHANGED queue

Next ==
  \/ \E e \in Event : Put(e) \/ Coalesce(e)
  \/ Toss
  \/ Take
  \/ Drained

Spec == Init /\ [][Next]_fifoVars
=============================================================================
