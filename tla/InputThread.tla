---------------------------- MODULE InputThread ----------------------------
(***************************************************************************)
(* The threaded input facility, os/inputthread.c, and the main loop that   *)
(* it wakes (Dispatch in dix/dispatch.c, WaitForSomething in os/WaitFor.c).*)
(*                                                                         *)
(* The main thread registers and unregisters device fds; the input thread  *)
(* keeps its poll set in step, reads the devices that are ready, which     *)
(* enqueues events, and kicks the main thread through a pipe.  What is     *)
(* done under input_lock is one step.  The event queue itself is module    *)
(* InputQueue; here it is only empty or not, which is all that             *)
(* InputCheckPending looks at.                                             *)
(***************************************************************************)
EXTENDS Integers, FiniteSetsExt

CONSTANTS
  Fd,                 \* device file descriptors
  PIPE_CAPACITY,      \* bytes a pipe holds before a write blocks
  READ_SIZE,          \* bytes InputThreadReadPipe takes at once
  MaxCalls,           \* bound: calls of Register and Unregister
  MaxBurst,           \* bound: such calls between two polls of the main thread
  UnregisterBehind,   \* whether an fd is unregistered while an entry removed
                      \* earlier for the same fd is still listed
  FinishWhenFull      \* whether the server shuts down with a full pipe

HotplugPipe == "hotplugPipeRead"

ASSUME PipeAssumption ==
  /\ HotplugPipe \notin Fd
  /\ PIPE_CAPACITY \in Nat \ {0}
  /\ READ_SIZE \in Nat \ {0}
  /\ MaxCalls \in Nat
  /\ MaxBurst \in Nat
  /\ UnregisterBehind \in BOOLEAN
  /\ FinishWhenFull \in BOOLEAN

VARIABLES
  devs,        \* inputThreadInfo->devs: the entries that are allocated
  changed,     \* inputThreadInfo->changed
  running,     \* inputThreadInfo->running
  fds,         \* inputThreadInfo->fds: the entry polled for each fd, or 0
  hotplug,     \* bytes in the hotplug pipe
  hotplugOpen, \* hotplugPipeWrite is open
  notify,      \* bytes in the pipe that wakes the main thread
  tpc,         \* where the input thread is
  ready,       \* what ospoll_wait found and has not called back yet
  mpc,         \* where the main thread is
  burst,       \* calls since the main thread last polled
  calls,       \* calls of Register and Unregister so far; names entries
  registered,  \* per fd, the registration its driver holds, or 0
  readable,    \* fds with input to read
  pending      \* miEventQueue.head # miEventQueue.tail

facility == <<devs, changed, fds>>
pipes == <<hotplug, hotplugOpen, notify>>
drivers == <<burst, calls, registered>>
vars == <<facility, pipes, drivers, running, tpc, ready, mpc, readable, pending>>

(* InputThreadDevice: its address stands for the call that allocated it,   *)
(* proc for readInputProc and readInputArgs.  Entries are only appended to *)
(* the list, so that devs has them in list order.                          *)
DeviceState == {"added", "running", "removed"}
Address == 1..MaxCalls
Entry == [fd : Fd, proc : 1..MaxCalls, state : DeviceState]

NoDevices == [i \in {} |-> 0]

Init ==
  /\ devs = NoDevices
  /\ changed = FALSE
  /\ running = FALSE
  /\ fds = [f \in Fd |-> 0]
  /\ hotplug = 0
  /\ hotplugOpen = TRUE
  /\ notify = 0
  /\ tpc = "start"
  /\ ready = {}
  /\ mpc = "dispatch"
  /\ burst = 0
  /\ calls = 0
  /\ registered = [f \in Fd |-> 0]
  /\ readable = {}
  /\ pending = FALSE

(* What InputThreadReadPipe leaves of n bytes.                             *)
LessRead(n) == IF n > READ_SIZE THEN n - READ_SIZE ELSE 0

(* The entries of an fd, and those of them that are not removed.           *)
Listed(f) == {i \in DOMAIN devs : devs[i].fd = f}
Live(f) == {i \in Listed(f) : devs[i].state # "removed"}
-----------------------------------------------------------------------------
(* Main thread: registration                                               *)

Call ==
  /\ mpc = "dispatch"
  /\ calls < MaxCalls
  /\ burst < MaxBurst
  /\ calls' = calls + 1
  /\ burst' = burst + 1

InputThreadRegisterDev(f) ==
  /\ Call
  /\ devs' = IF Live(f) # {}
               THEN [devs EXCEPT ![Min(Live(f))].proc = calls + 1]
               ELSE [i \in DOMAIN devs \cup {calls + 1} |->
                       IF i = calls + 1
                         THEN [fd |-> f, proc |-> calls + 1, state |-> "added"]
                         ELSE devs[i]]
  /\ registered' = [registered EXCEPT ![f] = calls + 1]
  /\ changed' = TRUE
  /\ mpc' = "fill"
  /\ UNCHANGED <<pipes, running, fds, tpc, ready, readable, pending>>

RemovedListed(f) == Live(f) # Listed(f)

(* The first entry with the fd is marked removed; a driver that calls for  *)
(* an fd without an entry gets 0 back and nothing happens.                 *)
InputThreadUnregisterDev(f) ==
  /\ Call
  /\ UnregisterBehind \/ ~RemovedListed(f)
  /\ registered' = [registered EXCEPT ![f] = 0]
  /\ \/ /\ Listed(f) = {}
        /\ UNCHANGED <<devs, changed, mpc>>
     \/ /\ Listed(f) # {}
        /\ devs' = [devs EXCEPT ![Min(Listed(f))].state = "removed"]
        /\ changed' = TRUE
        /\ mpc' = "fill"
  /\ UNCHANGED <<pipes, running, fds, tpc, ready, readable, pending>>

(* The end of both calls, after input_unlock: InputThreadFillPipe blocks   *)
(* while the hotplug pipe is full.                                         *)
FillHotplugPipe ==
  /\ mpc = "fill"
  /\ hotplug < PIPE_CAPACITY
  /\ hotplug' = hotplug + 1
  /\ mpc' = "dispatch"
  /\ UNCHANGED <<facility, drivers, hotplugOpen, notify, running, tpc, ready,
                 readable, pending>>
-----------------------------------------------------------------------------
(* Main thread: the dispatch loop                                          *)

(* Dispatch: input first, then WaitForSomething up to its poll.            *)
MainDispatch ==
  /\ mpc = "dispatch"
  /\ pending' = FALSE
  /\ mpc' = "poll"
  /\ UNCHANGED <<facility, pipes, drivers, running, tpc, ready, readable>>

(* ospoll_wait(server_poll, ...) returns because the pipe is readable, and *)
(* InputThreadNotifyPipe takes what it can, or because a client or a timer *)
(* has work, with or without that.                                         *)
MainPoll ==
  /\ mpc = "poll"
  /\ notify > 0
  /\ notify' = LessRead(notify)
  /\ burst' = 0
  /\ mpc' = "check"
  /\ UNCHANGED <<facility, calls, registered, hotplug, hotplugOpen, running,
                 tpc, ready, readable, pending>>

MainPollOther ==
  /\ mpc = "poll"
  /\ notify = 0
  /\ burst' = 0
  /\ mpc' = "check"
  /\ UNCHANGED <<facility, pipes, calls, registered, running, tpc, ready,
                 readable, pending>>

(* Variant: the check for input is dropped from WaitForSomething.          *)
MainCheckClients ==
  /\ mpc = "check"
  /\ mpc' \in {"dispatch", "poll"}
  /\ UNCHANGED <<facility, pipes, drivers, running, tpc, ready, readable,
                 pending>>

(* WaitForSomething after its poll: InputCheckPending, then the clients;   *)
(* without either it polls again.                                          *)
MainCheck ==
  /\ mpc = "check"
  /\ mpc' \in {"dispatch"} \cup (IF pending THEN {} ELSE {"poll"})
  /\ UNCHANGED <<facility, pipes, drivers, running, tpc, ready, readable,
                 pending>>

(* InputThreadFinish: close the pipe, then join the thread.                *)
InputThreadFinish ==
  /\ mpc = "dispatch"
  /\ FinishWhenFull \/ notify + hotplug + 2 <= PIPE_CAPACITY
  /\ hotplugOpen' = FALSE
  /\ mpc' = "join"
  /\ UNCHANGED <<facility, drivers, hotplug, notify, running, tpc, ready,
                 readable, pending>>

(* The thread has ended: drop the remaining entries and both pipes.        *)
InputThreadJoined ==
  /\ mpc = "join"
  /\ tpc = "done"
  /\ devs' = NoDevices
  /\ fds' = [f \in Fd |-> 0]
  /\ hotplug' = 0
  /\ notify' = 0
  /\ mpc' = "finished"
  /\ UNCHANGED <<changed, drivers, hotplugOpen, running, tpc, ready, readable,
                 pending>>
-----------------------------------------------------------------------------
(* Input thread: InputThreadDoWork                                         *)

ThreadStart ==
  /\ tpc = "start"
  /\ running' = TRUE
  /\ tpc' = "loop"
  /\ UNCHANGED <<facility, pipes, drivers, ready, mpc, readable, pending>>

(* The loop condition and the test of changed, without the lock.           *)
ThreadLoop ==
  /\ tpc = "loop"
  /\ tpc' = IF ~running THEN "done" ELSE IF changed THEN "update" ELSE "wait"
  /\ UNCHANGED <<facility, pipes, drivers, running, ready, mpc, readable,
                 pending>>

(* ospoll_add for the added entries and ospoll_remove for the removed      *)
(* ones, in list order: the last such entry of an fd decides.              *)
PolledAfter(f) ==
  LET acts == {i \in Listed(f) : devs[i].state # "running"}
  IN  IF acts = {} THEN fds[f]
      ELSE IF devs[Max(acts)].state = "added" THEN Max(acts) ELSE 0

(* Removed entries are freed, and all others are running.                  *)
Kept == [i \in {j \in DOMAIN devs : devs[j].state # "removed"} |->
           [devs[i] EXCEPT !.state = "running"]]

(* Variant: the list was built by prepending, so that the first entry of   *)
(* an fd decides.                                                          *)
ThreadUpdatePrepended ==
  /\ tpc = "update"
  /\ changed' = FALSE
  /\ fds' = [f \in Fd |->
       LET acts == {i \in Listed(f) : devs[i].state # "running"}
       IN  IF acts = {} THEN fds[f]
           ELSE IF devs[Min(acts)].state = "added" THEN Min(acts) ELSE 0]
  /\ devs' = Kept
  /\ tpc' = "wait"
  /\ UNCHANGED <<pipes, drivers, running, ready, mpc, readable, pending>>

(* Variant: removed entries are freed and left in the poll set.            *)
ThreadUpdateNoRemove ==
  /\ tpc = "update"
  /\ changed' = FALSE
  /\ fds' = [f \in Fd |-> IF PolledAfter(f) = 0 THEN fds[f] ELSE PolledAfter(f)]
  /\ devs' = Kept
  /\ tpc' = "wait"
  /\ UNCHANGED <<pipes, drivers, running, ready, mpc, readable, pending>>

ThreadUpdate ==
  /\ tpc = "update"
  /\ changed' = FALSE
  /\ fds' = [f \in Fd |-> PolledAfter(f)]
  /\ devs' = Kept
  /\ tpc' = "wait"
  /\ UNCHANGED <<pipes, drivers, running, ready, mpc, readable, pending>>

PollReady ==
  {f \in readable : fds[f] # 0}
    \cup (IF hotplug > 0 \/ ~hotplugOpen THEN {HotplugPipe} ELSE {})

(* ospoll_wait(..., -1): level triggered, blocks until something is ready. *)
ThreadWait ==
  /\ tpc = "wait"
  /\ PollReady # {}
  /\ ready' = PollReady
  /\ tpc' = "call"
  /\ UNCHANGED <<facility, pipes, drivers, running, mpc, readable, pending>>

(* Variant: the end of the pipe is taken for an empty pipe.                *)
CallPipeNotifyNoStop ==
  /\ tpc = "call"
  /\ HotplugPipe \in ready
  /\ ready' = ready \ {HotplugPipe}
  /\ hotplug' = LessRead(hotplug)
  /\ UNCHANGED <<facility, drivers, hotplugOpen, notify, running, tpc, mpc,
                 readable, pending>>

(* InputThreadPipeNotify                                                   *)
CallPipeNotify ==
  /\ tpc = "call"
  /\ HotplugPipe \in ready
  /\ ready' = ready \ {HotplugPipe}
  /\ hotplug' = LessRead(hotplug)
  /\ running' = (running /\ hotplug > 0)
  /\ UNCHANGED <<facility, drivers, hotplugOpen, notify, tpc, mpc, readable,
                 pending>>

(* The entry that ospoll hands to InputReady.                              *)
PolledEntry(f) == devs[fds[f]]

(* Variant: InputReady does not look at the state of the entry.            *)
CallInputReadyUnchecked(f) ==
  /\ tpc = "call"
  /\ f \in ready
  /\ ready' = ready \ {f}
  /\ readable' = readable \ {f}
  /\ pending' = TRUE
  /\ UNCHANGED <<facility, pipes, drivers, running, tpc, mpc>>

(* InputReady: under input_lock, a running device is read and its events   *)
(* are enqueued.                                                           *)
CallInputReady(f) ==
  /\ tpc = "call"
  /\ f \in ready
  /\ ready' = ready \ {f}
  /\ \/ /\ PolledEntry(f).state = "running"
        /\ readable' = readable \ {f}
        /\ pending' = TRUE
     \/ /\ PolledEntry(f).state # "running"
        /\ UNCHANGED <<readable, pending>>
  /\ UNCHANGED <<facility, pipes, drivers, running, tpc, mpc>>

(* InputThreadFillPipe(writePipe): kick the main thread; blocks while the  *)
(* pipe is full.                                                           *)
ThreadKick ==
  /\ tpc = "call"
  /\ ready = {}
  /\ notify < PIPE_CAPACITY
  /\ notify' = notify + 1
  /\ tpc' = "loop"
  /\ UNCHANGED <<facility, drivers, hotplug, hotplugOpen, running, ready, mpc,
                 readable, pending>>
-----------------------------------------------------------------------------
(* A device has input.                                                     *)
DeviceInput(f) ==
  /\ f \notin readable
  /\ registered[f] # 0
  /\ readable' = readable \cup {f}
  /\ UNCHANGED <<facility, pipes, drivers, running, tpc, ready, mpc, pending>>

Finished ==
  /\ mpc = "finished"
  /\ UNCHANGED vars

ThreadStep ==
  \/ ThreadStart
  \/ ThreadLoop
  \/ ThreadUpdate
  \/ ThreadWait
  \/ CallPipeNotify
  \/ \E f \in Fd : CallInputReady(f)
  \/ ThreadKick

(* The steps the main thread takes once it is in the loop, or blocked.     *)
MainStep ==
  \/ MainDispatch
  \/ FillHotplugPipe
  \/ MainPoll
  \/ MainCheck
  \/ InputThreadJoined

Next ==
  \/ ThreadStep
  \/ MainStep
  \/ MainPollOther
  \/ InputThreadFinish
  \/ \E f \in Fd : InputThreadRegisterDev(f) \/ InputThreadUnregisterDev(f)
                     \/ DeviceInput(f)
  \/ Finished

Spec == Init /\ [][Next]_vars

(* Both threads are scheduled, a write proceeds once the pipe has room and *)
(* a poll returns once its pipe is readable.  Nothing is assumed of the    *)
(* clients, of the devices or of the callers of the facility.              *)
FairSpec == Spec /\ WF_vars(ThreadStep) /\ WF_vars(MainStep)
-----------------------------------------------------------------------------
(* Properties                                                              *)

TypeOK ==
  /\ DOMAIN devs \subseteq Address
  /\ devs \in [DOMAIN devs -> Entry]
  /\ changed \in BOOLEAN
  /\ running \in BOOLEAN
  /\ fds \in [Fd -> Address \cup {0}]
  /\ hotplug \in 0..PIPE_CAPACITY
  /\ hotplugOpen \in BOOLEAN
  /\ notify \in 0..PIPE_CAPACITY
  /\ tpc \in {"start", "loop", "update", "wait", "call", "done"}
  /\ ready \subseteq Fd \cup {HotplugPipe}
  /\ mpc \in {"dispatch", "fill", "poll", "check", "join", "finished"}
  /\ burst \in 0..MaxBurst
  /\ calls \in 0..MaxCalls
  /\ registered \in [Fd -> 0..MaxCalls]
  /\ readable \subseteq Fd
  /\ pending \in BOOLEAN

(* The poll set never refers to a freed InputThreadDevice, and an fd that  *)
(* is polled is polled for an entry of its own: what ospoll hands to       *)
(* InputReady is allocated, however registrations and the input thread     *)
(* interleave.                                                             *)
PollsListedEntries ==
  /\ TypeOK
  /\ \A f \in Fd : fds[f] # 0 => /\ fds[f] \in Listed(f)
                                 /\ devs[fds[f]].state # "added"

(* "Unregister a device in the threaded input facility": a device is only  *)
(* read by the input thread while its driver holds a registration of the   *)
(* fd, and with the procedure last registered.                             *)
ReadsOnlyRegistered ==
  [][\A f \in readable \ readable' :
       registered[f] # 0 /\ PolledEntry(f).proc = registered[f]]_vars

(* Every event that a driver enqueues is processed, even when no client    *)
(* ever wakes the main thread: between the last InputCheckPending and the  *)
(* poll no kick is lost, and a full pipe delays but loses none.            *)
InputIsProcessed == pending ~> (~pending \/ mpc \in {"join", "finished"})

(* Input of a registered device is eventually read, also when it was       *)
(* registered while the input thread was between its test of changed and   *)
(* its poll, or while the removal of the same fd was still to be done.     *)
RegisteredIsRead ==
  \A f \in Fd :
    (registered[f] # 0 /\ f \in readable)
      ~> (registered[f] = 0 \/ f \notin readable \/ mpc \in {"join", "finished"})

(* "Close the pipe to get the input thread to shut down": InputThreadFinish*)
(* returns.                                                                *)
ShutdownCompletes == mpc = "join" ~> mpc = "finished"
=============================================================================
