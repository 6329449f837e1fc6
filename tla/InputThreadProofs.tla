------------------------- MODULE InputThreadProofs -------------------------
(***************************************************************************)
(* Theorems about InputThread, for any number of device file descriptors,  *)
(* calls of Register and Unregister, and any sizes of the pipes.           *)
(*                                                                         *)
(* The list of entries is written by the main thread and by the input      *)
(* thread, each under input_lock, and the poll set only by the latter.     *)
(* PollsListedEntries relates the two and is inductive, with the fact that *)
(* entries are named by the calls so far.  What is read belongs to the     *)
(* registration of the driver because LiveRegistered holds: each entry     *)
(* that is not removed is the only one of its fd and has the procedure     *)
(* registered last.                                                        *)
(***************************************************************************)
EXTENDS InputThread, SetLemmas

(* Entries are those of calls made before.                                 *)
NamedByCalls == \A i \in DOMAIN devs : i <= calls

(* What ospoll_wait found is still polled when InputReady is called for it. *)
ReadyPolled ==
  /\ ready # {} => tpc = "call"
  /\ \A f \in ready \ {HotplugPipe} : fds[f] # 0

(* Entries are allocated and polled as they should be.                     *)
ListInv == PollsListedEntries /\ NamedByCalls /\ ReadyPolled

(* A driver has one entry that is not removed, with what it registered.    *)
LiveRegistered ==
  \A i \in DOMAIN devs : devs[i].state # "removed" =>
    /\ registered[devs[i].fd] = devs[i].proc
    /\ \A j \in DOMAIN devs :
         devs[j].fd = devs[i].fd /\ devs[j].state # "removed" => j = i

(* What both threads need of the list.                                     *)
DevsOK == /\ DOMAIN devs \subseteq Address
          /\ devs \in [DOMAIN devs -> Entry]

(* Each fd is polled for an entry of its own that the input thread has     *)
(* seen.                                                                   *)
Polled(f) == fds[f] # 0 => fds[f] \in Listed(f) /\ devs[fds[f]].state # "added"

(* Everything in TypeOK that is not about the list.                        *)
RestOK ==
  /\ changed \in BOOLEAN
  /\ running \in BOOLEAN
  /\ hotplug \in 0..PIPE_CAPACITY
  /\ hotplugOpen \in BOOLEAN
  /\ notify \in 0..PIPE_CAPACITY
  /\ tpc \in {"start", "loop", "update", "wait", "call", "done"}
  /\ ready \subseteq Fd \cup {HotplugPipe}
  /\ mpc \in {"dispatch", "fill", "poll", "check", "join", "finished"}
  /\ burst \in 0..MaxBurst
  /\ readable \subseteq Fd
  /\ pending \in BOOLEAN

LEMMA ListParts ==
  ListInv <=> /\ DevsOK /\ RestOK /\ NamedByCalls /\ ReadyPolled
              /\ fds \in [Fd -> Address \cup {0}]
              /\ calls \in 0..MaxCalls
              /\ registered \in [Fd -> 0..MaxCalls]
              /\ \A f \in Fd : Polled(f)
BY DEF ListInv, PollsListedEntries, TypeOK, DevsOK, RestOK, Polled

LEMMA ListPartsPrimed ==
  ListInv' <=> /\ DevsOK' /\ RestOK' /\ NamedByCalls' /\ ReadyPolled'
               /\ fds' \in [Fd -> Address \cup {0}]
               /\ calls' \in 0..MaxCalls
               /\ registered' \in [Fd -> 0..MaxCalls]
               /\ \A f \in Fd : Polled(f)'
BY DEF ListInv, PollsListedEntries, TypeOK, DevsOK, RestOK, Polled

LEMMA LessReadType ==
  ASSUME NEW n \in 0..PIPE_CAPACITY
  PROVE  LessRead(n) \in 0..PIPE_CAPACITY
BY PipeAssumption DEF LessRead

---------------------------------------------------------------------------
(* The operations on the list.                                             *)

(* A driver registers an fd: the entry it has gets the new procedure, or a *)
(* new entry is added.                                                     *)
LEMMA RegisterKeeps ==
  ASSUME ListInv, NEW f \in Fd, InputThreadRegisterDev(f)
  PROVE  /\ ListInv'
         /\ LiveRegistered => LiveRegistered'
<1> DEFINE n == calls + 1
           e == [fd |-> f, proc |-> n, state |-> "added"]
<1>1. /\ DevsOK /\ RestOK /\ NamedByCalls /\ ReadyPolled
      /\ fds \in [Fd -> Address \cup {0}]
      /\ calls \in 0..MaxCalls
      /\ registered \in [Fd -> 0..MaxCalls]
      /\ \A g \in Fd : Polled(g)
  BY ListParts
<1>2. n \in Address /\ n <= MaxCalls /\ n \in 0..MaxCalls /\ burst' \in 0..MaxBurst
  BY <1>1, PipeAssumption DEF InputThreadRegisterDev, Call, Address, RestOK
<1>3. /\ calls' = n /\ fds' = fds
      /\ registered' = [registered EXCEPT ![f] = n]
      /\ registered' \in [Fd -> 0..MaxCalls]
  BY <1>1, <1>2 DEF InputThreadRegisterDev, Call
<1>4. RestOK'
  BY <1>1, <1>2 DEF InputThreadRegisterDev, Call, RestOK, pipes
<1> HIDE DEF n
<1>5. ReadyPolled'
  BY <1>1, <1>3 DEF InputThreadRegisterDev, ReadyPolled
<1> USE DEF n
<1>6. \A i \in DOMAIN devs : i \in Nat /\ i # n /\ i <= n
  BY <1>1 DEF NamedByCalls, DevsOK, Address
<1>7. CASE Live(f) # {}
  <2> DEFINE x == Min(Live(f))
  <2>1. x \in Live(f)
    <3>1. Live(f) \in SUBSET Nat
      BY <1>6 DEF Live, Listed
    <3> QED  BY <1>7, <3>1, MinProperties
  <2>2. devs' = [devs EXCEPT ![x].proc = n]
    BY <1>7 DEF InputThreadRegisterDev
  <2>3. x \in DOMAIN devs /\ devs[x].fd = f /\ devs[x].state # "removed"
    BY <2>1 DEF Live, Listed
  <2> HIDE DEF x, n
  <2>4. /\ DOMAIN devs' = DOMAIN devs
        /\ devs'[x] = [devs[x] EXCEPT !.proc = n]
        /\ \A i \in DOMAIN devs : i # x => devs'[i] = devs[i]
    BY <1>1, <2>2, <2>3 DEF DevsOK
  <2>5. /\ devs'[x] \in Entry /\ devs'[x].fd = f /\ devs'[x].proc = n
        /\ devs'[x].state = devs[x].state
    <3>1. devs[x] \in Entry /\ n \in Address
      BY <1>1, <1>2, <2>3 DEF DevsOK
    <3> QED  BY <2>3, <2>4, <3>1 DEF Entry, Address
  <2>6. \A i \in DOMAIN devs : /\ devs'[i] \in Entry
                               /\ devs'[i].fd = devs[i].fd
                               /\ devs'[i].state = devs[i].state
    BY <1>1, <2>3, <2>4, <2>5 DEF DevsOK
  <2>7. DevsOK'
    <3>1. devs' = [i \in DOMAIN devs' |-> devs'[i]]
      BY <1>1, <2>2 DEF DevsOK
    <3> QED  BY <1>1, <2>4, <2>6, <3>1 DEF DevsOK
  <2>8. NamedByCalls'
    BY <1>3, <1>6, <2>4 DEF NamedByCalls
  <2>9. \A g \in Fd : Polled(g)'
    BY <1>1, <1>3, <2>4, <2>6 DEF Polled, Listed
  <2>10. ListInv'
    BY <1>1, <1>2, <1>3, <1>4, <1>5, <2>7, <2>8, <2>9, ListPartsPrimed
  <2>11. ASSUME LiveRegistered PROVE LiveRegistered'
    <3> SUFFICES ASSUME NEW i \in DOMAIN devs, devs[i].state # "removed"
                 PROVE  /\ registered'[devs[i].fd] = devs'[i].proc
                        /\ \A j \in DOMAIN devs :
                             devs[j].fd = devs[i].fd /\ devs[j].state # "removed"
                               => j = i
      BY <2>4, <2>6 DEF LiveRegistered
    <3>1. /\ registered[devs[i].fd] = devs[i].proc
          /\ \A j \in DOMAIN devs :
               devs[j].fd = devs[i].fd /\ devs[j].state # "removed" => j = i
      BY <2>11 DEF LiveRegistered
    <3>2. CASE devs[i].fd = f
      <4>1. i = x
        BY <2>3, <3>1, <3>2
      <4> QED  BY <1>1, <1>3, <2>5, <3>1, <3>2, <4>1
    <3>3. CASE devs[i].fd # f
      <4>1. i # x /\ devs[i].fd \in Fd
        BY <1>1, <2>3, <3>3 DEF DevsOK, Entry
      <4> QED  BY <1>1, <1>3, <2>4, <3>1, <3>3, <4>1
    <3> QED  BY <3>2, <3>3
  <2> QED  BY <2>10, <2>11
<1>8. CASE Live(f) = {}
  <2>1. devs' = [i \in DOMAIN devs \cup {n} |-> IF i = n THEN e ELSE devs[i]]
    BY <1>8 DEF InputThreadRegisterDev
  <2>2. e \in Entry /\ e.fd = f /\ e.proc = n /\ e.state = "added"
    BY <1>2 DEF Entry, DeviceState, Address
  <2> HIDE DEF e, n
  <2>3. /\ DOMAIN devs' = DOMAIN devs \cup {n}
        /\ devs'[n] = e
        /\ \A i \in DOMAIN devs : devs'[i] = devs[i]
    BY <1>6, <2>1
  <2>4. DevsOK'
    BY <1>1, <1>2, <1>6, <2>1, <2>2 DEF DevsOK
  <2>5. NamedByCalls'
    BY <1>2, <1>3, <1>6, <2>3 DEF NamedByCalls, Address
  <2>6. \A g \in Fd : Polled(g)'
    BY <1>1, <1>3, <2>3 DEF Polled, Listed
  <2>7. ListInv'
    BY <1>1, <1>2, <1>3, <1>4, <1>5, <2>4, <2>5, <2>6, ListPartsPrimed
  <2>8. ASSUME LiveRegistered PROVE LiveRegistered'
    <3>1. \A i \in DOMAIN devs : devs[i].state # "removed" => devs[i].fd # f
      BY <1>8 DEF Live, Listed
    <3>2. \A i \in DOMAIN devs : devs[i].state # "removed" =>
            registered'[devs[i].fd] = devs[i].proc
      <4> SUFFICES ASSUME NEW i \in DOMAIN devs, devs[i].state # "removed"
                   PROVE  registered'[devs[i].fd] = devs[i].proc
        OBVIOUS
      <4>1. devs[i].fd # f /\ devs[i].fd \in Fd
        BY <1>1, <3>1 DEF DevsOK, Entry
      <4> QED  BY <1>1, <1>3, <2>8, <4>1 DEF LiveRegistered
    <3>3. registered'[f] = n
      BY <1>1, <1>3
    <3> QED  BY <1>6, <2>2, <2>3, <2>8, <3>1, <3>2, <3>3 DEF LiveRegistered
  <2> QED  BY <2>7, <2>8
<1> QED  BY <1>7, <1>8

(* A driver unregisters an fd: the first of its entries is removed.        *)
LEMMA UnregisterKeeps ==
  ASSUME ListInv, NEW f \in Fd, InputThreadUnregisterDev(f)
  PROVE  /\ ListInv'
         /\ ~UnregisterBehind /\ LiveRegistered => LiveRegistered'
<1>1. /\ DevsOK /\ RestOK /\ NamedByCalls /\ ReadyPolled
      /\ fds \in [Fd -> Address \cup {0}]
      /\ calls \in 0..MaxCalls
      /\ registered \in [Fd -> 0..MaxCalls]
      /\ \A g \in Fd : Polled(g)
  BY ListParts
<1>2. /\ calls' = calls + 1 /\ calls' \in 0..MaxCalls /\ burst' \in 0..MaxBurst
      /\ fds' = fds
      /\ registered' = [registered EXCEPT ![f] = 0]
      /\ registered' \in [Fd -> 0..MaxCalls]
  BY <1>1, PipeAssumption DEF InputThreadUnregisterDev, Call, RestOK
<1>3. RestOK'
  BY <1>1, <1>2 DEF InputThreadUnregisterDev, Call, RestOK, pipes
<1>4. ReadyPolled'
  BY <1>1, <1>2 DEF InputThreadUnregisterDev, ReadyPolled
<1>5. \A i \in DOMAIN devs : i \in Nat /\ i <= calls + 1
  BY <1>1 DEF NamedByCalls, DevsOK, Address
<1>6. CASE Listed(f) = {}
  <2>1. devs' = devs
    BY <1>6 DEF InputThreadUnregisterDev
  <2>2. ListInv'
    <3>1. DevsOK' /\ NamedByCalls' /\ \A g \in Fd : Polled(g)'
      BY <1>1, <1>2, <1>5, <2>1 DEF DevsOK, NamedByCalls, Polled, Listed
    <3> QED  BY <1>1, <1>2, <1>3, <3>1, <1>4, ListPartsPrimed
  <2>3. ASSUME LiveRegistered PROVE LiveRegistered'
    <3>1. \A i \in DOMAIN devs : devs[i].fd # f /\ devs[i].fd \in Fd
      BY <1>1, <1>6 DEF Listed, DevsOK, Entry
    <3> QED  BY <1>1, <1>2, <2>1, <2>3, <3>1 DEF LiveRegistered
  <2> QED  BY <2>2, <2>3
<1>7. CASE Listed(f) # {}
  <2> DEFINE x == Min(Listed(f))
  <2>1. x \in Listed(f)
    <3>1. Listed(f) \in SUBSET Nat
      BY <1>5 DEF Listed
    <3> QED  BY <1>7, <3>1, MinProperties
  <2>2. devs' = [devs EXCEPT ![x].state = "removed"]
    BY <1>7 DEF InputThreadUnregisterDev
  <2>3. x \in DOMAIN devs /\ devs[x].fd = f
    BY <2>1 DEF Listed
  <2> HIDE DEF x
  <2>4. /\ DOMAIN devs' = DOMAIN devs
        /\ devs'[x] = [devs[x] EXCEPT !.state = "removed"]
        /\ \A i \in DOMAIN devs : i # x => devs'[i] = devs[i]
    BY <1>1, <2>2, <2>3 DEF DevsOK
  <2>5. /\ devs'[x] \in Entry /\ devs'[x].fd = f /\ devs'[x].state = "removed"
    BY <1>1, <2>3, <2>4 DEF DevsOK, Entry, DeviceState
  <2>6. \A i \in DOMAIN devs : /\ devs'[i] \in Entry
                               /\ devs'[i].fd = devs[i].fd
                               /\ devs'[i].state \in {devs[i].state, "removed"}
    BY <1>1, <2>3, <2>4, <2>5 DEF DevsOK
  <2>7. DevsOK'
    <3>1. devs' = [i \in DOMAIN devs' |-> devs'[i]]
      BY <1>1, <2>2 DEF DevsOK
    <3> QED  BY <1>1, <2>4, <2>6, <3>1 DEF DevsOK
  <2>8. NamedByCalls'
    BY <1>2, <1>5, <2>4 DEF NamedByCalls
  <2>9. \A g \in Fd : Polled(g)'
    BY <1>1, <1>2, <2>4, <2>6 DEF Polled, Listed
  <2>10. ListInv'
    BY <1>1, <1>2, <1>3, <2>7, <2>8, <2>9, <1>4, ListPartsPrimed
  <2>11. ASSUME ~UnregisterBehind, LiveRegistered PROVE LiveRegistered'
    <3>1. Live(f) = Listed(f)
      BY <2>11 DEF InputThreadUnregisterDev, RemovedListed
    <3>2. devs[x].state # "removed"
      BY <2>1, <3>1 DEF Live
    <3>3. \A i \in DOMAIN devs : devs'[i].state # "removed" =>
            i # x /\ devs[i].state # "removed" /\ devs[i].fd # f
      BY <2>3, <2>4, <2>5, <2>11, <3>2 DEF LiveRegistered
    <3> SUFFICES ASSUME NEW i \in DOMAIN devs, devs'[i].state # "removed"
                 PROVE  /\ registered'[devs'[i].fd] = devs'[i].proc
                        /\ \A j \in DOMAIN devs :
                             devs'[j].fd = devs'[i].fd /\ devs'[j].state # "removed"
                               => j = i
      BY <2>4 DEF LiveRegistered
    <3>4. devs'[i] = devs[i] /\ devs[i].state # "removed" /\ devs[i].fd # f
          /\ devs[i].fd \in Fd
      BY <1>1, <2>4, <3>3 DEF DevsOK, Entry
    <3>5. registered'[devs[i].fd] = registered[devs[i].fd]
      BY <1>1, <1>2, <3>4
    <3> QED  BY <2>6, <2>11, <3>3, <3>4, <3>5 DEF LiveRegistered
  <2> QED  BY <2>10, <2>11
<1> QED  BY <1>6, <1>7

(* The input thread takes over what has changed: the last entry of an fd   *)
(* that is not running decides whether the fd is polled.                   *)
LEMMA UpdateKeeps ==
  ASSUME ListInv, ThreadUpdate
  PROVE  /\ ListInv'
         /\ LiveRegistered => LiveRegistered'
<1>1. /\ DevsOK /\ RestOK /\ NamedByCalls /\ ReadyPolled
      /\ fds \in [Fd -> Address \cup {0}]
      /\ calls \in 0..MaxCalls
      /\ registered \in [Fd -> 0..MaxCalls]
      /\ \A g \in Fd : Polled(g)
  BY ListParts
<1>2. /\ UNCHANGED <<calls, registered>>
      /\ fds' = [f \in Fd |-> PolledAfter(f)] /\ devs' = Kept
  BY DEF ThreadUpdate, drivers
<1>3. RestOK'
  BY <1>1 DEF ThreadUpdate, RestOK, pipes, drivers
<1>4. \A i \in DOMAIN devs : devs[i] \in Entry /\ i \in Address
  BY <1>1 DEF DevsOK
<1>5. \A i \in DOMAIN devs : /\ [devs[i] EXCEPT !.state = "running"] \in Entry
                             /\ [devs[i] EXCEPT !.state = "running"].fd = devs[i].fd
                             /\ [devs[i] EXCEPT !.state = "running"].proc = devs[i].proc
                             /\ [devs[i] EXCEPT !.state = "running"].state = "running"
  BY <1>4 DEF Entry, DeviceState
<1>6. /\ DOMAIN devs' = {i \in DOMAIN devs : devs[i].state # "removed"}
      /\ \A i \in DOMAIN devs' : /\ devs'[i] \in Entry
                                 /\ devs'[i].fd = devs[i].fd
                                 /\ devs'[i].proc = devs[i].proc
                                 /\ devs'[i].state = "running"
  BY <1>2, <1>5 DEF Kept
<1>7. DevsOK'
  <2>1. devs' = [i \in DOMAIN devs' |-> devs'[i]]
    BY <1>2 DEF Kept
  <2> QED  BY <1>1, <1>6, <2>1 DEF DevsOK
<1>8. NamedByCalls'
  BY <1>1, <1>2, <1>6 DEF NamedByCalls
<1>9. ASSUME NEW f \in Fd
      PROVE  /\ fds'[f] \in Address \cup {0}
             /\ fds'[f] # 0 => /\ fds'[f] \in DOMAIN devs
                               /\ devs[fds'[f]].state # "removed"
                               /\ devs[fds'[f]].fd = f
  <2> DEFINE acts == {i \in Listed(f) : devs[i].state # "running"}
  <2>1. fds'[f] = PolledAfter(f)
    BY <1>2
  <2>2. CASE acts = {}
    <3>1. fds'[f] = fds[f]
      BY <2>1, <2>2 DEF PolledAfter
    <3>2. fds[f] # 0 => fds[f] \in Listed(f) /\ devs[fds[f]].state = "running"
      BY <1>1, <2>2 DEF Polled
    <3> QED  BY <1>1, <3>1, <3>2 DEF Listed
  <2>3. CASE acts # {}
    <3>1. fds'[f] = IF devs[Max(acts)].state = "added" THEN Max(acts) ELSE 0
      BY <2>1, <2>3 DEF PolledAfter
    <3>2. \A i \in acts : i \in Nat /\ i <= MaxCalls
      BY <1>4, PipeAssumption DEF Address, Listed
    <3> HIDE DEF acts
    <3>3. acts \in SUBSET Nat /\ MaxCalls \in Nat
      BY <3>2, PipeAssumption
    <3>4. Max(acts) \in acts
      BY <2>3, <3>2, <3>3, MaxProperties
    <3>5. Max(acts) \in DOMAIN devs /\ devs[Max(acts)].fd = f
      BY <3>4 DEF acts, Listed
    <3> QED  BY <1>4, <3>1, <3>5
  <2> QED  BY <2>2, <2>3
<1>10. fds' \in [Fd -> Address \cup {0}]
  BY <1>2, <1>9
<1>11. \A f \in Fd : Polled(f)'
  BY <1>6, <1>9 DEF Polled, Listed
<1>12. ReadyPolled'
  BY <1>1 DEF ThreadUpdate, ReadyPolled
<1>13. ListInv'
  BY <1>1, <1>2, <1>3, <1>7, <1>8, <1>10, <1>11, <1>12, ListPartsPrimed
<1>14. ASSUME LiveRegistered PROVE LiveRegistered'
  BY <1>2, <1>6, <1>14 DEF LiveRegistered
<1> QED  BY <1>13, <1>14

(* All other steps leave the list alone, or drop it.                       *)
LEMMA OthersKeep ==
  ASSUME ListInv,
         \/ FillHotplugPipe \/ MainDispatch \/ MainPoll \/ MainPollOther
         \/ MainCheck \/ InputThreadFinish \/ ThreadStart \/ ThreadLoop
         \/ ThreadWait \/ CallPipeNotify \/ ThreadKick
         \/ \E f \in Fd : CallInputReady(f) \/ DeviceInput(f)
         \/ UNCHANGED vars
  PROVE  /\ ListInv'
         /\ LiveRegistered => LiveRegistered'
<1>1. /\ DevsOK /\ RestOK /\ NamedByCalls /\ ReadyPolled
      /\ fds \in [Fd -> Address \cup {0}]
      /\ calls \in 0..MaxCalls
      /\ registered \in [Fd -> 0..MaxCalls]
      /\ \A g \in Fd : Polled(g)
  BY ListParts
<1>2. UNCHANGED <<devs, fds, calls, registered>>
  BY DEF FillHotplugPipe, MainDispatch, MainPoll, MainPollOther, MainCheck,
     InputThreadFinish, ThreadStart, ThreadLoop, ThreadWait, CallPipeNotify,
     ThreadKick, CallInputReady, DeviceInput, vars, facility, drivers
<1>3. RestOK'
  <2>1. /\ LessRead(notify) \in 0..PIPE_CAPACITY
        /\ LessRead(hotplug) \in 0..PIPE_CAPACITY
        /\ 0 \in 0..MaxBurst
    BY <1>1, LessReadType, PipeAssumption DEF RestOK
  <2>2. CASE FillHotplugPipe
    BY <1>1, <2>2, PipeAssumption DEF FillHotplugPipe, RestOK, facility, drivers
  <2>3. CASE MainDispatch \/ MainCheck \/ InputThreadFinish
    BY <1>1, <2>3 DEF MainDispatch, MainCheck, InputThreadFinish, RestOK,
       facility, pipes, drivers
  <2>4. CASE MainPoll \/ MainPollOther
    BY <1>1, <2>1, <2>4 DEF MainPoll, MainPollOther, RestOK, facility, pipes
  <2>5. CASE ThreadStart \/ ThreadLoop
    BY <1>1, <2>5 DEF ThreadStart, ThreadLoop, RestOK, facility, pipes, drivers
  <2>6. CASE ThreadWait
    BY <1>1, <2>6 DEF ThreadWait, PollReady, RestOK, facility, pipes, drivers
  <2>7. CASE CallPipeNotify
    <3>1. running' \in BOOLEAN
      <4> DEFINE b == running /\ hotplug > 0
      <4>1. b \in BOOLEAN /\ running' = b
        BY <2>7 DEF CallPipeNotify
      <4> QED  BY <4>1
    <3> QED  BY <1>1, <2>1, <2>7, <3>1 DEF CallPipeNotify, RestOK, facility, drivers
  <2>8. CASE ThreadKick
    BY <1>1, <2>8, PipeAssumption DEF ThreadKick, RestOK, facility, drivers
  <2>9. CASE \E f \in Fd : CallInputReady(f) \/ DeviceInput(f)
    BY <1>1, <2>9 DEF CallInputReady, DeviceInput, RestOK, facility, pipes, drivers
  <2>10. CASE UNCHANGED vars
    BY <1>1, <2>10 DEF vars, RestOK, facility, pipes, drivers
  <2> QED  BY <2>2, <2>3, <2>4, <2>5, <2>6, <2>7, <2>8, <2>9, <2>10
<1>4. DevsOK' /\ NamedByCalls' /\ \A f \in Fd : Polled(f)'
  BY <1>1, <1>2 DEF DevsOK, NamedByCalls, Polled, Listed
<1>5. ReadyPolled'
  <2>1. CASE ThreadWait
    BY <1>2, <2>1, PipeAssumption DEF ThreadWait, PollReady, ReadyPolled
  <2>2. CASE CallPipeNotify \/ ThreadKick \/ \E f \in Fd : CallInputReady(f)
    BY <1>1, <1>2, <2>2 DEF CallPipeNotify, ThreadKick, CallInputReady, ReadyPolled
  <2>3. CASE ThreadStart \/ ThreadLoop
    BY <1>1, <1>2, <2>3 DEF ThreadStart, ThreadLoop, ReadyPolled
  <2>4. CASE UNCHANGED <<ready, tpc>>
    BY <1>1, <1>2, <2>4 DEF ReadyPolled
  <2> QED
    BY <2>1, <2>2, <2>3, <2>4 DEF FillHotplugPipe, MainDispatch, MainPoll,
       MainPollOther, MainCheck, InputThreadFinish, DeviceInput, vars
<1>6. ListInv'
  BY <1>1, <1>2, <1>3, <1>4, <1>5, ListPartsPrimed
<1>7. LiveRegistered => LiveRegistered'
  BY <1>2 DEF LiveRegistered
<1> QED  BY <1>6, <1>7

LEMMA JoinedKeeps ==
  ASSUME ListInv, InputThreadJoined
  PROVE  ListInv' /\ LiveRegistered'
<1>1. /\ DevsOK /\ RestOK /\ ReadyPolled
      /\ calls \in 0..MaxCalls
      /\ registered \in [Fd -> 0..MaxCalls]
  BY ListParts
<1>2. /\ DOMAIN devs' = {} /\ devs' = [i \in {} |-> 0]
      /\ fds' = [f \in Fd |-> 0] /\ UNCHANGED <<calls, registered>>
  BY DEF InputThreadJoined, NoDevices, drivers
<1>3. RestOK'
  BY <1>1, PipeAssumption DEF InputThreadJoined, RestOK, drivers
<1>4. DevsOK' /\ NamedByCalls' /\ \A f \in Fd : Polled(f)'
  BY <1>2 DEF DevsOK, NamedByCalls, Polled
<1>5. ReadyPolled'
  BY <1>1 DEF InputThreadJoined, ReadyPolled
<1>6. ListInv'
  BY <1>1, <1>2, <1>3, <1>4, <1>5, ListPartsPrimed
<1> QED  BY <1>2, <1>6 DEF LiveRegistered

---------------------------------------------------------------------------
(* The theorems.                                                           *)

LEMMA ListInitially == Init => ListInv /\ LiveRegistered
<1> SUFFICES ASSUME Init PROVE ListInv /\ LiveRegistered
  OBVIOUS
<1>1. /\ DOMAIN devs = {} /\ devs = [i \in {} |-> 0] /\ fds = [f \in Fd |-> 0]
      /\ calls = 0 /\ registered = [f \in Fd |-> 0]
  BY DEF Init, NoDevices
<1>2. RestOK
  <2>1. 0 \in 0..PIPE_CAPACITY /\ 0 \in 0..MaxBurst
    BY PipeAssumption
  <2>2. /\ changed = FALSE /\ running = FALSE /\ hotplugOpen = TRUE
        /\ hotplug = 0 /\ notify = 0 /\ burst = 0 /\ pending = FALSE
        /\ tpc = "start" /\ mpc = "dispatch" /\ ready = {} /\ readable = {}
    BY DEF Init
  <2> QED  BY <2>1, <2>2 DEF RestOK
<1>3. /\ DevsOK /\ NamedByCalls /\ LiveRegistered
      /\ \A f \in Fd : Polled(f)
  BY <1>1 DEF DevsOK, NamedByCalls, LiveRegistered, Polled
<1>4. ReadyPolled
  BY DEF Init, ReadyPolled
<1>5. /\ calls \in 0..MaxCalls /\ registered \in [Fd -> 0..MaxCalls]
      /\ fds \in [Fd -> Address \cup {0}]
  BY <1>1, PipeAssumption
<1>6. ListInv
  BY <1>2, <1>3, <1>4, <1>5, ListParts
<1> QED  BY <1>3, <1>6

LEMMA StepKeeps ==
  ASSUME ListInv, [Next]_vars
  PROVE  /\ ListInv'
         /\ ~UnregisterBehind /\ LiveRegistered => LiveRegistered'
BY RegisterKeeps, UnregisterKeeps, UpdateKeeps, OthersKeep, JoinedKeeps
   DEF Next, ThreadStep, MainStep, Finished

(* However calls of Register and Unregister interleave with the input      *)
(* thread, what ospoll hands to InputReady is an entry that is still       *)
(* allocated, and one of the fd that is ready.                             *)
THEOREM PolledAreListed == Spec => []PollsListedEntries
<1>1. ListInv => PollsListedEntries
  BY DEF ListInv
<1>2. ListInv /\ [Next]_vars => ListInv'
  BY StepKeeps
<1> QED  BY <1>1, <1>2, ListInitially, PTL DEF Spec

(* InputReady reads a device only while its driver holds a registration,   *)
(* and with the procedure registered last.  Unregister removes the first   *)
(* entry of the fd; when that is one removed before, and not yet freed by  *)
(* the input thread, the live entry would be left, which UnregisterBehind  *)
(* excludes.                                                               *)
THEOREM OnlyRegisteredAreRead ==
  ASSUME ~UnregisterBehind
  PROVE  Spec => ReadsOnlyRegistered
<1> DEFINE Reads == \A f \in readable \ readable' :
                      registered[f] # 0 /\ PolledEntry(f).proc = registered[f]
<1>1. ASSUME ListInv, LiveRegistered, [Next]_vars
      PROVE  Reads
  <2> SUFFICES ASSUME NEW f \in readable \ readable'
               PROVE  registered[f] # 0 /\ PolledEntry(f).proc = registered[f]
    OBVIOUS
  <2>1. /\ DevsOK /\ RestOK /\ ReadyPolled /\ registered \in [Fd -> 0..MaxCalls]
        /\ \A g \in Fd : Polled(g)
    BY <1>1, ListParts
  <2>2. f \in Fd /\ readable' # readable
    BY <2>1 DEF RestOK
  <2>3. \E g \in Fd : CallInputReady(g)
    BY <1>1, <2>2 DEF Next, ThreadStep, MainStep, Finished, vars,
       InputThreadRegisterDev, InputThreadUnregisterDev, FillHotplugPipe,
       MainDispatch, MainPoll, MainPollOther, MainCheck, InputThreadFinish,
       InputThreadJoined, ThreadStart, ThreadLoop, ThreadUpdate, ThreadWait,
       CallPipeNotify, ThreadKick, DeviceInput
  <2>4. PICK g \in Fd : CallInputReady(g)
    BY <2>3
  <2>5. g = f /\ PolledEntry(f).state = "running" /\ f \in ready
    BY <2>2, <2>4 DEF CallInputReady
  <2>6. fds[f] \in DOMAIN devs /\ devs[fds[f]].fd = f
    BY <2>1, <2>2, <2>5, PipeAssumption DEF ReadyPolled, Polled, Listed
  <2>7. devs[fds[f]].proc \in 1..MaxCalls
    BY <2>1, <2>6 DEF DevsOK, Entry
  <2>8. registered[f] = devs[fds[f]].proc
    BY <1>1, <2>5, <2>6 DEF LiveRegistered, PolledEntry
  <2> QED  BY <2>7, <2>8 DEF PolledEntry
<1>2. ListInv /\ [Next]_vars => ListInv'
  BY StepKeeps
<1>3. ListInv /\ LiveRegistered /\ [Next]_vars => LiveRegistered'
  BY StepKeeps
<1>4. ListInv /\ LiveRegistered /\ [Next]_vars => [Reads]_vars
  BY <1>1
<1> QED
  BY <1>2, <1>3, <1>4, ListInitially, PTL DEF Spec, ReadsOnlyRegistered
=============================================================================
