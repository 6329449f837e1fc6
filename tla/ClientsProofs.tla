---------------------------- MODULE ClientsProofs ----------------------------
(***************************************************************************)
(* Proofs about client connections and the dispatch loop, for every number *)
(* of clients, every set of requests and every bound.                      *)
(***************************************************************************)
EXTENDS Clients, SetLemmas

(* The types of what a request or the poll changes of the clients.         *)
ClientsTyped ==
  /\ client \in [Slot -> ClientRecord]
  /\ conn \in [Slot -> Conn]
  /\ ready \in [Slot -> {"none", "ready", "saved"}]
  /\ grabClient \in Slot \cup {0}
  /\ GrabInProgress \in Slot \cup {0}
  /\ grabWaiters \in SUBSET Slot

(* Only connected clients fail or are ready, only running ones sleep, and  *)
(* one that is ignored is ready only to be closed down.                    *)
SlotsInUse ==
  \A i \in Slot :
    /\ client[i].exception => Connected(i)
    /\ client[i].asleep => client[i].state = "Running"
    /\ ready[i] # "none" => /\ Connected(i)
                            /\ client[i].exception \/ client[i].ignoreCount = 0

(* What the functions that ignore, attend, grab and close down rely on.    *)
ClientsInv ==
  ClientsTyped /\ SlotsInUse /\ IgnoredForAReason /\ GrabHeldByRunning

Place == {"wait", "accept", "serve", "execute", "after", "done"}
SetUp == {"InitialConnection", "EstablishConnection"}

DispatchTyped ==
  dispatch \in [at : Place, cur : Slot \cup {0}, yield : BOOLEAN,
                req : RequestName \cup {"none"} \cup SetUp]

(* Dispatch serves a client that is ready, until the client or the request *)
(* makes it yield; a client that is not set up makes set up requests only. *)
ServesReady ==
  LET i == dispatch.cur
  IN  /\ At("serve") \/ At("execute") \/ At("after") => i \in Slot
      /\ At("serve") \/ At("execute") \/ (At("after") /\ ~dispatch.yield)
           => ready[i] = "ready"
      /\ At("execute") =>
           dispatch.req \in IF client[i].state = "Initial"
                               THEN SetUp ELSE Requests \cup {"GrabServer"}

DispatchInv == DispatchTyped /\ ServesReady

(* The inductive invariant of the clients, Dispatch and the client table.  *)
Inv == ClientsInv /\ DispatchInv /\ TableConsistent

(* Once the server is to exit nobody is served any more.                   *)
ExitInv ==
  /\ exit \in [timer : BOOLEAN, now : BOOLEAN]
  /\ ExitsOnlyIdle
  /\ exit.now => /\ ~At("serve") /\ ~At("execute")
                 /\ At("after") => dispatch.yield

(* The ready lists agree with who is listened to, and nobody's data is     *)
(* forgotten, in every state and not only between rounds.                  *)
Heard(i) ==
  /\ ~client[i].impervious
  /\ ready[i] = "ready" => listen_to_client(i) \/ client[i].exception
  /\ ready[i] = "saved" => GrabInProgress \notin {0, i}
  /\ Connected(i) /\ client[i].ignoreCount = 0 /\ Unreported(conn[i])
       => \/ ready[i] = IF listen_to_client(i) THEN "ready" ELSE "saved"
          \/ client[i].exception /\ ready[i] # "none"

ListenInv == \A i \in Slot : Heard(i)
-----------------------------------------------------------------------------
(* Ending the server grab.                                                 *)

(* UngrabServer wakes one of the waiters, if there is one.                 *)
LEMMA WaiterIsOne ==
  ASSUME grabWaiters \in SUBSET Slot
  PROVE  IF grabWaiters = {} THEN Waiter = 0 ELSE Waiter \in grabWaiters
<1> Slot \subseteq Nat
  BY ClientsAssumption DEF Slot
<1> QED  BY MinProperties DEF Waiter

(* A client that sleeps or waits is ignored, so that it can be attended.   *)
LEMMA IgnoredOnce ==
  ASSUME ClientsInv, NEW i \in Slot, client[i].asleep \/ i \in grabWaiters
  PROVE  /\ client[i].ignoreCount \in Nat \ {0}
         /\ client[i].asleep /\ i \in grabWaiters => client[i].ignoreCount >= 2
<1> DEFINE asleep == IF client[i].asleep THEN 1 ELSE 0
           waits == IF i \in grabWaiters THEN 1 ELSE 0
<1>1. client[i].ignoreCount \in Nat /\ client[i].ignoreCount >= asleep + waits
  BY DEF ClientsInv, ClientsTyped, IgnoredForAReason, ClientRecord
<1>2. asleep + waits >= 1 /\ (client[i].asleep /\ i \in grabWaiters => asleep + waits = 2)
  OBVIOUS
<1> HIDE DEF asleep, waits
<1>3. asleep + waits \in Nat
  BY DEF asleep, waits
<1> QED  BY <1>1, <1>2, <1>3

(* It is attended to once; nothing else of the clients changes.            *)
LEMMA UngrabbedClients ==
  ASSUME ClientsInv
  PROVE  /\ ClientsUngrabbed \in [Slot -> ClientRecord]
         /\ \A i \in Slot :
              /\ ClientsUngrabbed[i].state = client[i].state
              /\ ClientsUngrabbed[i].mode = client[i].mode
              /\ ClientsUngrabbed[i].asleep = client[i].asleep
              /\ ClientsUngrabbed[i].impervious = client[i].impervious
              /\ ClientsUngrabbed[i].exception = client[i].exception
              /\ ClientsUngrabbed[i].ignoreCount =
                   IF i = Waiter THEN client[i].ignoreCount - 1
                                 ELSE client[i].ignoreCount
<1>1. ASSUME NEW i \in Slot
      PROVE  ClientsUngrabbed[i] \in ClientRecord
  <2>1. CASE i = Waiter
    <3>1. client[i].ignoreCount >= 1
      <4>1. i \in grabWaiters
        BY <2>1, WaiterIsOne, ClientsAssumption DEF ClientsInv, ClientsTyped, Slot
      <4> QED  BY <4>1, IgnoredOnce
    <3> QED  BY <2>1, <3>1 DEF ClientsUngrabbed, ClientsInv, ClientsTyped, ClientRecord
  <2>2. CASE i # Waiter
    BY <2>2 DEF ClientsUngrabbed, ClientsInv, ClientsTyped
  <2> QED  BY <2>1, <2>2
<1> QED  BY <1>1 DEF ClientsUngrabbed, ClientsInv, ClientsTyped, ClientRecord

(* The poll looks at the sockets anew; nothing that was sent is lost.      *)
LEMMA PolledConn ==
  ASSUME NEW c \in Conn
  PROVE  /\ Polled(c) \in Conn
         /\ Polled(c).buffered = c.buffered
         /\ Polled(c).sent = c.sent
         /\ Polled(c).again = c.again
         /\ Polled(c).hup = c.hup
         /\ Polled(c).open = c.open
         /\ Polled(c).edge = (c.open /\ (c.sent > 0 \/ c.hup))
BY DEF Polled, Conn

LEMMA UngrabbedConns ==
  ASSUME ClientsInv
  PROVE  /\ ConnsUngrabbed \in [Slot -> Conn]
         /\ \A i \in Slot : ConnsUngrabbed[i] \in {conn[i], Polled(conn[i])}
BY PolledConn DEF ConnsUngrabbed, ClientsInv, ClientsTyped

LEMMA UngrabbedReady ==
  ASSUME ClientsInv
  PROVE  /\ ReadyUngrabbed \in [Slot -> {"none", "ready"}]
         /\ \A i \in Slot :
              ReadyUngrabbed[i] = IF ready[i] # "none" THEN "ready"
                 ELSE IF i = Waiter /\ client[i].ignoreCount = 1 THEN "ready"
                 ELSE "none"
BY DEF ReadyUngrabbed, ClientsInv, ClientsTyped
-----------------------------------------------------------------------------
(* Closing down a client                                                   *)

(* The fields of a record that is left of a client.                        *)
LEMMA GoneClient ==
  ASSUME NEW st \in ClientState, NEW m \in CloseDownMode
  PROVE  LET c == [NoClient EXCEPT !.state = st, !.mode = m]
         IN  /\ c \in ClientRecord
             /\ c.state = st /\ c.mode = m /\ c.ignoreCount = 0
             /\ ~c.asleep /\ ~c.impervious /\ ~c.exception
BY DEF NoClient, ClientRecord

(* CloseDownClient of a connected client leaves the other clients as they  *)
(* are, but for the end of the grab: then one of them is attended to.      *)
LEMMA CloseDownOthers ==
  ASSUME ClientsInv, NEW i \in Slot, Connected(i), CloseDownConnected(i)
  PROVE  /\ client' \in [Slot -> ClientRecord]
         /\ conn' \in [Slot -> Conn]
         /\ ready' \in [Slot -> {"none", "ready", "saved"}]
         /\ client'[i].state \in {"NULL", "Retained"}
         /\ client'[i].ignoreCount = 0
         /\ ~client'[i].asleep /\ ~client'[i].exception /\ ~client'[i].impervious
         /\ ready'[i] = "none"
         /\ \A j \in Slot \ {i} :
              /\ client'[j].state = client[j].state
              /\ client'[j].mode = client[j].mode
              /\ client'[j].asleep = client[j].asleep
              /\ client'[j].impervious = client[j].impervious
              /\ client'[j].exception = client[j].exception
              /\ client'[j].ignoreCount =
                   IF grabClient = i /\ j = Waiter THEN client[j].ignoreCount - 1
                                                  ELSE client[j].ignoreCount
              /\ conn'[j] \in {conn[j], Polled(conn[j])}
              /\ ready'[j] = IF grabClient = i THEN ReadyUngrabbed[j] ELSE ready[j]
<1> DEFINE kept == client[i].mode # "DestroyAll"
           gone == IF kept THEN [NoClient EXCEPT !.state = "Retained",
                                                 !.mode = client[i].mode]
                   ELSE NoClient
<1>1. /\ gone \in ClientRecord /\ gone.state \in {"NULL", "Retained"}
      /\ gone.ignoreCount = 0 /\ ~gone.asleep /\ ~gone.exception
      /\ ~gone.impervious
  <2>1. CASE kept
    <3>1. client[i].mode \in CloseDownMode /\ "Retained" \in ClientState
      BY DEF ClientsInv, ClientsTyped, ClientRecord, ClientState
    <3> QED  BY <2>1, <3>1, GoneClient
  <2>2. CASE ~kept
    BY <2>2 DEF NoClient, ClientRecord, ClientState, CloseDownMode
  <2> QED  BY <2>1, <2>2
<1> HIDE DEF gone
<1>2. NoConn \in Conn
  BY DEF NoConn, Conn
<1>3. CASE grabClient = i
  <2>1. /\ client' = [ClientsUngrabbed EXCEPT ![i] = gone]
        /\ conn' = [ConnsUngrabbed EXCEPT ![i] = NoConn]
        /\ ready' = [ReadyUngrabbed EXCEPT ![i] = "none"]
    BY <1>3 DEF CloseDownConnected, gone
  <2> QED  BY <1>1, <1>2, <1>3, <2>1, UngrabbedClients, UngrabbedConns, UngrabbedReady
<1>4. CASE grabClient # i
  <2>1. /\ client' = [client EXCEPT ![i] = gone]
        /\ conn' = [conn EXCEPT ![i] = NoConn]
        /\ ready' = [ready EXCEPT ![i] = "none"]
    BY <1>4 DEF CloseDownConnected, gone
  <2> QED  BY <1>1, <1>2, <1>4, <2>1 DEF ClientsInv, ClientsTyped
<1> QED  BY <1>3, <1>4

(* It leaves its slot free for another client, or retained, and the clients *)
(* that are left are ignored, listened to and held up as they should be.   *)
LEMMA CloseDownKeeps ==
  ASSUME ClientsInv, NEW i \in Slot, Connected(i), CloseDownConnected(i)
  PROVE  ClientsInv'
<1> DEFINE ends == grabClient = i
<1>1. GrabReleased(i)
  BY DEF CloseDownConnected
<1>2. /\ grabClient' = IF ends THEN 0 ELSE grabClient
      /\ GrabInProgress' = IF ends THEN 0 ELSE GrabInProgress
      /\ grabWaiters' = grabWaiters \ ({i} \cup (IF ends THEN {Waiter} ELSE {}))
  BY <1>1 DEF GrabReleased
<1>3. ClientsTyped'
  BY <1>2, CloseDownOthers DEF ClientsTyped, ClientsInv
<1>4. Waiter \in Slot => Waiter \in grabWaiters
  BY WaiterIsOne, ClientsAssumption DEF ClientsInv, ClientsTyped, Slot
<1>5. SlotsInUse'
  <2>1. ASSUME NEW j \in Slot, j # i
        PROVE  /\ client'[j].exception => Connected(j)'
               /\ client'[j].asleep => client'[j].state = "Running"
               /\ ready'[j] # "none" =>
                    /\ Connected(j)'
                    /\ client'[j].exception \/ client'[j].ignoreCount = 0
    <3>1. ready'[j] # "none" => Connected(j)
      <4>1. CASE ready[j] # "none"
        BY <4>1 DEF ClientsInv, SlotsInUse
      <4>2. CASE ready[j] = "none"
        <5>1. ready'[j] # "none" => j = Waiter
          BY <2>1, <4>2, CloseDownOthers, UngrabbedReady
        <5>2. j = Waiter => client[j].state = "Running"
          BY <1>4 DEF ClientsInv, IgnoredForAReason
        <5> QED  BY <5>1, <5>2 DEF Connected
      <4> QED  BY <4>1, <4>2
    <3>2. Connected(j)' <=> Connected(j)
      BY <2>1, CloseDownOthers DEF Connected
    <3>3. ready'[j] # "none" => client'[j].exception \/ client'[j].ignoreCount = 0
      <4>1. CASE ready[j] # "none" /\ ~client[j].exception
        <5>1. client[j].ignoreCount = 0
          BY <4>1 DEF ClientsInv, SlotsInUse
        <5>2. j # Waiter
          BY <1>4, <5>1, IgnoredOnce
        <5> QED  BY <2>1, <5>1, <5>2, CloseDownOthers
      <4>2. CASE ready[j] = "none"
        <5>1. ready'[j] # "none" => ends /\ j = Waiter /\ client[j].ignoreCount = 1
          BY <2>1, <4>2, CloseDownOthers, UngrabbedReady
        <5> QED  BY <2>1, <5>1, CloseDownOthers
      <4>3. CASE client[j].exception
        BY <2>1, <4>3, CloseDownOthers
      <4> QED  BY <4>1, <4>2, <4>3
    <3> QED  BY <2>1, <3>1, <3>2, <3>3, CloseDownOthers DEF ClientsInv, SlotsInUse
  <2>2. ~client'[i].exception /\ ~client'[i].asleep /\ ready'[i] = "none"
    BY CloseDownOthers
  <2> QED  BY <2>1, <2>2 DEF SlotsInUse
<1>6. IgnoredForAReason'
  <2>1. ASSUME NEW j \in Slot
        PROVE  LET reasons == (IF client'[j].asleep THEN 1 ELSE 0)
                              + (IF j \in grabWaiters' THEN 1 ELSE 0)
               IN  /\ client'[j].ignoreCount >= reasons
                   /\ ~client'[j].exception => client'[j].ignoreCount = reasons
    <3>1. CASE j = i
      <4>1. j \notin grabWaiters' /\ ~client'[j].asleep /\ client'[j].ignoreCount = 0
        BY <1>2, <3>1, CloseDownOthers
      <4> QED  BY <4>1
    <3>2. CASE j # i
      <4> DEFINE asleep == IF client[j].asleep THEN 1 ELSE 0
                 waits == IF j \in grabWaiters THEN 1 ELSE 0
                 waitsStill == IF j \in grabWaiters' THEN 1 ELSE 0
      <4>1. /\ client[j].ignoreCount >= asleep + waits
            /\ ~client[j].exception => client[j].ignoreCount = asleep + waits
            /\ client[j].ignoreCount \in Nat
        BY DEF ClientsInv, ClientsTyped, ClientRecord, IgnoredForAReason
      <4>2. waitsStill = IF ends /\ j = Waiter THEN waits - 1 ELSE waits
        BY <1>2, <1>4, <3>2
      <4>3. client'[j].ignoreCount = IF ends /\ j = Waiter
                                       THEN client[j].ignoreCount - 1
                                       ELSE client[j].ignoreCount
        BY <3>2, CloseDownOthers
      <4>4. /\ client'[j].asleep = client[j].asleep
            /\ client'[j].exception = client[j].exception
        BY <3>2, CloseDownOthers
      <4>5. asleep \in Nat /\ waits \in Nat
        OBVIOUS
      <4> DEFINE count == client[j].ignoreCount
                 countLeft == client'[j].ignoreCount
      <4>6. /\ countLeft >= asleep + waitsStill
            /\ ~client[j].exception => countLeft = asleep + waitsStill
        <5> HIDE DEF asleep, waits, waitsStill, ends
        <5> QED  BY <4>1, <4>2, <4>3, <4>5
      <4> QED  BY <4>4, <4>6
    <3> QED  BY <3>1, <3>2
  <2>2. ASSUME NEW j \in grabWaiters'
        PROVE  /\ client'[j].state = "Running"
               /\ ~client'[j].exception => conn'[j].again /\ conn'[j].buffered > 0
    <3>1. j \in grabWaiters /\ j \in Slot /\ j # i
      BY <1>2 DEF ClientsInv, ClientsTyped
    <3>2. conn'[j].again = conn[j].again /\ conn'[j].buffered = conn[j].buffered
      BY <3>1, CloseDownOthers, PolledConn DEF ClientsInv, ClientsTyped
    <3> QED  BY <3>1, <3>2, CloseDownOthers DEF ClientsInv, IgnoredForAReason
  <2> QED  BY <2>1, <2>2 DEF IgnoredForAReason
<1>7. GrabHeldByRunning'
  BY <1>2, CloseDownOthers DEF ClientsInv, ClientsTyped, GrabHeldByRunning
<1> QED  BY <1>3, <1>5, <1>6, <1>7 DEF ClientsInv
-----------------------------------------------------------------------------
(* Every step leaves the clients ignored, listened to and held up as they  *)
(* should be.                                                              *)

(* How often a client must be ignored, and the four cases of it.           *)
Reasons(i, clients, waiters) ==
  (IF clients[i].asleep THEN 1 ELSE 0) + (IF i \in waiters THEN 1 ELSE 0)

LEMMA ReasonsCounted ==
  ASSUME NEW i, NEW clients, NEW waiters
  PROVE  /\ clients[i].asleep /\ i \in waiters => Reasons(i, clients, waiters) = 2
         /\ clients[i].asleep /\ i \notin waiters => Reasons(i, clients, waiters) = 1
         /\ ~clients[i].asleep /\ i \in waiters => Reasons(i, clients, waiters) = 1
         /\ ~clients[i].asleep /\ i \notin waiters => Reasons(i, clients, waiters) = 0
BY DEF Reasons

(* A client that Dispatch serves is connected and, if its connection has   *)
(* not failed, it is not ignored.                                          *)
LEMMA ServedAttended ==
  ASSUME Inv, NEW i \in Slot, dispatch.cur = i, At("serve") \/ At("execute")
  PROVE  /\ ready[i] = "ready" /\ Connected(i)
         /\ client[i].exception \/ client[i].ignoreCount = 0
         /\ client[i].exception \/ (~client[i].asleep /\ i \notin grabWaiters)
         /\ At("execute") /\ client[i].state = "Initial" => dispatch.req \in SetUp
         /\ At("execute") /\ client[i].state = "Running" =>
              dispatch.req \in Requests \cup {"GrabServer"}
<1>1. ready[i] = "ready"
  BY DEF Inv, DispatchInv, ServesReady
<1>2. Connected(i) /\ (client[i].exception \/ client[i].ignoreCount = 0)
  BY <1>1 DEF Inv, ClientsInv, SlotsInUse
<1>3. client[i].exception \/ (~client[i].asleep /\ i \notin grabWaiters)
  BY <1>2, IgnoredOnce DEF Inv
<1> QED  BY <1>1, <1>2, <1>3 DEF Inv, DispatchInv, ServesReady

(* The end of the grab, by whoever asks for it.                            *)
LEMMA UngrabKeeps ==
  ASSUME Inv, NEW i \in Slot, ProcUngrabServer(i)
  PROVE  ClientsInv'
<1>1. /\ client' = ClientsUngrabbed /\ conn' = ConnsUngrabbed
      /\ ready' = ReadyUngrabbed /\ grabClient' = 0 /\ GrabInProgress' = 0
      /\ grabWaiters' = grabWaiters \ {Waiter}
  BY DEF ProcUngrabServer
<1> USE DEF Inv
<1>2. ClientsTyped'
  BY <1>1, UngrabbedClients, UngrabbedConns, UngrabbedReady DEF ClientsTyped, ClientsInv
<1>3. Waiter \in Slot => Waiter \in grabWaiters
  BY WaiterIsOne, ClientsAssumption DEF ClientsInv, ClientsTyped, Slot
<1>4. SlotsInUse'
  <2> SUFFICES ASSUME NEW j \in Slot
               PROVE  /\ client'[j].exception => Connected(j)'
                      /\ client'[j].asleep => client'[j].state = "Running"
                      /\ ready'[j] # "none" =>
                           /\ Connected(j)'
                           /\ client'[j].exception \/ client'[j].ignoreCount = 0
    BY DEF SlotsInUse
  <2>1. Connected(j)' <=> Connected(j)
    BY <1>1, UngrabbedClients DEF Connected
  <2>2. /\ client'[j].exception => Connected(j)'
        /\ client'[j].asleep => client'[j].state = "Running"
    BY <1>1, <2>1, UngrabbedClients DEF ClientsInv, SlotsInUse
  <2>3. CASE ready[j] # "none"
    <3>1. j = Waiter => client[j].ignoreCount # 0
      BY <1>3, IgnoredOnce
    <3> QED  BY <1>1, <2>1, <2>2, <2>3, <3>1, UngrabbedClients DEF ClientsInv, SlotsInUse
  <2>4. CASE ready[j] = "none" /\ ready'[j] # "none"
    <3>1. j = Waiter /\ client[j].ignoreCount = 1
      BY <1>1, <2>4, UngrabbedReady
    <3>2. client[j].state = "Running"
      BY <1>3, <3>1 DEF ClientsInv, IgnoredForAReason
    <3> QED  BY <1>1, <2>1, <2>2, <3>1, <3>2, UngrabbedClients DEF Connected
  <2> QED  BY <2>2, <2>3, <2>4
<1>5. IgnoredForAReason'
  <2>1. ASSUME NEW j \in Slot
        PROVE  /\ client'[j].ignoreCount >= Reasons(j, client', grabWaiters')
               /\ ~client'[j].exception =>
                    client'[j].ignoreCount = Reasons(j, client', grabWaiters')
    <3>1. /\ client[j].ignoreCount \in Nat
          /\ client[j].ignoreCount >= Reasons(j, client, grabWaiters)
          /\ ~client[j].exception =>
               client[j].ignoreCount = Reasons(j, client, grabWaiters)
      BY DEF ClientsInv, ClientsTyped, ClientRecord, IgnoredForAReason, Reasons
    <3>2. Reasons(j, client', grabWaiters') =
            IF j = Waiter THEN Reasons(j, client, grabWaiters) - 1
                          ELSE Reasons(j, client, grabWaiters)
      BY <1>1, <1>3, UngrabbedClients, ReasonsCounted
    <3>3. Reasons(j, client, grabWaiters) \in Nat
      BY DEF Reasons
    <3>4. /\ client'[j].exception = client[j].exception
          /\ client'[j].ignoreCount = IF j = Waiter THEN client[j].ignoreCount - 1
                                                   ELSE client[j].ignoreCount
      BY <1>1, UngrabbedClients
    <3> QED  BY <3>1, <3>2, <3>3, <3>4
  <2>2. ASSUME NEW j \in grabWaiters'
        PROVE  /\ client'[j].state = "Running"
               /\ ~client'[j].exception => conn'[j].again /\ conn'[j].buffered > 0
    <3>1. j \in grabWaiters /\ j \in Slot
      BY <1>1 DEF ClientsInv, ClientsTyped
    <3>2. conn'[j].again = conn[j].again /\ conn'[j].buffered = conn[j].buffered
      BY <1>1, <3>1, UngrabbedConns, PolledConn DEF ClientsInv, ClientsTyped
    <3> QED  BY <1>1, <3>1, <3>2, UngrabbedClients DEF ClientsInv, IgnoredForAReason
  <2> QED  BY <2>1, <2>2 DEF IgnoredForAReason, Reasons
<1>6. GrabHeldByRunning'
  BY <1>1 DEF GrabHeldByRunning
<1> QED  BY <1>2, <1>4, <1>5, <1>6 DEF ClientsInv

(* A step after which one client is ignored, sleeps or waits otherwise     *)
(* than before, and the grab is as it was.                                 *)
OneClientChanges(i) ==
  /\ client' \in [Slot -> ClientRecord]
  /\ conn' \in [Slot -> Conn]
  /\ ready' \in [Slot -> {"none", "ready", "saved"}]
  /\ grabWaiters' \in SUBSET Slot
  /\ grabClient' = grabClient /\ GrabInProgress' = GrabInProgress
  /\ \A j \in Slot \ {i} :
       /\ client'[j] = client[j]
       /\ conn'[j].again = conn[j].again /\ conn'[j].buffered = conn[j].buffered
       /\ ready'[j] = "none" <=> ready[j] = "none"
       /\ j \in grabWaiters' <=> j \in grabWaiters
  /\ ready'[i] # "none" => /\ Connected(i)'
                           /\ client'[i].exception \/ client'[i].ignoreCount = 0
  /\ client'[i].exception => Connected(i)'
  /\ client'[i].asleep => client'[i].state = "Running"
  /\ client[i].state = "Running" => client'[i].state = "Running"
  /\ i \in grabWaiters' =>
       /\ client'[i].state = "Running"
       /\ ~client'[i].exception => conn'[i].again /\ conn'[i].buffered > 0
  /\ client'[i].ignoreCount >= Reasons(i, client', grabWaiters')
  /\ ~client'[i].exception =>
       client'[i].ignoreCount = Reasons(i, client', grabWaiters')

LEMMA OneClientKeeps ==
  ASSUME Inv, NEW i \in Slot, OneClientChanges(i)
  PROVE  ClientsInv'
<1> USE DEF Inv, OneClientChanges
<1>1. ClientsTyped'
  BY DEF ClientsInv, ClientsTyped
<1>2. \A j \in Slot \ {i} : client'[j] = client[j]
  OBVIOUS
<1>3. \A j \in Slot \ {i} : Connected(j)' <=> Connected(j)
  BY <1>2 DEF Connected
<1>4. SlotsInUse'
  BY <1>2, <1>3 DEF ClientsInv, SlotsInUse
<1>5. IgnoredForAReason'
  <2>1. ASSUME NEW j \in Slot
        PROVE  /\ client'[j].ignoreCount >= Reasons(j, client', grabWaiters')
               /\ ~client'[j].exception =>
                    client'[j].ignoreCount = Reasons(j, client', grabWaiters')
    <3>1. CASE j = i
      BY <1>2, <3>1
    <3>2. CASE j # i
      <4>1. Reasons(j, client', grabWaiters') = Reasons(j, client, grabWaiters)
        <5>1. j \in grabWaiters' <=> j \in grabWaiters
          BY <3>2
        <5>2. client'[j].asleep = client[j].asleep
          BY <1>2, <3>2
        <5> QED  BY <5>1, <5>2 DEF Reasons
      <4>2. /\ client[j].ignoreCount >= Reasons(j, client, grabWaiters)
            /\ ~client[j].exception =>
                 client[j].ignoreCount = Reasons(j, client, grabWaiters)
        BY DEF ClientsInv, IgnoredForAReason, Reasons
      <4> QED  BY <1>2, <3>2, <4>1, <4>2
    <3> QED  BY <3>1, <3>2
  <2>2. ASSUME NEW j \in grabWaiters'
        PROVE  /\ client'[j].state = "Running"
               /\ ~client'[j].exception => conn'[j].again /\ conn'[j].buffered > 0
    <3>1. CASE j = i
      BY <1>2, <2>2, <3>1
    <3>2. CASE j # i
      <4>1. j \in grabWaiters /\ j \in Slot
        BY <2>2, <3>2
      <4> QED  BY <1>2, <3>2, <4>1 DEF ClientsInv, IgnoredForAReason
    <3> QED  BY <3>1, <3>2
  <2> QED  BY <2>1, <2>2 DEF IgnoredForAReason, Reasons
<1>6. GrabHeldByRunning'
  BY <1>2 DEF ClientsInv, ClientsTyped, GrabHeldByRunning
<1> QED  BY <1>1, <1>4, <1>5, <1>6 DEF ClientsInv

(* Nothing of the clients changes.                                         *)
LEMMA UnchangedKeeps ==
  ASSUME ClientsInv, UNCHANGED <<client, conn, ready, grab>>
  PROVE  ClientsInv'
BY DEF ClientsInv, ClientsTyped, SlotsInUse, IgnoredForAReason, GrabHeldByRunning,
       Connected, grab

(* Retained clients are freed.                                             *)
LEMMA RetainedKeeps ==
  ASSUME Inv, NEW gone \in SUBSET {i \in Slot : client[i].state = "Retained"},
         CloseDownRetained(gone)
  PROVE  ClientsInv'
<1> USE DEF Inv
<1>1. /\ client' = [i \in Slot |-> IF i \in gone THEN NoClient ELSE client[i]]
      /\ conn' = conn /\ ready' = ready /\ grabClient' = grabClient
      /\ GrabInProgress' = GrabInProgress /\ grabWaiters' = grabWaiters
  BY DEF CloseDownRetained, grab
<1>2. NoClient \in ClientRecord
  BY DEF NoClient, ClientRecord, ClientState, CloseDownMode
<1>3. \A i \in gone : /\ ~client[i].exception /\ ~client[i].asleep
                       /\ ready[i] = "none" /\ i \notin grabWaiters
                       /\ grabClient # i
  <2> SUFFICES ASSUME NEW i \in Slot, client[i].state = "Retained"
               PROVE  /\ ~client[i].exception /\ ~client[i].asleep
                      /\ ready[i] = "none" /\ i \notin grabWaiters
                      /\ grabClient # i
    OBVIOUS
  <2>1. ~Connected(i) /\ client[i].state # "Running" /\ i # 0
    BY ClientsAssumption DEF Connected, Slot
  <2> QED  BY <2>1 DEF ClientsInv, SlotsInUse, IgnoredForAReason, GrabHeldByRunning
<1>4. ClientsTyped'
  BY <1>1, <1>2 DEF ClientsInv, ClientsTyped
<1>5. SlotsInUse'
  BY <1>1, <1>3 DEF ClientsInv, SlotsInUse, Connected, NoClient
<1>6. IgnoredForAReason'
  <2>1. ASSUME NEW j \in Slot
        PROVE  /\ client'[j].ignoreCount >= Reasons(j, client', grabWaiters')
               /\ ~client'[j].exception =>
                    client'[j].ignoreCount = Reasons(j, client', grabWaiters')
    <3>1. CASE j \in gone
      <4>1. ~client'[j].asleep /\ client'[j].ignoreCount = 0 /\ j \notin grabWaiters'
        BY <1>1, <1>3, <3>1 DEF NoClient
      <4> QED  BY <4>1 DEF Reasons
    <3>2. CASE j \notin gone
      BY <1>1, <3>2 DEF Reasons, ClientsInv, IgnoredForAReason
    <3> QED  BY <3>1, <3>2
  <2>2. \A j \in grabWaiters' : j \in Slot /\ client'[j] = client[j]
    BY <1>1, <1>3 DEF ClientsInv, ClientsTyped
  <2> QED  BY <1>1, <2>1, <2>2 DEF IgnoredForAReason, Reasons, ClientsInv
<1>7. GrabHeldByRunning'
  BY <1>1, <1>3 DEF ClientsInv, ClientsTyped, GrabHeldByRunning
<1> QED  BY <1>4, <1>5, <1>6, <1>7 DEF ClientsInv

(* The least free slot is free.                                            *)
LEMMA NextIsFree ==
  ASSUME Inv
  PROVE  /\ nextFreeClientID \in 1..LimitClients
         /\ nextFreeClientID \notin Used
         /\ \A j \in (Slot \cup {LimitClients}) \ Used : nextFreeClientID <= j
<1> DEFINE S == (Slot \cup {LimitClients}) \ Used
<1>1. S \in SUBSET Nat /\ LimitClients \in S /\ \A j \in S : j \in 1..LimitClients
  BY ClientsAssumption DEF Slot, Used
<1>2. nextFreeClientID = Min(S)
  BY DEF Inv, TableConsistent, LeastFree
<1> HIDE DEF S
<1>3. nextFreeClientID \in S /\ \A j \in S : nextFreeClientID <= j
  BY <1>1, <1>2, MinProperties
<1> QED  BY <1>1, <1>3 DEF S

(* A client that is accepted gets a free slot.                             *)
LEMMA AcceptKeeps ==
  ASSUME Inv, Accept
  PROVE  ClientsInv'
<1> USE DEF Inv
<1>1. CASE nextFreeClientID = LimitClients
  BY <1>1, UnchangedKeeps DEF Accept, grab
<1>2. CASE nextFreeClientID # LimitClients
  <2>0. PICK i \in Slot : i = nextFreeClientID /\ client[i].state = "NULL"
    BY <1>2, NextIsFree, ClientsAssumption DEF Slot, Used
  <2>1. /\ client' = [client EXCEPT ![i] = NewClient]
        /\ conn' = [conn EXCEPT ![i] = NewConn]
        /\ ready' = ready /\ grabClient' = grabClient
        /\ GrabInProgress' = GrabInProgress /\ grabWaiters' = grabWaiters
    BY <1>2, <2>0 DEF Accept, grab
  <2>2. NewClient \in ClientRecord /\ NewConn \in Conn
    BY DEF NewClient, NoClient, ClientRecord, ClientState, CloseDownMode, NewConn,
           NoConn, Conn
  <2>3. client'[i] = NewClient
    BY <2>1 DEF ClientsInv, ClientsTyped
  <2>4. ready[i] = "none" /\ i \notin grabWaiters
    BY <2>0 DEF ClientsInv, SlotsInUse, IgnoredForAReason, Connected
  <2>5. ~NewClient.exception /\ ~NewClient.asleep /\ NewClient.ignoreCount = 0
    BY DEF NewClient, NoClient
  <2>6. Reasons(i, client', grabWaiters') = 0
    BY <2>1, <2>3, <2>4, <2>5 DEF Reasons
  <2>7. /\ conn' \in [Slot -> Conn]
        /\ \A j \in Slot \ {i} : conn'[j] = conn[j]
        /\ ready' \in [Slot -> {"none", "ready", "saved"}]
        /\ grabWaiters' \in SUBSET Slot
    BY <2>1, <2>2 DEF ClientsInv, ClientsTyped
  <2>8. client' \in [Slot -> ClientRecord]
    BY <2>1, <2>2 DEF ClientsInv, ClientsTyped
  <2>9. \A j \in Slot \ {i} : client'[j] = client[j]
    BY <2>1 DEF ClientsInv, ClientsTyped
  <2>10. OneClientChanges(i)
    BY <2>0, <2>1, <2>3, <2>4, <2>5, <2>6, <2>7, <2>8, <2>9 DEF OneClientChanges
  <2> QED  BY <2>10, OneClientKeeps
<1> QED  BY <1>1, <1>2

(* What the poll reports and clients do changes a connection; its buffer   *)
(* stays as it is.                                                         *)
LEMMA ConnKeeps ==
  ASSUME Inv, NEW i \in Slot, NEW c \in Conn,
         c.again = conn[i].again, c.buffered = conn[i].buffered,
         conn' = [conn EXCEPT ![i] = c],
         ready' = ready \/ (ready' = mark_client_ready(i) /\ listen_to_client(i)),
         Connected(i), UNCHANGED <<client, grab>>
  PROVE  ClientsInv'
<1>1. OneClientChanges(i)
  <2>1. ready[i] = "none" /\ ready'[i] # "none" => client[i].ignoreCount = 0
    BY DEF mark_client_ready, listen_to_client, Inv, ClientsInv, ClientsTyped
  <2>2. /\ client[i].ignoreCount >= Reasons(i, client, grabWaiters)
        /\ ~client[i].exception =>
             client[i].ignoreCount = Reasons(i, client, grabWaiters)
    BY DEF Inv, ClientsInv, IgnoredForAReason, Reasons
  <2>3. /\ client' = client /\ grabClient' = grabClient
        /\ GrabInProgress' = GrabInProgress /\ grabWaiters' = grabWaiters
    BY DEF grab
  <2>4. /\ ready' \in [Slot -> {"none", "ready", "saved"}]
        /\ \A j \in Slot \ {i} : ready'[j] = ready[j]
    BY DEF mark_client_ready, Inv, ClientsInv, ClientsTyped
  <2>5. /\ conn' \in [Slot -> Conn] /\ conn'[i] = c
        /\ \A j \in Slot \ {i} : conn'[j] = conn[j]
    BY DEF Inv, ClientsInv, ClientsTyped
  <2>6. /\ client[i].asleep => client[i].state = "Running"
        /\ ready[i] # "none" => client[i].exception \/ client[i].ignoreCount = 0
    BY DEF Inv, ClientsInv, SlotsInUse
  <2>7. i \in grabWaiters =>
          /\ client[i].state = "Running"
          /\ ~client[i].exception => conn[i].again /\ conn[i].buffered > 0
    BY DEF Inv, ClientsInv, IgnoredForAReason
  <2>8. ready'[i] # "none" => client[i].exception \/ client[i].ignoreCount = 0
    BY <2>1, <2>6 DEF mark_client_ready
  <2> QED  BY <2>2, <2>3, <2>4, <2>5, <2>6, <2>7, <2>8
        DEF OneClientChanges, Connected, Inv, ClientsInv, ClientsTyped
<1> QED  BY <1>1, OneClientKeeps

(* The steps of the poll and of the clients.                               *)
LEMMA PollKeeps ==
  ASSUME Inv, NEW i \in Slot,
         Send(i) \/ HangUp(i) \/ ClientReadyRead(i) \/ FlushClient(i) \/ WakeUp(i)
  PROVE  ClientsInv'
<1> USE DEF Inv
<1>0. conn[i] \in Conn
  BY DEF ClientsInv, ClientsTyped
<1>1. CASE Send(i)
  <2>0. [conn[i] EXCEPT !.sent = @ + 1, !.edge = TRUE] \in Conn
    <3>1. conn[i].sent + 1 \in Nat
      BY <1>0 DEF Conn
    <3>2. \A n \in Nat : [conn[i] EXCEPT !.sent = n, !.edge = TRUE] \in Conn
      BY <1>0 DEF Conn
    <3> QED  BY <3>1, <3>2
  <2>1. PICK c \in Conn : c = [conn[i] EXCEPT !.sent = @ + 1, !.edge = TRUE]
    BY <2>0
  <2>2. conn' = [conn EXCEPT ![i] = c]
    BY <1>1, <2>1 DEF Send, ClientsInv, ClientsTyped
  <2>3. c.again = conn[i].again /\ c.buffered = conn[i].buffered
    BY <1>0, <2>1 DEF Conn
  <2> QED  BY <1>1, <2>2, <2>3, ConnKeeps DEF Send
<1>2. CASE HangUp(i)
  <2>1. PICK c \in Conn : c = [conn[i] EXCEPT !.hup = TRUE, !.edge = TRUE]
    BY <1>0 DEF Conn
  <2>2. conn' = [conn EXCEPT ![i] = c]
    BY <1>2, <2>1 DEF HangUp, ClientsInv, ClientsTyped
  <2>3. c.again = conn[i].again /\ c.buffered = conn[i].buffered
    BY <1>0, <2>1 DEF Conn
  <2> QED  BY <1>2, <2>2, <2>3, ConnKeeps DEF HangUp
<1>3. CASE ClientReadyRead(i)
  <2>1. PICK c \in Conn : c = [conn[i] EXCEPT !.edge = FALSE]
    BY <1>0 DEF Conn
  <2>2. conn' = [conn EXCEPT ![i] = c]
    BY <1>3, <2>1 DEF ClientReadyRead, ClientsInv, ClientsTyped
  <2>3. c.again = conn[i].again /\ c.buffered = conn[i].buffered
    BY <1>0, <2>1 DEF Conn
  <2> QED  BY <1>3, <2>2, <2>3, ConnKeeps DEF ClientReadyRead
<1>4. CASE FlushClient(i)
  <2>1. /\ client' = [client EXCEPT ![i].exception = TRUE]
        /\ conn' = [conn EXCEPT ![i] = AbortClient(@)]
        /\ ready' = mark_client_ready(i)
        /\ grabClient' = grabClient /\ GrabInProgress' = GrabInProgress
        /\ grabWaiters' = grabWaiters
    BY <1>4 DEF FlushClient, grab
  <2>2. /\ AbortClient(conn[i]) \in Conn
        /\ conn' \in [Slot -> Conn] /\ \A j \in Slot \ {i} : conn'[j] = conn[j]
    BY <1>0, <2>1 DEF AbortClient, Conn, ClientsInv, ClientsTyped
  <2>3. /\ client' \in [Slot -> ClientRecord]
        /\ \A j \in Slot \ {i} : client'[j] = client[j]
        /\ client'[i].state = client[i].state /\ client'[i].asleep = client[i].asleep
        /\ client'[i].ignoreCount = client[i].ignoreCount /\ client'[i].exception
    BY <2>1 DEF ClientsInv, ClientsTyped, ClientRecord
  <2>4. /\ ready' \in [Slot -> {"none", "ready", "saved"}]
        /\ \A j \in Slot \ {i} : ready'[j] = ready[j]
    BY <2>1 DEF mark_client_ready, ClientsInv, ClientsTyped
  <2>5. client'[i].ignoreCount >= Reasons(i, client', grabWaiters')
    BY <2>1, <2>3 DEF ClientsInv, IgnoredForAReason, Reasons
  <2>6. /\ Connected(i)'
        /\ client[i].asleep => client[i].state = "Running"
        /\ i \in grabWaiters => client[i].state = "Running"
    BY <1>4, <2>3 DEF FlushClient, Connected, ClientsInv, SlotsInUse, IgnoredForAReason
  <2>7. grabWaiters' \in SUBSET Slot
    BY <2>1 DEF ClientsInv, ClientsTyped
  <2>8. OneClientChanges(i)
    BY <2>1, <2>2, <2>3, <2>4, <2>5, <2>6, <2>7 DEF OneClientChanges
  <2> QED  BY <2>8, OneClientKeeps
<1>5. CASE WakeUp(i)
  <2>1. /\ client[i].asleep
        /\ client' = [client EXCEPT ![i].ignoreCount = @ - 1, ![i].asleep = FALSE]
        /\ IF client[i].ignoreCount > 1 THEN conn' = conn /\ ready' = ready
            ELSE /\ conn' = [conn EXCEPT ![i] = Polled(@)]
                 /\ ready' = [ready EXCEPT ![i] =
                      IF @ # "none" THEN @
                      ELSE IF GrabInProgress \in {0, i} \/ client[i].impervious
                             THEN "ready" ELSE "saved"]
        /\ grabClient' = grabClient /\ GrabInProgress' = GrabInProgress
        /\ grabWaiters' = grabWaiters
    BY <1>5 DEF WakeUp, AttendClient, grab
  <2>2. client[i].ignoreCount \in Nat \ {0}
    BY <2>1, IgnoredOnce
  <2>3. /\ client' \in [Slot -> ClientRecord]
        /\ \A j \in Slot \ {i} : client'[j] = client[j]
        /\ client'[i].state = client[i].state /\ ~client'[i].asleep
        /\ client'[i].ignoreCount = client[i].ignoreCount - 1
        /\ client'[i].exception = client[i].exception
    BY <2>1, <2>2 DEF ClientsInv, ClientsTyped, ClientRecord
  <2>4. /\ conn' \in [Slot -> Conn] /\ \A j \in Slot \ {i} : conn'[j] = conn[j]
        /\ conn'[i] \in {conn[i], Polled(conn[i])}
    BY <1>0, <2>1, PolledConn DEF ClientsInv, ClientsTyped
  <2>5. /\ ready' \in [Slot -> {"none", "ready", "saved"}]
        /\ \A j \in Slot \ {i} : ready'[j] = ready[j]
        /\ client[i].ignoreCount > 1 => ready'[i] = ready[i]
    BY <2>1 DEF ClientsInv, ClientsTyped
  <2>6. client[i].state = "Running" /\ Connected(i)'
    BY <2>1, <2>3 DEF Connected, ClientsInv, SlotsInUse
  <2>7. ready'[i] # "none" => client'[i].exception \/ client'[i].ignoreCount = 0
    BY <2>2, <2>3, <2>5 DEF ClientsInv, SlotsInUse
  <2>8. conn'[i].again = conn[i].again /\ conn'[i].buffered = conn[i].buffered
    BY <1>0, <2>4, PolledConn
  <2>9. i \in grabWaiters /\ ~client[i].exception => conn[i].again /\ conn[i].buffered > 0
    BY DEF ClientsInv, IgnoredForAReason
  <2>10. /\ client[i].ignoreCount >= Reasons(i, client, grabWaiters)
         /\ ~client[i].exception =>
              client[i].ignoreCount = Reasons(i, client, grabWaiters)
    BY DEF ClientsInv, IgnoredForAReason, Reasons
  <2>11. Reasons(i, client', grabWaiters') = Reasons(i, client, grabWaiters) - 1
    <3> DEFINE waits == IF i \in grabWaiters THEN 1 ELSE 0
    <3>1. Reasons(i, client, grabWaiters) = 1 + waits
      BY <2>1 DEF Reasons
    <3>2. Reasons(i, client', grabWaiters') = 0 + waits
      BY <2>1, <2>3 DEF Reasons
    <3>3. waits \in Nat
      OBVIOUS
    <3> HIDE DEF waits
    <3> QED  BY <3>1, <3>2, <3>3
  <2>12. Reasons(i, client, grabWaiters) \in Nat
    BY DEF Reasons
  <2>13. /\ client'[i].ignoreCount >= Reasons(i, client', grabWaiters')
         /\ ~client'[i].exception =>
              client'[i].ignoreCount = Reasons(i, client', grabWaiters')
    BY <2>2, <2>3, <2>10, <2>11, <2>12
  <2>14. grabWaiters' \in SUBSET Slot
    BY <2>1 DEF ClientsInv, ClientsTyped
  <2>15. OneClientChanges(i)
    BY <2>1, <2>3, <2>4, <2>5, <2>6, <2>7, <2>8, <2>9, <2>13, <2>14
       DEF OneClientChanges
  <2> QED  BY <2>15, OneClientKeeps
<1> QED  BY <1>1, <1>2, <1>3, <1>4, <1>5

(* A request that is read leaves the rest of the buffer.                   *)
LEMMA ReadConn ==
  ASSUME NEW c \in Conn, HasRequest(c)
  PROVE  Read(c) \in Conn /\ Read(c).hup = c.hup /\ Read(c).open = c.open
<1> DEFINE have == IF c.buffered > 0 THEN c.buffered ELSE c.sent
           left == IF c.buffered > 0 THEN c.sent ELSE 0
           edge == c.edge /\ (left > 0 \/ c.hup)
<1>1. have - 1 \in Nat /\ left \in Nat
  BY DEF Conn, HasRequest
<1>2. edge \in BOOLEAN
  BY DEF Conn
<1>3. PICK b \in Nat, s \in Nat, e \in BOOLEAN :
        b = have - 1 /\ s = left /\ e = edge
  BY <1>1, <1>2
<1>4. Read(c) = [c EXCEPT !.buffered = b, !.sent = s, !.again = FALSE, !.edge = e]
  BY <1>3 DEF Read
<1> QED  BY <1>4 DEF Conn

(* Reading a request: the client served either does not wait for the grab, *)
(* or its connection has failed.                                           *)
LEMMA ReadKeeps ==
  ASSUME Inv, NEW i \in Slot, ReadRequest(i)
  PROVE  ClientsInv'
<1> USE DEF Inv
<1>1. /\ client' = client /\ conn' = [conn EXCEPT ![i] = Read(@)]
      /\ ready' = ready /\ grabClient' = grabClient
      /\ GrabInProgress' = GrabInProgress /\ grabWaiters' = grabWaiters
      /\ At("serve") /\ dispatch.cur = i /\ HasRequest(conn[i])
  BY DEF ReadRequest, Serving, grab
<1>2. conn[i] \in Conn
  BY DEF ClientsInv, ClientsTyped
<1>3. Read(conn[i]) \in Conn
  BY <1>1, <1>2, ReadConn
<1>4. /\ ready[i] = "ready" /\ Connected(i)
      /\ client[i].exception \/ client[i].ignoreCount = 0
      /\ client[i].exception \/ (~client[i].asleep /\ i \notin grabWaiters)
  BY <1>1, ServedAttended
<1>5. /\ conn' \in [Slot -> Conn] /\ \A j \in Slot \ {i} : conn'[j] = conn[j]
  BY <1>1, <1>3 DEF ClientsInv, ClientsTyped
<1>6. /\ client[i].ignoreCount >= Reasons(i, client, grabWaiters)
      /\ ~client[i].exception =>
           client[i].ignoreCount = Reasons(i, client, grabWaiters)
  BY DEF ClientsInv, IgnoredForAReason, Reasons
<1>7. OneClientChanges(i)
  <2>1. /\ client[i].asleep => client[i].state = "Running"
        /\ i \in grabWaiters => client[i].state = "Running"
    BY DEF ClientsInv, SlotsInUse, IgnoredForAReason
  <2>2. Connected(i)'
    BY <1>1, <1>4 DEF Connected
  <2>3. /\ client \in [Slot -> ClientRecord]
        /\ ready \in [Slot -> {"none", "ready", "saved"}]
        /\ grabWaiters \in SUBSET Slot
    BY DEF ClientsInv, ClientsTyped
  <2> QED  BY <1>1, <1>4, <1>5, <1>6, <2>1, <2>2, <2>3 DEF OneClientChanges
<1> QED  BY <1>7, OneClientKeeps

(* There is nothing to read: the client is taken off its list.             *)
LEMMA ReadNothingKeeps ==
  ASSUME Inv, NEW i \in Slot, ReadNothing(i)
  PROVE  ClientsInv'
<1>1. /\ client' = client /\ conn' = conn /\ ready' = [ready EXCEPT ![i] = "none"]
      /\ grabClient' = grabClient /\ GrabInProgress' = GrabInProgress
      /\ grabWaiters' = grabWaiters
  BY DEF ReadNothing, grab
<1> QED  BY <1>1 DEF Inv, ClientsInv, ClientsTyped, SlotsInUse, IgnoredForAReason,
                     GrabHeldByRunning, Connected

(* A request that changes flags of the client that makes it, or puts       *)
(* itself back.                                                            *)
LEMMA FlagsKeep ==
  ASSUME Inv, NEW i \in Slot, At("execute"), dispatch.cur = i,
         client' \in [Slot -> ClientRecord], conn' \in [Slot -> Conn],
         \A j \in Slot \ {i} : client'[j] = client[j] /\ conn'[j] = conn[j],
         client'[i].ignoreCount = client[i].ignoreCount,
         client'[i].asleep = client[i].asleep,
         client'[i].state \in {client[i].state, "Running"},
         client[i].exception => client'[i].exception,
         \/ conn'[i].again /\ conn'[i].buffered > 0
         \/ conn'[i].again = conn[i].again /\ conn'[i].buffered = conn[i].buffered,
         ready' = ready, UNCHANGED grab
  PROVE  ClientsInv'
<1> USE DEF Inv
<1>1. /\ ready[i] = "ready" /\ Connected(i)
      /\ client[i].exception \/ client[i].ignoreCount = 0
  BY ServedAttended
<1>2. /\ grabClient' = grabClient /\ GrabInProgress' = GrabInProgress
      /\ grabWaiters' = grabWaiters
  BY DEF grab
<1>3. Connected(i)'
  BY <1>1 DEF Connected
<1>4. /\ client'[i].ignoreCount >= Reasons(i, client', grabWaiters')
      /\ ~client'[i].exception =>
           client'[i].ignoreCount = Reasons(i, client', grabWaiters')
  BY <1>2 DEF ClientsInv, IgnoredForAReason, Reasons
<1>5. /\ client[i].asleep => client[i].state = "Running"
      /\ i \in grabWaiters =>
           /\ client[i].state = "Running"
           /\ ~client[i].exception => conn[i].again /\ conn[i].buffered > 0
  BY DEF ClientsInv, SlotsInUse, IgnoredForAReason
<1>6. /\ ready \in [Slot -> {"none", "ready", "saved"}]
      /\ grabWaiters \in SUBSET Slot
  BY DEF ClientsInv, ClientsTyped
<1>7. OneClientChanges(i)
  BY <1>1, <1>2, <1>3, <1>4, <1>5, <1>6 DEF OneClientChanges
<1> QED  BY <1>7, OneClientKeeps

(* A request that is put back is in the buffer again.                      *)
LEMMA PutBackConn ==
  ASSUME NEW c \in Conn
  PROVE  /\ PutBack(c) \in Conn /\ PutBack(c).again /\ PutBack(c).buffered > 0
         /\ PutBack(c).sent = c.sent /\ PutBack(c).hup = c.hup
         /\ PutBack(c).open = c.open /\ PutBack(c).edge = c.edge
<1>1. PICK b \in Nat : b = c.buffered + 1 /\ b > 0
  BY DEF Conn
<1>2. PutBack(c) = [c EXCEPT !.buffered = b, !.again = TRUE]
  BY <1>1 DEF PutBack
<1> QED  BY <1>1, <1>2 DEF Conn

(* Setting up, choosing a close down mode, grab control.                   *)
LEMMA SetUpKeeps ==
  ASSUME Inv, NEW i \in Slot,
         \/ ProcInitialConnection(i) \/ ProcEstablishConnection(i)
         \/ ProcChangeCloseDownMode(i) \/ ProcXTestGrabControl(i)
  PROVE  ClientsInv'
<1> USE DEF Inv
<1>0. client[i] \in ClientRecord /\ conn[i] \in Conn
  BY DEF ClientsInv, ClientsTyped
<1>1. ASSUME client' = [client EXCEPT ![i].exception = TRUE], At("execute"),
             dispatch.cur = i, UNCHANGED <<conn, ready, grab>>
      PROVE  ClientsInv'
  <2>1. /\ client' \in [Slot -> ClientRecord]
        /\ \A j \in Slot \ {i} : client'[j] = client[j] /\ conn'[j] = conn[j]
        /\ client'[i].ignoreCount = client[i].ignoreCount
        /\ client'[i].asleep = client[i].asleep
        /\ client'[i].state = client[i].state
        /\ client'[i].exception
    BY <1>1 DEF ClientsInv, ClientsTyped, ClientRecord
  <2>2. conn' = conn /\ conn \in [Slot -> Conn]
    BY <1>1 DEF ClientsInv, ClientsTyped
  <2> QED  BY <1>1, <2>1, <2>2, FlagsKeep
<1>2. CASE ProcInitialConnection(i)
  <2>1. CASE /\ conn' = [conn EXCEPT ![i] = PutBack(@)] /\ client' = client
             /\ ready' = IF listen_to_client(i) THEN mark_client_ready(i) ELSE ready
             /\ UNCHANGED grab /\ At("execute") /\ dispatch.cur = i
    <3>1. ready' = ready
      <4>1. ready[i] = "ready"
        BY <2>1, ServedAttended
      <4>2. mark_client_ready(i) = ready
        BY <4>1 DEF mark_client_ready, ClientsInv, ClientsTyped
      <4> QED  BY <2>1, <4>2
    <3>2. /\ conn' \in [Slot -> Conn]
          /\ \A j \in Slot \ {i} : conn'[j] = conn[j]
          /\ conn'[i].again /\ conn'[i].buffered > 0
      BY <1>0, <2>1, PutBackConn DEF ClientsInv, ClientsTyped
    <3>3. client' \in [Slot -> ClientRecord]
      BY <2>1 DEF ClientsInv, ClientsTyped
    <3>4. \A j \in Slot \ {i} : client'[j] = client[j] /\ conn'[j] = conn[j]
      BY <2>1, <3>2
    <3>5. client'[i] = client[i]
      BY <2>1
    <3> QED  BY <2>1, <3>1, <3>2, <3>3, <3>4, <3>5, FlagsKeep
  <2>2. At("execute") /\ dispatch.cur = i
    BY <1>2 DEF ProcInitialConnection, Executes
  <2>3. CASE /\ client' = [client EXCEPT ![i].exception = TRUE]
             /\ UNCHANGED <<conn, ready, grab>>
    BY <1>1, <2>2, <2>3
  <2> QED  BY <1>2, <2>1, <2>2, <2>3 DEF ProcInitialConnection
<1>3. CASE ProcEstablishConnection(i)
  <2>1. CASE SendConnSetup(i)
    <3>1. /\ client' \in [Slot -> ClientRecord]
          /\ \A j \in Slot \ {i} : client'[j] = client[j]
          /\ client'[i].ignoreCount = client[i].ignoreCount
          /\ client'[i].asleep = client[i].asleep
          /\ client'[i].state = "Running"
          /\ client'[i].exception = client[i].exception
      BY <2>1 DEF SendConnSetup, ClientsInv, ClientsTyped, ClientRecord, ClientState
    <3>2. conn' = conn /\ ready' = ready /\ UNCHANGED grab /\ conn \in [Slot -> Conn]
      BY <1>3 DEF ProcEstablishConnection, ClientsInv, ClientsTyped
    <3> QED  BY <1>3, <3>1, <3>2, FlagsKeep DEF ProcEstablishConnection, Executes
  <2> QED  BY <1>1, <1>3, <2>1 DEF ProcEstablishConnection, ClientRefused, Executes
<1>4. CASE ProcChangeCloseDownMode(i)
  <2>1. PICK mode \in CloseDownMode : client' = [client EXCEPT ![i].mode = mode]
    BY <1>4 DEF ProcChangeCloseDownMode
  <2>2. /\ client' \in [Slot -> ClientRecord]
        /\ \A j \in Slot \ {i} : client'[j] = client[j]
        /\ client'[i].ignoreCount = client[i].ignoreCount
        /\ client'[i].asleep = client[i].asleep
        /\ client'[i].state = client[i].state
        /\ client'[i].exception = client[i].exception
    BY <2>1 DEF ClientsInv, ClientsTyped, ClientRecord
  <2>3. conn' = conn /\ ready' = ready /\ UNCHANGED grab /\ conn \in [Slot -> Conn]
    BY <1>4 DEF ProcChangeCloseDownMode, ClientsInv, ClientsTyped
  <2> QED  BY <1>4, <2>2, <2>3, FlagsKeep DEF ProcChangeCloseDownMode, Executes
<1>5. CASE ProcXTestGrabControl(i)
  <2>1. PICK on \in BOOLEAN : client' = [client EXCEPT ![i].impervious = on]
    BY <1>5 DEF ProcXTestGrabControl
  <2>2. /\ client' \in [Slot -> ClientRecord]
        /\ \A j \in Slot \ {i} : client'[j] = client[j]
        /\ client'[i].ignoreCount = client[i].ignoreCount
        /\ client'[i].asleep = client[i].asleep
        /\ client'[i].state = client[i].state
        /\ client'[i].exception = client[i].exception
    BY <2>1 DEF ClientsInv, ClientsTyped, ClientRecord
  <2>3. ready' = ready /\ UNCHANGED grab /\ conn' = [conn EXCEPT ![i] = Polled(@)]
    BY <1>5 DEF ProcXTestGrabControl
  <2>4. /\ conn' \in [Slot -> Conn]
        /\ \A j \in Slot \ {i} : conn'[j] = conn[j]
        /\ conn'[i].again = conn[i].again /\ conn'[i].buffered = conn[i].buffered
    BY <1>0, <2>3, PolledConn DEF ClientsInv, ClientsTyped
  <2>5. At("execute") /\ dispatch.cur = i
    BY <1>5 DEF ProcXTestGrabControl, Executes
  <2> QED  BY <2>2, <2>3, <2>4, <2>5, FlagsKeep
<1> QED  BY <1>2, <1>3, <1>4, <1>5

(* A client that is ignored is on no ready list, unless it has failed.     *)
LEMMA ReadyIgnoredTyped ==
  ASSUME Inv, NEW i \in Slot
  PROVE  /\ ReadyIgnored(i) \in [Slot -> {"none", "ready", "saved"}]
         /\ \A j \in Slot \ {i} : ReadyIgnored(i)[j] = ready[j]
         /\ ReadyIgnored(i)[i] # "none" =>
              client[i].exception /\ client[i].ignoreCount # 0
         /\ client[i].ignoreCount # 0 => ReadyIgnored(i)[i] = ready[i]
BY DEF ReadyIgnored, Inv, ClientsInv, ClientsTyped, SlotsInUse

(* A client begins to wait for the server grab.                            *)
LEMMA GrabWaitsKeeps ==
  ASSUME Inv, NEW i \in Slot, ProcGrabServerWaits(i)
  PROVE  ClientsInv'
<1> USE DEF Inv
<1>0. client[i] \in ClientRecord /\ conn[i] \in Conn
  BY DEF ClientsInv, ClientsTyped
<1>1. At("execute") /\ dispatch.cur = i /\ dispatch.req = "GrabServer"
  BY DEF ProcGrabServerWaits, Executes
<1>2. /\ client' = [client EXCEPT ![i].ignoreCount = @ + 1]
      /\ conn' = [conn EXCEPT ![i] = PutBack(@)]
      /\ ready' = ReadyIgnored(i)
      /\ grabWaiters' = grabWaiters \cup {i}
      /\ grabClient' = grabClient /\ GrabInProgress' = GrabInProgress
  BY DEF ProcGrabServerWaits
<1>3. client[i].state = "Running"
  BY <1>1, ServedAttended DEF SetUp, Connected
<1>4. PICK n \in Nat : n = client[i].ignoreCount + 1
  BY <1>0 DEF ClientRecord
<1>5. client' = [client EXCEPT ![i].ignoreCount = n]
  BY <1>2, <1>4
<1>6. /\ client' \in [Slot -> ClientRecord]
      /\ \A j \in Slot \ {i} : client'[j] = client[j]
      /\ client'[i].state = "Running" /\ client'[i].asleep = client[i].asleep
      /\ client'[i].ignoreCount = n
      /\ client'[i].exception = client[i].exception
  BY <1>3, <1>5 DEF ClientsInv, ClientsTyped, ClientRecord
<1>7. /\ conn' \in [Slot -> Conn] /\ \A j \in Slot \ {i} : conn'[j] = conn[j]
      /\ conn'[i].again /\ conn'[i].buffered > 0
  BY <1>0, <1>2, PutBackConn DEF ClientsInv, ClientsTyped
<1>8. Connected(i)'
  BY <1>6 DEF Connected
<1>9. /\ n >= Reasons(i, client', grabWaiters')
      /\ ~client[i].exception => n = Reasons(i, client', grabWaiters')
  <2> DEFINE asleep == IF client[i].asleep THEN 1 ELSE 0
             waits == IF i \in grabWaiters THEN 1 ELSE 0
  <2>1. /\ client[i].ignoreCount \in Nat
        /\ client[i].ignoreCount >= asleep + waits
        /\ ~client[i].exception => client[i].ignoreCount = asleep + waits
    BY <1>0 DEF ClientsInv, IgnoredForAReason, ClientRecord
  <2>2. Reasons(i, client', grabWaiters') = asleep + 1
    BY <1>2, <1>6 DEF Reasons
  <2>3. ~client[i].exception => waits = 0
    BY <1>1, ServedAttended
  <2>4. asleep \in Nat /\ waits \in Nat
    OBVIOUS
  <2> HIDE DEF asleep, waits
  <2> QED  BY <1>4, <2>1, <2>2, <2>3, <2>4
<1>10. grabWaiters' \in SUBSET Slot
  BY <1>2 DEF ClientsInv, ClientsTyped
<1>11. OneClientChanges(i)
  BY <1>2, <1>6, <1>7, <1>8, <1>9, <1>10, ReadyIgnoredTyped DEF OneClientChanges
<1> QED  BY <1>11, OneClientKeeps

(* A client begins to sleep.                                               *)
LEMMA SleepKeeps ==
  ASSUME Inv, NEW i \in Slot, ProcSleeps(i)
  PROVE  ClientsInv'
<1> USE DEF Inv
<1>0. client[i] \in ClientRecord /\ conn[i] \in Conn
  BY DEF ClientsInv, ClientsTyped
<1>1. At("execute") /\ dispatch.cur = i /\ dispatch.req = "sleep"
  BY DEF ProcSleeps, Executes
<1>2. /\ client' = [client EXCEPT ![i].ignoreCount = @ + 1, ![i].asleep = TRUE]
      /\ conn' = conn /\ ready' = ReadyIgnored(i) /\ grabWaiters' = grabWaiters
      /\ grabClient' = grabClient /\ GrabInProgress' = GrabInProgress
  BY DEF ProcSleeps, grab
<1>3. client[i].state = "Running"
  BY <1>1, ServedAttended DEF SetUp, Connected
<1>4. PICK n \in Nat : n = client[i].ignoreCount + 1
  BY <1>0 DEF ClientRecord
<1>5. client' = [client EXCEPT ![i].ignoreCount = n, ![i].asleep = TRUE]
  BY <1>2, <1>4
<1>6. /\ client' \in [Slot -> ClientRecord]
      /\ \A j \in Slot \ {i} : client'[j] = client[j]
      /\ client'[i].state = "Running" /\ client'[i].asleep
      /\ client'[i].ignoreCount = n
      /\ client'[i].exception = client[i].exception
  BY <1>3, <1>5 DEF ClientsInv, ClientsTyped, ClientRecord
<1>7. Connected(i)'
  BY <1>6 DEF Connected
<1>8. /\ n >= Reasons(i, client', grabWaiters')
      /\ ~client[i].exception => n = Reasons(i, client', grabWaiters')
  <2> DEFINE asleep == IF client[i].asleep THEN 1 ELSE 0
             waits == IF i \in grabWaiters THEN 1 ELSE 0
  <2>1. /\ client[i].ignoreCount \in Nat
        /\ client[i].ignoreCount >= asleep + waits
        /\ ~client[i].exception => client[i].ignoreCount = asleep + waits
    BY <1>0 DEF ClientsInv, IgnoredForAReason, ClientRecord
  <2>2. Reasons(i, client', grabWaiters') = 1 + waits
    BY <1>2, <1>6 DEF Reasons
  <2>3. ~client[i].exception => asleep = 0
    BY <1>1, ServedAttended
  <2>4. asleep \in Nat /\ waits \in Nat
    OBVIOUS
  <2> HIDE DEF asleep, waits
  <2> QED  BY <1>4, <2>1, <2>2, <2>3, <2>4
<1>9. /\ grabWaiters' \in SUBSET Slot
      /\ i \in grabWaiters /\ ~client[i].exception =>
           conn[i].again /\ conn[i].buffered > 0
      /\ conn' \in [Slot -> Conn]
  BY <1>2 DEF ClientsInv, ClientsTyped, IgnoredForAReason
<1>10. OneClientChanges(i)
  BY <1>2, <1>6, <1>7, <1>8, <1>9, ReadyIgnoredTyped DEF OneClientChanges
<1> QED  BY <1>10, OneClientKeeps

(* A client grabs the server: the other ready clients are put aside.       *)
LEMMA GrabKeeps ==
  ASSUME Inv, NEW i \in Slot, ProcGrabServer(i)
  PROVE  ClientsInv'
<1> USE DEF Inv
<1>1. At("execute") /\ dispatch.cur = i /\ dispatch.req = "GrabServer"
  BY DEF ProcGrabServer, Executes
<1>2. /\ client' = client /\ grabWaiters' = grabWaiters /\ grabClient' = i
      /\ ready' = mark_client_grab(i) /\ GrabInProgress' = i
      /\ conn' \in {conn, [j \in Slot |-> Polled(conn[j])]}
  <2>1. GrabInProgress \in {0, i}
    BY DEF ProcGrabServer, ClientsInv, GrabHeldByRunning
  <2> QED  BY <2>1 DEF ProcGrabServer, OnlyListenToOneClient
<1>3. client[i].state = "Running"
  BY <1>1, ServedAttended DEF SetUp, Connected
<1>4. /\ conn' \in [Slot -> Conn]
      /\ \A j \in Slot : /\ conn'[j].again = conn[j].again
                         /\ conn'[j].buffered = conn[j].buffered
  BY <1>2, PolledConn DEF ClientsInv, ClientsTyped
<1>5. /\ ready' \in [Slot -> {"none", "ready", "saved"}]
      /\ \A j \in Slot : ready'[j] = "none" <=> ready[j] = "none"
  BY <1>2 DEF mark_client_grab, ClientsInv, ClientsTyped
<1>6. ClientsTyped'
  BY <1>2, <1>4, <1>5 DEF ClientsInv, ClientsTyped
<1>7. SlotsInUse'
  BY <1>2, <1>5 DEF ClientsInv, SlotsInUse, Connected
<1>8. IgnoredForAReason'
  BY <1>2, <1>4 DEF ClientsInv, ClientsTyped, IgnoredForAReason
<1>9. GrabHeldByRunning'
  BY <1>2, <1>3 DEF GrabHeldByRunning
<1> QED  BY <1>6, <1>7, <1>8, <1>9 DEF ClientsInv

(* A client kills one, or those that have been retained.                   *)
LEMMA KillKeeps ==
  ASSUME Inv, NEW i \in Slot, ProcKillClient(i) \/ ProcKillAllTemporary(i)
  PROVE  ClientsInv'
<1>1. CASE ProcKillClient(i)
  <2>1. PICK j \in Used : IF Connected(j) THEN CloseDownConnected(j)
                                          ELSE CloseDownRetained({j})
    BY <1>1 DEF ProcKillClient
  <2>2. j \in Slot /\ (~Connected(j) => client[j].state = "Retained")
    BY DEF Used, Connected, Inv, ClientsInv, ClientsTyped, ClientRecord, ClientState
  <2> QED  BY <2>1, <2>2, CloseDownKeeps, RetainedKeeps DEF Inv
<1>2. CASE ProcKillAllTemporary(i)
  <2>1. PICK gone : gone = {j \in Slot : /\ client[j].state = "Retained"
                                         /\ client[j].mode = "RetainTemporary"}
    OBVIOUS
  <2>2. CloseDownRetained(gone)
    BY <1>2, <2>1 DEF ProcKillAllTemporary
  <2>3. gone \in SUBSET {j \in Slot : client[j].state = "Retained"}
    BY <2>1
  <2> QED  BY <2>2, <2>3, RetainedKeeps
<1> QED  BY <1>1, <1>2

(* Every step together.                                                    *)
LEMMA ClientsStep ==
  ASSUME Inv, Next
  PROVE  ClientsInv'
<1>1. CASE NewConnection \/ ExitTimerFires
  BY <1>1, UnchangedKeeps DEF Inv, NewConnection, ExitTimerFires
<1>2. CASE Accept
  BY <1>2, AcceptKeeps
<1>3. CASE DispatchEnds
  BY <1>3 DEF DispatchEnds, ClientsInv, ClientsTyped, SlotsInUse, IgnoredForAReason,
              GrabHeldByRunning, NoClient, NoConn, ClientRecord, ClientState,
              CloseDownMode, Conn
<1>4. ASSUME NEW i \in Slot,
             \/ CloseLate(i) \/ CloseFailed(i) \/ ClientReadyError(i) \/ ReadFails(i)
      PROVE  ClientsInv'
  <2>1. CloseDownConnected(i)
    BY <1>4 DEF CloseLate, CloseFailed, ClientReadyError, ReadFails
  <2>2. Connected(i)
    BY <1>4, ServedAttended
       DEF CloseLate, CloseFailed, ClientReadyError, ReadFails, Connected, Serving
  <2> QED  BY <2>1, <2>2, CloseDownKeeps DEF Inv
<1>5. ASSUME NEW i \in Slot, AfterRequest(i)
      PROVE  ClientsInv'
  <2>1. CASE client[i].exception
    <3>1. Connected(i) /\ CloseDownConnected(i)
      BY <1>5, <2>1 DEF AfterRequest, Inv, ClientsInv, SlotsInUse
    <3> QED  BY <3>1, CloseDownKeeps DEF Inv
  <2>2. CASE ~client[i].exception
    BY <1>5, <2>2, UnchangedKeeps DEF AfterRequest, Inv
  <2> QED  BY <2>1, <2>2
<1>6. ASSUME NEW i \in Slot, Schedule(i) \/ ProcOther(i)
      PROVE  ClientsInv'
  BY <1>6, UnchangedKeeps DEF Schedule, ProcOther, Inv
<1> QED  BY <1>1, <1>2, <1>3, <1>4, <1>5, <1>6, PollKeeps, ReadKeeps, ReadNothingKeeps,
            SetUpKeeps, GrabWaitsKeeps, GrabKeeps, UngrabKeeps, KillKeeps, SleepKeeps
         DEF Next, Serve
-----------------------------------------------------------------------------
(* Dispatch serves clients that are ready.                                 *)

(* Closing down another client leaves a ready client ready.                *)
LEMMA OthersStayReady ==
  ASSUME Inv, NEW i \in Slot, NEW j \in Slot \ {i}, Connected(i),
         CloseDownConnected(i), ready[j] = "ready"
  PROVE  ready'[j] = "ready" /\ client'[j].state = client[j].state
BY CloseDownOthers, UngrabbedReady DEF Inv

(* No step takes a client that is served off the ready list, unless it is  *)
(* time to yield or Dispatch goes back to its poll.                        *)
LEMMA DispatchStep ==
  ASSUME Inv, Next
  PROVE  DispatchInv'
<1> USE DEF Inv
<1>0. DispatchTyped
  BY DEF DispatchInv
<1>1. CASE NewConnection \/ Accept \/ ExitTimerFires \/ DispatchEnds
  <2>1. \/ dispatch' = [dispatch EXCEPT !.at = "accept"]
        \/ dispatch' = [dispatch EXCEPT !.at = "done"]
        \/ dispatch' = Waiting
        \/ dispatch' = dispatch /\ dispatch.at = "wait"
    BY <1>1 DEF NewConnection, Accept, ExitTimerFires, DispatchEnds, At
  <2>2. dispatch'.at \in {"accept", "wait", "done"} /\ DispatchTyped'
    <3>1. ASSUME NEW at \in Place, dispatch' = [dispatch EXCEPT !.at = at]
          PROVE  dispatch'.at = at /\ DispatchTyped'
      BY <1>0, <3>1 DEF DispatchTyped
    <3>2. CASE dispatch' = Waiting
      BY <3>2 DEF Waiting, DispatchTyped, Place
    <3>3. CASE dispatch' = dispatch /\ dispatch.at = "wait"
      BY <1>0, <3>3 DEF DispatchTyped
    <3> QED  BY <2>1, <3>1, <3>2, <3>3 DEF Place
  <2> QED  BY <2>2 DEF DispatchInv, ServesReady, At
<1>2. ASSUME NEW i \in Slot,
             \/ CloseLate(i) \/ CloseFailed(i) \/ ClientReadyRead(i)
             \/ ClientReadyError(i) \/ WakeUp(i) \/ ReadNothing(i) \/ ReadFails(i)
      PROVE  DispatchInv'
  <2>1. \/ dispatch' = Waiting
        \/ dispatch' = dispatch /\ dispatch.at \in {"accept", "wait"}
    BY <1>2 DEF CloseLate, CloseFailed, ClientReadyRead, ClientReadyError, WakeUp,
                ReadNothing, ReadFails, At
  <2>2. dispatch'.at \in {"accept", "wait"} /\ DispatchTyped'
    <3>1. CASE dispatch' = Waiting
      BY <3>1 DEF Waiting, DispatchTyped, Place
    <3>2. CASE dispatch' = dispatch /\ dispatch.at \in {"accept", "wait"}
      BY <1>0, <3>2 DEF DispatchTyped
    <3> QED  BY <2>1, <3>1, <3>2
  <2> QED  BY <2>2 DEF DispatchInv, ServesReady, At
<1>3. ASSUME NEW i \in Slot, Send(i) \/ HangUp(i) \/ FlushClient(i)
      PROVE  DispatchInv'
  <2>1. dispatch' = dispatch
    BY <1>3 DEF Send, HangUp, FlushClient
  <2>2. \A j \in Slot : ready[j] = "ready" => ready'[j] = "ready"
    BY <1>3 DEF Send, HangUp, FlushClient, mark_client_ready, ClientsInv, ClientsTyped
  <2>3. \A j \in Slot : client'[j].state = client[j].state
    BY <1>3 DEF Send, HangUp, FlushClient, ClientsInv, ClientsTyped, ClientRecord
  <2> QED  BY <1>0, <2>1, <2>2, <2>3 DEF DispatchInv, DispatchTyped, ServesReady, At
<1>4. ASSUME NEW i \in Slot, Schedule(i)
      PROVE  DispatchInv'
  <2>1. dispatch' = [at |-> "serve", cur |-> i, yield |-> FALSE, req |-> "none"]
    BY <1>4 DEF Schedule, Waiting
  <2>2. ready'[i] = "ready"
    BY <1>4 DEF Schedule
  <2> QED  BY <2>1, <2>2 DEF DispatchInv, DispatchTyped, Place, ServesReady, At
<1>5. ASSUME NEW i \in Slot, ReadRequest(i)
      PROVE  DispatchInv'
  <2>1. PICK req \in NextRequests(i) :
          dispatch' = [dispatch EXCEPT !.at = "execute", !.req = req]
    BY <1>5 DEF ReadRequest
  <2>2. dispatch.cur = i /\ At("serve") /\ ready[i] = "ready"
    BY <1>5, ServedAttended DEF ReadRequest, Serving
  <2>3. req \in IF client[i].state = "Initial" THEN SetUp
                                              ELSE Requests \cup {"GrabServer"}
    BY <2>1 DEF NextRequests, SetUpRequest, SetUp
  <2>4. req \in RequestName \cup SetUp
    BY <2>3, ClientsAssumption DEF RequestName
  <2>5. /\ dispatch'.at = "execute" /\ dispatch'.cur = i /\ dispatch'.req = req
        /\ DispatchTyped'
    BY <1>0, <2>1, <2>2, <2>4 DEF DispatchTyped, Place
  <2>6. ready' = ready /\ client' = client
    BY <1>5 DEF ReadRequest
  <2> QED  BY <2>2, <2>3, <2>5, <2>6 DEF DispatchInv, ServesReady, At
<1>6. ASSUME NEW i \in Slot, AfterRequest(i)
      PROVE  DispatchInv'
  <2>1. CASE dispatch' = Waiting
    BY <2>1 DEF Waiting, DispatchInv, DispatchTyped, Place, ServesReady, At
  <2>2. CASE dispatch' # Waiting
    <3>1. /\ ~dispatch.yield /\ dispatch' = [dispatch EXCEPT !.at = "serve"]
          /\ ready' = ready /\ At("after") /\ dispatch.cur = i
      BY <1>6, <2>2 DEF AfterRequest
    <3>2. ready[i] = "ready"
      BY <3>1 DEF DispatchInv, ServesReady
    <3>3. DispatchTyped' /\ dispatch'.at = "serve" /\ dispatch'.cur = i
      BY <1>0, <3>1 DEF DispatchTyped, Place
    <3> QED  BY <3>1, <3>2, <3>3 DEF DispatchInv, ServesReady, At
  <2> QED  BY <2>1, <2>2
<1>7. ASSUME NEW i \in Slot, NEW req, NEW yields \in BOOLEAN, Executes(i, req, yields),
             ~yields => ready'[i] = "ready"
      PROVE  DispatchInv'
  <2>1. /\ DispatchTyped' /\ dispatch'.at = "after" /\ dispatch'.cur = i
        /\ ~dispatch'.yield => ~yields
    BY <1>0, <1>7 DEF Executes, DispatchTyped, Place
  <2> QED  BY <1>7, <2>1 DEF DispatchInv, ServesReady, At
<1>8. ASSUME NEW i \in Slot, At("execute"), dispatch.cur = i
      PROVE  ready[i] = "ready"
  BY <1>8, ServedAttended
<1>9. ASSUME NEW i \in Slot,
             \/ ProcEstablishConnection(i) \/ ProcOther(i)
             \/ ProcKillAllTemporary(i) \/ ProcChangeCloseDownMode(i)
      PROVE  DispatchInv'
  <2>1. PICK req : Executes(i, req, FALSE)
    BY <1>9 DEF ProcEstablishConnection, ProcOther, ProcKillAllTemporary,
                ProcChangeCloseDownMode
  <2>2. ready' = ready
    BY <1>9 DEF ProcEstablishConnection, ProcOther, ProcKillAllTemporary,
                ProcChangeCloseDownMode, CloseDownRetained
  <2>3. ready[i] = "ready"
    BY <1>8, <2>1 DEF Executes
  <2> QED  BY <1>7, <2>1, <2>2, <2>3
<1>10. ASSUME NEW i \in Slot, ProcInitialConnection(i)
       PROVE  DispatchInv'
  <2>1. PICK yields \in BOOLEAN : /\ Executes(i, "InitialConnection", yields)
                                  /\ ~yields => ready' = ready
    BY <1>10 DEF ProcInitialConnection
  <2>2. ready[i] = "ready"
    BY <1>8, <2>1 DEF Executes
  <2> QED  BY <1>7, <2>1, <2>2
<1>11. ASSUME NEW i \in Slot, ProcXTestGrabControl(i)
       PROVE  DispatchInv'
  <2>1. PICK on \in BOOLEAN : Executes(i, "GrabControl", ~on) /\ ready' = ready
    BY <1>11 DEF ProcXTestGrabControl
  <2>2. ready[i] = "ready"
    BY <1>8, <2>1 DEF Executes
  <2> QED  BY <1>7, <2>1, <2>2
<1>12. ASSUME NEW i \in Slot, ProcGrabServerWaits(i) \/ ProcSleeps(i)
       PROVE  DispatchInv'
  <2>1. CASE ProcGrabServerWaits(i)
    BY <1>7, <2>1 DEF ProcGrabServerWaits
  <2>2. CASE ProcSleeps(i)
    <3>1. PICK yields \in BOOLEAN : yields = (client[i].ignoreCount = 0)
      OBVIOUS
    <3>2. Executes(i, "sleep", yields) /\ ready' = ReadyIgnored(i)
      BY <2>2, <3>1 DEF ProcSleeps
    <3>3. ready[i] = "ready"
      BY <1>8, <3>2 DEF Executes
    <3>4. ~yields => ready'[i] = "ready"
      BY <3>1, <3>2, <3>3, ReadyIgnoredTyped
    <3> QED  BY <1>7, <3>2, <3>4
  <2> QED  BY <1>12, <2>1, <2>2
<1>13. ASSUME NEW i \in Slot, ProcGrabServer(i) \/ ProcUngrabServer(i)
       PROVE  DispatchInv'
  <2>1. PICK req : Executes(i, req, FALSE)
    BY <1>13 DEF ProcGrabServer, ProcUngrabServer
  <2>2. ready[i] = "ready"
    BY <1>8, <2>1 DEF Executes
  <2>3. ready'[i] = "ready"
    BY <1>13, <2>2, UngrabbedReady DEF ProcGrabServer, ProcUngrabServer, mark_client_grab
  <2> QED  BY <1>7, <2>1, <2>3
<1>14. ASSUME NEW i \in Slot, ProcKillClient(i)
       PROVE  DispatchInv'
  <2>1. PICK j \in Used : /\ Executes(i, "KillClient", i = j)
                         /\ IF Connected(j) THEN CloseDownConnected(j)
                                            ELSE CloseDownRetained({j})
    BY <1>14 DEF ProcKillClient
  <2>2. PICK yields \in BOOLEAN : yields = (i = j)
    OBVIOUS
  <2>3. Executes(i, "KillClient", yields) /\ j \in Slot
    BY <2>1, <2>2 DEF Used
  <2>4. ready[i] = "ready"
    BY <1>8, <2>3 DEF Executes
  <2>5. ~yields => ready'[i] = "ready"
    BY <2>1, <2>2, <2>3, <2>4, OthersStayReady DEF CloseDownRetained
  <2> QED  BY <1>7, <2>3, <2>5
<1> QED  BY <1>1, <1>2, <1>3, <1>4, <1>5, <1>6, <1>9, <1>10, <1>11, <1>12, <1>13, <1>14
         DEF Next, Serve
-----------------------------------------------------------------------------
(* The client table                                                        *)

Runs == {i \in Slot : client[i].state = "Running"}

(* Slots are finitely many, so those in use and those that run can be      *)
(* counted.                                                                *)
LEMMA SlotsFinite ==
  /\ IsFiniteSet(Slot) /\ Cardinality(Slot) = LimitClients - 1
  /\ IsFiniteSet(Runs) /\ Cardinality(Runs) \in 0..(LimitClients - 1)
<1>1. IsFiniteSet(Slot) /\ Cardinality(Slot) = LimitClients - 1
  BY FS_Interval, ClientsAssumption DEF Slot
<1>2. Runs \in SUBSET Slot
  BY DEF Runs
<1> QED  BY <1>1, <1>2, FS_Subset, FS_CardinalityType, ClientsAssumption

(* The slots in use are below currentMaxClients.                           *)
LEMMA UsedBounded ==
  ASSUME NEW S \in SUBSET Slot
  PROVE  /\ Max(S \cup {0}) \in S \cup {0}
         /\ \A i \in S : i <= Max(S \cup {0})
         /\ Max(S \cup {0}) \in 0..(LimitClients - 1)
<1> DEFINE T == S \cup {0}
<1>1. T \in SUBSET Nat /\ 0 \in T /\ \A i \in T : i <= LimitClients - 1
  BY ClientsAssumption DEF Slot
<1>2. /\ S \subseteq T /\ LimitClients - 1 \in Nat
      /\ \A i \in T : i \in 0..(LimitClients - 1)
  BY <1>1, ClientsAssumption
<1> HIDE DEF T
<1>3. Max(T) \in T /\ \A i \in T : i <= Max(T)
  BY <1>1, <1>2, MaxProperties
<1>4. Max(T) \in 0..(LimitClients - 1)
  BY <1>2, <1>3
<1> QED  BY <1>2, <1>3, <1>4 DEF T

(* A step that changes neither the table nor the state of a client.        *)
LEMMA TableUnchanged ==
  ASSUME TableConsistent, UNCHANGED table,
         \A i \in Slot : client'[i].state = client[i].state
  PROVE  TableConsistent'
<1>1. Used' = Used
  BY DEF Used
<1>2. {i \in Slot : client'[i].state = "Running"}
        = {i \in Slot : client[i].state = "Running"}
  OBVIOUS
<1> QED  BY <1>1, <1>2 DEF TableConsistent, table, LeastFree

(* Slots that are freed lower nextFreeClientID to the least of them.       *)
LEMMA FreeSlotsKeeps ==
  ASSUME Inv, NEW freed \in SUBSET Used, NEW lastGone,
         FreeSlots(freed, lastGone), Used' = Used \ freed
  PROVE  /\ nextFreeClientID' = LeastFree(Used')
         /\ currentMaxClients' = Max(Used' \cup {0}) + 1
<1>1. nextFreeClientID' = LeastFree(Used')
  <2> DEFINE S == (Slot \cup {LimitClients}) \ (Used \ freed)
             T == freed \cup {nextFreeClientID}
  <2>0. /\ freed \subseteq Slot /\ Slot \subseteq Nat
        /\ nextFreeClientID \in Nat
        /\ nextFreeClientID \in (Slot \cup {LimitClients}) \ Used
    <3>1. freed \subseteq Slot
      BY DEF Used
    <3>2. /\ nextFreeClientID \in 1..LimitClients /\ nextFreeClientID \notin Used
      BY NextIsFree
    <3> QED  BY <3>1, <3>2, ClientsAssumption DEF Slot
  <2>1. T \in SUBSET Nat /\ T # {}
    BY <2>0
  <2>2. Min(T) \in T /\ \A j \in T : Min(T) <= j
    BY <2>1, MinProperties
  <2>3. S \in SUBSET Nat /\ T \in SUBSET S
    BY <2>0, ClientsAssumption
  <2>4. ASSUME NEW j \in S
        PROVE  Min(T) <= j
    <3>1. CASE j \in freed
      BY <2>2, <3>1
    <3>2. CASE j \notin freed
      <4>1. nextFreeClientID <= j
        BY <3>2, NextIsFree
      <4>2. Min(T) <= nextFreeClientID
        BY <2>2
      <4> QED  BY <2>1, <2>2, <2>3, <4>1, <4>2
    <3> QED  BY <3>1, <3>2
  <2>5. Min(S) = Min(T)
    <3> HIDE DEF S, T
    <3> QED  BY <2>2, <2>3, <2>4, MinUnique
  <2> QED  BY <2>5 DEF FreeSlots, LeastFree
<1>2. currentMaxClients' = Max(Used' \cup {0}) + 1
  <2>1. CASE freed = {}
    <3>1. Used' = Used /\ currentMaxClients' = currentMaxClients
      BY <2>1 DEF FreeSlots
    <3> QED  BY <3>1 DEF Inv, TableConsistent
  <2>2. CASE freed # {}
    BY <2>2 DEF FreeSlots
  <2> QED  BY <2>1, <2>2
<1> QED  BY <1>1, <1>2

(* A connected client is closed down.                                      *)
LEMMA CloseDownTable ==
  ASSUME Inv, NEW i \in Slot, Connected(i), CloseDownConnected(i)
  PROVE  TableConsistent'
<1> DEFINE kept == client[i].mode # "DestroyAll"
           freed == IF kept THEN {} ELSE {i}
<1>1. /\ \A j \in Slot \ {i} : client'[j].state = client[j].state
      /\ client'[i].state = IF kept THEN "Retained" ELSE "NULL"
  <2>1. \A j \in Slot \ {i} : client'[j].state = client[j].state
    BY CloseDownOthers DEF Inv
  <2>2. /\ ClientsUngrabbed \in [Slot -> ClientRecord]
        /\ client \in [Slot -> ClientRecord]
    BY UngrabbedClients DEF Inv, ClientsInv, ClientsTyped
  <2>3. client'[i] = IF kept THEN [NoClient EXCEPT !.state = "Retained",
                                                   !.mode = client[i].mode]
                             ELSE NoClient
    BY <2>2 DEF CloseDownConnected
  <2> QED  BY <2>1, <2>3 DEF NoClient
<1>2. freed \in SUBSET Used /\ Used' = Used \ freed
  BY <1>1 DEF Used, Connected
<1>3. PICK lastGone : FreeSlots(freed, lastGone)
  BY DEF CloseDownConnected
<1>4. /\ nextFreeClientID' = LeastFree(Used')
      /\ currentMaxClients' = Max(Used' \cup {0}) + 1
  <2> HIDE DEF freed
  <2> QED  BY <1>2, <1>3, FreeSlotsKeeps
<1>5. nClients' = IF client[i].state = "Running" THEN nClients - 1 ELSE nClients
  BY DEF CloseDownConnected
<1>6. {j \in Slot : client'[j].state = "Running"} = Runs \ {i}
  BY <1>1 DEF Runs
<1>7. Cardinality(Runs \ {i}) = IF i \in Runs THEN Cardinality(Runs) - 1
                                              ELSE Cardinality(Runs)
  BY SlotsFinite, FS_RemoveElement
<1>8. nClients = Cardinality(Runs)
  BY DEF Inv, TableConsistent, Runs
<1>9. nClients' = Cardinality(Runs \ {i})
  BY <1>5, <1>7, <1>8 DEF Runs
<1> QED  BY <1>4, <1>6, <1>9 DEF TableConsistent

(* Retained clients are freed; none of them is counted.                    *)
LEMMA RetainedTable ==
  ASSUME Inv, NEW gone \in SUBSET {i \in Slot : client[i].state = "Retained"},
         CloseDownRetained(gone)
  PROVE  TableConsistent'
<1>1. \A i \in Slot : client'[i] = IF i \in gone THEN NoClient ELSE client[i]
  BY DEF CloseDownRetained
<1>2. gone \in SUBSET Used /\ Used' = Used \ gone
  BY <1>1 DEF Used, NoClient
<1>3. /\ nextFreeClientID' = LeastFree(Used')
      /\ currentMaxClients' = Max(Used' \cup {0}) + 1
  <2>1. CASE gone = {}
    <3>1. /\ Used' = Used /\ nextFreeClientID' = nextFreeClientID
          /\ currentMaxClients' = currentMaxClients
      BY <1>2, <2>1 DEF CloseDownRetained
    <3> QED  BY <3>1 DEF Inv, TableConsistent
  <2>2. CASE gone # {}
    BY <1>2, <2>2, FreeSlotsKeeps DEF CloseDownRetained
  <2> QED  BY <2>1, <2>2
<1>4. {i \in Slot : client'[i].state = "Running"}
        = {i \in Slot : client[i].state = "Running"}
  BY <1>1 DEF NoClient
<1>5. nClients' = nClients
  BY DEF CloseDownRetained
<1> QED  BY <1>3, <1>4, <1>5 DEF Inv, TableConsistent

(* A client is accepted into the least free slot.                          *)
LEMMA AcceptTable ==
  ASSUME Inv, Accept
  PROVE  TableConsistent'
<1>1. CASE nextFreeClientID = LimitClients
  BY <1>1, TableUnchanged DEF Accept, Inv, table
<1>2. CASE nextFreeClientID # LimitClients
  <2>1. PICK i \in Slot : /\ i = nextFreeClientID /\ client[i].state = "NULL"
                          /\ \A j \in (Slot \cup {LimitClients}) \ Used : i <= j
    BY <1>2, NextIsFree, ClientsAssumption DEF Slot, Used
  <2>2. /\ client' = [client EXCEPT ![i] = NewClient]
        /\ currentMaxClients' = IF i = currentMaxClients
                                  THEN i + 1 ELSE currentMaxClients
        /\ nextFreeClientID' = LeastFree(Used \cup {i})
        /\ nClients' = nClients
    BY <1>2, <2>1 DEF Accept
  <2>3. \A j \in Slot : client'[j] = IF j = i THEN NewClient ELSE client[j]
    BY <2>2 DEF Inv, ClientsInv, ClientsTyped
  <2>4. Used' = Used \cup {i}
    BY <2>3 DEF Used, NewClient, NoClient
  <2>5. {j \in Slot : client'[j].state = "Running"}
          = {j \in Slot : client[j].state = "Running"}
    BY <2>1, <2>3 DEF NewClient, NoClient
  <2>6. currentMaxClients' = Max(Used' \cup {0}) + 1
    <3> DEFINE m == Max(Used \cup {0})
               S == Used' \cup {0}
    <3>1. /\ currentMaxClients = m + 1 /\ m \in 0..(LimitClients - 1)
          /\ m \in Used \cup {0} /\ \A j \in Used : j <= m
      BY UsedBounded DEF Inv, TableConsistent, Used
    <3>2. S \in SUBSET Nat /\ S = Used \cup {i, 0} /\ i \in Nat /\ i >= 1
      BY <2>4, ClientsAssumption DEF Used, Slot
    <3> HIDE DEF m, S
    <3>3. i <= m + 1
      <4>1. m + 1 \in (Slot \cup {LimitClients}) \ Used
        BY <3>1, ClientsAssumption DEF Slot
      <4> QED  BY <2>1, <4>1
    <3>4. CASE i = m + 1
      <4>1. \A j \in S : j <= i
        BY <3>1, <3>2, <3>4
      <4>2. Max(S) = i
        BY <3>2, <4>1, MaxUnique
      <4> QED  BY <2>2, <3>1, <3>4, <4>2 DEF S
    <3>5. CASE i # m + 1
      <4>1. \A j \in S : j <= m
        BY <3>1, <3>2, <3>3, <3>5
      <4>2. Max(S) = m
        BY <3>1, <3>2, <4>1, MaxUnique
      <4> QED  BY <2>2, <3>1, <3>5, <4>2 DEF S
    <3> QED  BY <3>4, <3>5
  <2> QED  BY <2>2, <2>4, <2>5, <2>6 DEF Inv, TableConsistent
<1> QED  BY <1>1, <1>2

(* A client that sets up is counted once.                                  *)
LEMMA SetUpTable ==
  ASSUME Inv, NEW i \in Slot, ProcEstablishConnection(i), SendConnSetup(i)
  PROVE  TableConsistent'
<1>1. At("execute") /\ dispatch.cur = i /\ dispatch.req = "EstablishConnection"
  BY DEF ProcEstablishConnection, Executes
<1>2. client[i].state = "Initial"
  BY <1>1, ServedAttended, ClientsAssumption DEF Connected, RequestName
<1>3. /\ \A j \in Slot : client'[j].state = IF j = i THEN "Running"
                                                       ELSE client[j].state
      /\ nClients' = nClients + 1
      /\ nextFreeClientID' = nextFreeClientID /\ currentMaxClients' = currentMaxClients
  BY DEF ProcEstablishConnection, SendConnSetup, Inv, ClientsInv, ClientsTyped, ClientRecord
<1>4. Used' = Used
  BY <1>2, <1>3 DEF Used
<1>5. {j \in Slot : client'[j].state = "Running"} = Runs \cup {i} /\ i \notin Runs
  BY <1>2, <1>3 DEF Runs
<1>6. Cardinality(Runs \cup {i}) = Cardinality(Runs) + 1
  BY <1>5, SlotsFinite, FS_AddElement
<1>7. nClients = Cardinality(Runs)
  BY DEF Inv, TableConsistent, Runs
<1> QED  BY <1>3, <1>4, <1>5, <1>6, <1>7 DEF Inv, TableConsistent

(* Every step keeps the table.                                             *)
LEMMA TableStep ==
  ASSUME Inv, Next
  PROVE  TableConsistent'
<1>0. TableConsistent /\ client \in [Slot -> ClientRecord]
  BY DEF Inv, ClientsInv, ClientsTyped
<1>1. CASE NewConnection \/ ExitTimerFires
  BY <1>0, <1>1, TableUnchanged DEF NewConnection, ExitTimerFires
<1>2. CASE Accept
  BY <1>2, AcceptTable
<1>3. CASE DispatchEnds
  <2>1. /\ Used' = {} /\ {i \in Slot : client'[i].state = "Running"} = {}
        /\ nClients' = 0 /\ nextFreeClientID' = 1 /\ currentMaxClients' = 1
    BY <1>3 DEF DispatchEnds, Used, NoClient
  <2>2. LeastFree({}) = 1
    <3>1. /\ (Slot \cup {LimitClients}) \ {} \in SUBSET Nat
          /\ 1 \in (Slot \cup {LimitClients}) \ {}
          /\ \A j \in (Slot \cup {LimitClients}) \ {} : 1 <= j
      BY ClientsAssumption DEF Slot
    <3> QED  BY <3>1, MinUnique DEF LeastFree
  <2>3. Max({} \cup {0}) = 0
    BY UsedBounded
  <2>4. Cardinality({}) = 0
    BY FS_EmptySet
  <2>5. /\ nextFreeClientID' = LeastFree(Used')
        /\ currentMaxClients' = Max(Used' \cup {0}) + 1
    BY <2>1, <2>2, <2>3
  <2>6. nClients' = Cardinality({i \in Slot : client'[i].state = "Running"})
    BY <2>1, <2>4
  <2> QED  BY <2>5, <2>6 DEF TableConsistent
<1>4. ASSUME NEW i \in Slot,
             \/ CloseLate(i) \/ CloseFailed(i) \/ ClientReadyError(i) \/ ReadFails(i)
      PROVE  TableConsistent'
  <2>1. CloseDownConnected(i)
    BY <1>4 DEF CloseLate, CloseFailed, ClientReadyError, ReadFails
  <2>2. Connected(i)
    BY <1>4, ServedAttended
       DEF CloseLate, CloseFailed, ClientReadyError, ReadFails, Connected, Serving
  <2> QED  BY <2>1, <2>2, CloseDownTable
<1>5. ASSUME NEW i \in Slot, AfterRequest(i)
      PROVE  TableConsistent'
  <2>1. CASE client[i].exception
    <3>1. Connected(i) /\ CloseDownConnected(i)
      BY <1>5, <2>1 DEF AfterRequest, Inv, ClientsInv, SlotsInUse
    <3> QED  BY <3>1, CloseDownTable
  <2>2. CASE ~client[i].exception
    <3>1. UNCHANGED table /\ client' = client
      BY <1>5, <2>2 DEF AfterRequest
    <3> QED  BY <1>0, <3>1, TableUnchanged
  <2> QED  BY <2>1, <2>2
<1>6. ASSUME NEW i \in Slot,
             \/ Send(i) \/ HangUp(i) \/ ClientReadyRead(i) \/ FlushClient(i)
             \/ WakeUp(i) \/ Schedule(i) \/ ReadNothing(i) \/ ReadRequest(i)
             \/ ProcInitialConnection(i) \/ ProcOther(i) \/ ProcGrabServerWaits(i)
             \/ ProcGrabServer(i) \/ ProcUngrabServer(i)
             \/ ProcChangeCloseDownMode(i) \/ ProcSleeps(i)
             \/ ProcXTestGrabControl(i)
      PROVE  TableConsistent'
  <2>1. UNCHANGED table
    BY <1>6 DEF Send, HangUp, ClientReadyRead, FlushClient, WakeUp, Schedule,
      ReadNothing, ReadRequest, ProcInitialConnection, ProcOther, ProcGrabServerWaits,
      ProcGrabServer, ProcUngrabServer, ProcChangeCloseDownMode, ProcSleeps,
      ProcXTestGrabControl
  <2>2. \A j \in Slot : client'[j].state = client[j].state
    <3>1. CASE \/ Send(i) \/ HangUp(i) \/ ClientReadyRead(i) \/ Schedule(i)
               \/ ReadNothing(i) \/ ReadRequest(i) \/ ProcOther(i) \/ ProcGrabServer(i)
      BY <3>1 DEF Send, HangUp, ClientReadyRead, Schedule, ReadNothing, ReadRequest,
                  ProcOther, ProcGrabServer
    <3>2. CASE FlushClient(i) \/ ProcInitialConnection(i)
      <4>1. \/ client' = [client EXCEPT ![i].exception = TRUE]
            \/ client' = client
        BY <3>2 DEF FlushClient, ProcInitialConnection
      <4> QED  BY <1>0, <4>1 DEF ClientRecord
    <3>3. CASE WakeUp(i) \/ ProcGrabServerWaits(i) \/ ProcSleeps(i)
      <4>1. \/ client' = [client EXCEPT ![i].ignoreCount = @ - 1, ![i].asleep = FALSE]
            \/ client' = [client EXCEPT ![i].ignoreCount = @ + 1]
            \/ client' = [client EXCEPT ![i].ignoreCount = @ + 1, ![i].asleep = TRUE]
        BY <3>3 DEF WakeUp, AttendClient, ProcGrabServerWaits, ProcSleeps
      <4> QED  BY <1>0, <4>1 DEF ClientRecord
    <3>4. CASE ProcUngrabServer(i)
      BY <3>4, UngrabbedClients DEF ProcUngrabServer, Inv
    <3>5. CASE ProcChangeCloseDownMode(i)
      <4>1. PICK mode : client' = [client EXCEPT ![i].mode = mode]
        BY <3>5 DEF ProcChangeCloseDownMode
      <4> QED  BY <1>0, <4>1 DEF ClientRecord
    <3>6. CASE ProcXTestGrabControl(i)
      <4>1. PICK on : client' = [client EXCEPT ![i].impervious = on]
        BY <3>6 DEF ProcXTestGrabControl
      <4> QED  BY <1>0, <4>1 DEF ClientRecord
    <3> QED  BY <1>6, <3>1, <3>2, <3>3, <3>4, <3>5, <3>6
  <2> QED  BY <1>0, <2>1, <2>2, TableUnchanged
<1>7. ASSUME NEW i \in Slot, ProcEstablishConnection(i)
      PROVE  TableConsistent'
  <2>1. CASE ClientRefused(i)
    <3>1. UNCHANGED table
      BY <1>7, <2>1 DEF ProcEstablishConnection, ClientRefused, table
    <3>2. \A j \in Slot : client'[j].state = client[j].state
      BY <1>0, <2>1 DEF ClientRefused, ClientRecord
    <3> QED  BY <1>0, <3>1, <3>2, TableUnchanged
  <2> QED  BY <1>7, <2>1, SetUpTable DEF ProcEstablishConnection
<1>8. ASSUME NEW i \in Slot, ProcKillClient(i) \/ ProcKillAllTemporary(i)
      PROVE  TableConsistent'
  <2>1. CASE ProcKillClient(i)
    <3>1. PICK j \in Used : IF Connected(j) THEN CloseDownConnected(j)
                                            ELSE CloseDownRetained({j})
      BY <2>1 DEF ProcKillClient
    <3>2. j \in Slot /\ (~Connected(j) => client[j].state = "Retained")
      BY <1>0 DEF Used, Connected, ClientRecord, ClientState
    <3> QED  BY <3>1, <3>2, CloseDownTable, RetainedTable
  <2>2. CASE ProcKillAllTemporary(i)
    <3>1. PICK gone : gone = {j \in Slot : /\ client[j].state = "Retained"
                                           /\ client[j].mode = "RetainTemporary"}
      OBVIOUS
    <3>2. CloseDownRetained(gone)
      BY <2>2, <3>1 DEF ProcKillAllTemporary
    <3>3. gone \in SUBSET {j \in Slot : client[j].state = "Retained"}
      BY <3>1
    <3> QED  BY <3>2, <3>3, RetainedTable
  <2> QED  BY <1>8, <2>1, <2>2
<1> QED  BY <1>1, <1>2, <1>3, <1>4, <1>5, <1>6, <1>7, <1>8 DEF Next, Serve
-----------------------------------------------------------------------------
(* The invariant of the specification                                      *)

(* Nothing changes.                                                        *)
LEMMA InvStutters ==
  ASSUME Inv, UNCHANGED vars
  PROVE  Inv'
<1>1. ClientsInv'
  BY UnchangedKeeps DEF Inv, vars, grab
<1>2. DispatchInv'
  BY DEF Inv, vars, DispatchInv, DispatchTyped, ServesReady, At
<1>3. TableConsistent'
  BY DEF Inv, vars, TableConsistent, Used, LeastFree
<1> QED  BY <1>1, <1>2, <1>3 DEF Inv

(* The server starts without clients.                                      *)
LEMMA InvInit ==
  ASSUME Init
  PROVE  Inv
<1>1. ClientsInv
  BY DEF Init, ClientsInv, ClientsTyped, SlotsInUse, IgnoredForAReason,
         GrabHeldByRunning, NoClient, NoConn, ClientRecord, ClientState, CloseDownMode, Conn
<1>2. DispatchInv
  BY DEF Init, Waiting, DispatchInv, DispatchTyped, Place, ServesReady, At
<1>3. TableConsistent
  <2>1. /\ Used = {} /\ {i \in Slot : client[i].state = "Running"} = {}
        /\ nClients = 0 /\ nextFreeClientID = 1 /\ currentMaxClients = 1
    BY DEF Init, Used, NoClient
  <2>2. LeastFree({}) = 1
    <3>1. /\ (Slot \cup {LimitClients}) \ {} \in SUBSET Nat
          /\ 1 \in (Slot \cup {LimitClients}) \ {}
          /\ \A j \in (Slot \cup {LimitClients}) \ {} : 1 <= j
      BY ClientsAssumption DEF Slot
    <3> QED  BY <3>1, MinUnique DEF LeastFree
  <2>3. Max({} \cup {0}) = 0
    BY UsedBounded
  <2>4. Cardinality({}) = 0
    BY FS_EmptySet
  <2> QED  BY <2>1, <2>2, <2>3, <2>4 DEF TableConsistent
<1> QED  BY <1>1, <1>2, <1>3 DEF Inv

(* Inv holds in every state: what the theorems below rest on.              *)
LEMMA Invariant == Spec => []Inv
<1>1. Inv /\ [Next]_vars => Inv'
  BY ClientsStep, DispatchStep, TableStep, InvStutters DEF Inv
<1> QED  BY <1>1, InvInit, PTL DEF Spec
-----------------------------------------------------------------------------
(* The exit of the server                                                  *)

(* The timer is set, or the exit decided on.                               *)
LEMMA ExitTimerTyped == ExitTimerSet \in [timer : BOOLEAN, now : BOOLEAN]
<1>1. PICK t \in BOOLEAN, n \in BOOLEAN :
        t = (Terminate = "delay") /\ n = (exit.now \/ Terminate = "now")
  OBVIOUS
<1>2. ExitTimerSet = [timer |-> t, now |-> n]
  BY <1>1 DEF ExitTimerSet
<1> QED  BY <1>2

(* No client runs once one has been closed down with whose end the server  *)
(* is to exit.                                                             *)
LEMMA CloseDownExit ==
  ASSUME Inv, ExitInv, NEW i \in Slot, Connected(i), CloseDownConnected(i)
  PROVE  /\ exit' = exit \/ (exit' = ExitTimerSet /\ nClients' = 0)
         /\ nClients = 0 => nClients' = 0
<1>1. nClients' = Cardinality({j \in Slot : client'[j].state = "Running"})
  BY CloseDownTable DEF TableConsistent
<1>2. /\ client'[i].state # "Running"
      /\ \A j \in Slot \ {i} : client'[j].state = client[j].state
  BY CloseDownOthers DEF Inv
<1>3. ASSUME \A j \in Slot \ {i} : client[j].state # "Running"
      PROVE  nClients' = 0
  <2>1. {j \in Slot : client'[j].state = "Running"} = {}
    BY <1>2, <1>3
  <2> QED  BY <1>1, <2>1, FS_EmptySet
<1>4. exit' = exit \/ (exit' = ExitTimerSet /\ nClients' = 0)
  <2> DEFINE kept == client[i].mode # "DestroyAll"
             freed == IF kept THEN {} ELSE {i}
             n == IF client[i].state = "Running" THEN nClients - 1 ELSE nClients
             lastGone == ~kept /\ client[i].state = "Running" /\ n = 0
  <2>1. exit' = IF lastGone \/ Used \ freed = {} THEN ExitTimerSet ELSE exit
    BY DEF CloseDownConnected, FreeSlots
  <2>2. nClients' = n
    BY DEF CloseDownConnected
  <2>3. CASE lastGone
    BY <2>1, <2>2, <2>3
  <2>4. CASE Used \ freed = {}
    <3>1. \A j \in Slot \ {i} : client[j].state # "Running"
      BY <2>4 DEF Used
    <3> QED  BY <1>3, <2>1, <2>4, <3>1
  <2>5. CASE ~lastGone /\ Used \ freed # {}
    BY <2>1, <2>5
  <2> QED  BY <2>3, <2>4, <2>5
<1>5. nClients = 0 => nClients' = 0
  <2> SUFFICES ASSUME nClients = 0 PROVE nClients' = 0
    OBVIOUS
  <2>1. Runs = {}
    BY SlotsFinite, FS_EmptySet DEF Inv, TableConsistent, Runs
  <2> QED  BY <1>3, <2>1 DEF Runs
<1> QED  BY <1>4, <1>5

(* What is left of ExitInv after it.                                       *)
LEMMA CloseDownExits ==
  ASSUME Inv, ExitInv, NEW i \in Slot, Connected(i), CloseDownConnected(i),
         exit'.now => ~At("serve")' /\ ~At("execute")' /\ (At("after")' => dispatch'.yield)
  PROVE  ExitInv'
<1>1. exit' \in [timer : BOOLEAN, now : BOOLEAN]
  BY CloseDownExit, ExitTimerTyped DEF ExitInv
<1>2. ExitsOnlyIdle'
  BY CloseDownExit DEF ExitInv, ExitsOnlyIdle
<1> QED  BY <1>1, <1>2 DEF ExitInv

(* While a client makes a request the server does not exit.                *)
LEMMA RunningStays ==
  ASSUME Inv, ExitInv, NEW i \in Slot, At("execute"), dispatch.cur = i,
         dispatch.req \notin SetUp
  PROVE  ~exit.now /\ client[i].state = "Running" /\ i \in Used
BY ServedAttended DEF ExitInv, Connected, Used

(* Requests do not make the server exit, but for a client's that kills     *)
(* itself.                                                                 *)
LEMMA ExitStep ==
  ASSUME Inv, ExitInv, Next
  PROVE  ExitInv'
<1>0. exit \in [timer : BOOLEAN, now : BOOLEAN] /\ ExitsOnlyIdle
  BY DEF ExitInv
<1>1. ASSUME exit' = exit, nClients' = nClients,
             exit.now => ~At("serve")' /\ ~At("execute")' /\ (At("after")' => dispatch'.yield)
      PROVE  ExitInv'
  BY <1>0, <1>1 DEF ExitInv, ExitsOnlyIdle
<1>2. CASE NewConnection \/ Accept
  <2>1. dispatch'.at \in {"accept", "wait"}
    BY <1>2 DEF NewConnection, Accept, Waiting, Inv, DispatchInv, DispatchTyped
  <2>2. exit' = exit /\ nClients' = nClients
    BY <1>2 DEF NewConnection, Accept, table
  <2> QED  BY <1>1, <2>1, <2>2 DEF At
<1>3. CASE ExitTimerFires
  <2>1. /\ exit' = [timer |-> FALSE, now |-> TRUE] /\ nClients' = nClients
        /\ exit.timer /\ dispatch' = dispatch /\ dispatch.at = "wait"
    BY <1>3 DEF ExitTimerFires, table, At
  <2> QED  BY <1>0, <2>1 DEF ExitInv, ExitsOnlyIdle, At
<1>4. CASE DispatchEnds
  <2>1. dispatch'.at = "done" /\ nClients' = 0 /\ exit' \in {exit, ExitTimerSet}
    BY <1>4 DEF DispatchEnds, Inv, DispatchInv, DispatchTyped
  <2>2. exit' \in [timer : BOOLEAN, now : BOOLEAN]
    BY <1>0, <2>1, ExitTimerTyped
  <2> QED  BY <2>1, <2>2 DEF ExitInv, ExitsOnlyIdle, At
<1>5. ASSUME NEW i \in Slot, CloseLate(i) \/ CloseFailed(i) \/ ClientReadyError(i)
      PROVE  ExitInv'
  <2>1. CloseDownConnected(i) /\ Connected(i) /\ dispatch' = dispatch
        /\ dispatch.at \in {"accept", "wait"}
    BY <1>5 DEF CloseLate, CloseFailed, ClientReadyError, Connected, At
  <2> QED  BY <2>1, CloseDownExits DEF At
<1>6. ASSUME NEW i \in Slot, ReadFails(i)
      PROVE  ExitInv'
  <2>1. CloseDownConnected(i) /\ Connected(i) /\ dispatch'.at = "wait"
    BY <1>6, ServedAttended DEF ReadFails, Serving, Waiting
  <2> QED  BY <2>1, CloseDownExits DEF At
<1>7. ASSUME NEW i \in Slot, AfterRequest(i)
      PROVE  ExitInv'
  <2>1. CASE client[i].exception
    <3>1. CloseDownConnected(i) /\ Connected(i) /\ dispatch'.at = "wait"
      BY <1>7, <2>1 DEF AfterRequest, Inv, ClientsInv, SlotsInUse, Waiting
    <3> QED  BY <3>1, CloseDownExits DEF At
  <2>2. CASE ~client[i].exception
    <3>1. exit' = exit /\ nClients' = nClients /\ At("after")
      BY <1>7, <2>2 DEF AfterRequest, table
    <3>2. exit.now => dispatch' = Waiting
      BY <1>7, <2>2, <3>1 DEF AfterRequest, ExitInv
    <3> QED  BY <1>1, <3>1, <3>2 DEF At, Waiting
  <2> QED  BY <2>1, <2>2
<1>8. ASSUME NEW i \in Slot,
             \/ Send(i) \/ HangUp(i) \/ ClientReadyRead(i) \/ FlushClient(i)
             \/ WakeUp(i) \/ Schedule(i) \/ ReadNothing(i) \/ ReadRequest(i)
      PROVE  ExitInv'
  <2>1. exit' = exit /\ nClients' = nClients
    BY <1>8 DEF Send, HangUp, ClientReadyRead, FlushClient, WakeUp, Schedule,
                ReadNothing, ReadRequest, table
  <2>2. \/ dispatch' = dispatch \/ dispatch' = Waiting
        \/ ~exit.now
    BY <1>8 DEF Send, HangUp, ClientReadyRead, FlushClient, WakeUp, Schedule,
                ReadNothing, ReadRequest, Serving, ExitInv
  <2>3. exit.now => ~At("serve")' /\ ~At("execute")' /\ (At("after")' => dispatch'.yield)
    BY <2>2 DEF ExitInv, At, Waiting
  <2> QED  BY <1>1, <2>1, <2>3
<1>9. ASSUME NEW i \in Slot,
             \/ ProcInitialConnection(i) \/ ProcOther(i) \/ ProcGrabServerWaits(i)
             \/ ProcGrabServer(i) \/ ProcUngrabServer(i)
             \/ ProcChangeCloseDownMode(i) \/ ProcSleeps(i)
             \/ ProcXTestGrabControl(i)
             \/ (ProcEstablishConnection(i) /\ ClientRefused(i))
      PROVE  ExitInv'
  <2>1. exit' = exit /\ nClients' = nClients
    BY <1>9 DEF ProcInitialConnection, ProcOther, ProcGrabServerWaits, ProcGrabServer,
      ProcUngrabServer, ProcChangeCloseDownMode, ProcSleeps, ProcXTestGrabControl,
      ProcEstablishConnection, ClientRefused, table
  <2>2. At("execute")
    BY <1>9 DEF ProcInitialConnection, ProcOther, ProcGrabServerWaits, ProcGrabServer,
      ProcUngrabServer, ProcChangeCloseDownMode, ProcSleeps, ProcXTestGrabControl,
      ProcEstablishConnection, Executes
  <2>3. ~exit.now
    BY <2>2 DEF ExitInv
  <2> QED  BY <1>1, <2>1, <2>3
<1>10. ASSUME NEW i \in Slot, ProcEstablishConnection(i), SendConnSetup(i)
       PROVE  ExitInv'
  <2>1. exit' = [exit EXCEPT !.timer = FALSE] /\ At("execute")
    BY <1>10 DEF SendConnSetup, ProcEstablishConnection, Executes
  <2>2. ~exit'.now /\ ~exit'.timer /\ exit' \in [timer : BOOLEAN, now : BOOLEAN]
    BY <1>0, <2>1 DEF ExitInv
  <2> QED  BY <2>2 DEF ExitInv, ExitsOnlyIdle
<1>11. ASSUME NEW i \in Slot, NEW gone \in SUBSET Slot, NEW req \in RequestName,
              Executes(i, req, FALSE), i \notin gone, CloseDownRetained(gone)
       PROVE  ExitInv'
  <2>1. /\ At("execute") /\ dispatch.cur = i /\ dispatch.req \notin SetUp
    BY <1>11 DEF Executes, RequestName, SetUp
  <2>2. i \in Used \ gone /\ ~exit.now
    BY <1>11, <2>1, RunningStays
  <2>3. exit' = exit /\ nClients' = nClients
    BY <1>11, <2>2 DEF CloseDownRetained, FreeSlots
  <2> QED  BY <1>1, <2>2, <2>3
<1>12. ASSUME NEW i \in Slot, ProcKillAllTemporary(i)
       PROVE  ExitInv'
  <2>1. PICK gone : gone = {j \in Slot : /\ client[j].state = "Retained"
                                         /\ client[j].mode = "RetainTemporary"}
    OBVIOUS
  <2>2. Executes(i, "KillAllTemporary", FALSE) /\ CloseDownRetained(gone)
    BY <1>12, <2>1 DEF ProcKillAllTemporary
  <2>3. i \notin gone
    <3>1. Connected(i)
      BY <2>2, ServedAttended DEF Executes
    <3> QED  BY <2>1, <3>1 DEF Connected
  <2> QED  BY <1>11, <2>1, <2>2, <2>3 DEF RequestName
<1>13. ASSUME NEW i \in Slot, ProcKillClient(i)
       PROVE  ExitInv'
  <2>1. PICK j \in Used : /\ Executes(i, "KillClient", i = j)
                         /\ IF Connected(j) THEN CloseDownConnected(j)
                                            ELSE CloseDownRetained({j})
    BY <1>13 DEF ProcKillClient
  <2>2. /\ At("execute") /\ dispatch.cur = i /\ dispatch.req \notin SetUp
        /\ dispatch'.at = "after" /\ (i = j => dispatch'.yield) /\ j \in Slot
    <3>1. dispatch' = [dispatch EXCEPT !.at = "after", !.req = "none",
                                       !.yield = @ \/ (i = j)]
      BY <2>1 DEF Executes
    <3>2. dispatch'.at = "after" /\ (i = j => dispatch'.yield)
      BY <3>1 DEF Inv, DispatchInv, DispatchTyped
    <3> QED  BY <2>1, <3>2 DEF Executes, SetUp, Used
  <2>3. ~exit.now /\ client[i].state = "Running" /\ i \in Used
    BY <2>2, RunningStays
  <2>4. CASE Connected(j)
    <3>1. CASE i = j
      BY <2>1, <2>2, <2>4, <3>1, CloseDownExits DEF At
    <3>2. CASE i # j
      <4>1. client'[i].state = "Running"
        BY <2>1, <2>2, <2>3, <2>4, <3>2, CloseDownOthers DEF Inv
      <4>2. nClients' = Cardinality({k \in Slot : client'[k].state = "Running"})
        BY <2>1, <2>2, <2>4, CloseDownTable DEF TableConsistent
      <4>3. {k \in Slot : client'[k].state = "Running"} # {}
        BY <4>1
      <4>4. IsFiniteSet({k \in Slot : client'[k].state = "Running"})
        BY SlotsFinite, FS_Subset
      <4>5. nClients' # 0
        BY <4>2, <4>3, <4>4, FS_EmptySet
      <4>6. exit' = exit
        BY <2>1, <2>2, <2>4, <4>5, CloseDownExit
      <4> QED  BY <2>1, <2>2, <2>3, <2>4, <4>6, CloseDownExits
    <3> QED  BY <3>1, <3>2
  <2>5. CASE ~Connected(j)
    <3>1. i # j
      BY <2>3, <2>5 DEF Connected
    <3>2. Executes(i, "KillClient", FALSE)
      BY <2>1, <3>1
    <3> QED  BY <1>11, <2>1, <2>2, <2>5, <3>1, <3>2 DEF RequestName
  <2> QED  BY <2>4, <2>5
<1> QED  BY <1>2, <1>3, <1>4, <1>5, <1>6, <1>7, <1>8, <1>9, <1>10, <1>12, <1>13
         DEF Next, Serve, ProcEstablishConnection
-----------------------------------------------------------------------------
(* Whose data Dispatch goes to.  A client that is not impervious to the    *)
(* grab of another, as XTestGrabControl makes it, is in the ready list     *)
(* that fits; the proofs are for clients that do not make that request.    *)

(* Looking at a socket anew, a client that sends and one that hangs up     *)
(* leave nothing that the poll does not report, but for the buffer.        *)
LEMMA PolledReported ==
  ASSUME NEW c \in Conn, NEW d \in Conn, d.buffered = c.buffered,
         d = Polled(c) \/ d.edge \/ d = c
  PROVE  Unreported(d) => Unreported(c)
<1>1. CASE d = Polled(c)
  <2>1. Unreported(d) => d.buffered > 0
    BY <1>1, PolledConn DEF Unreported
  <2> QED  BY <2>1 DEF Unreported
<1>2. CASE d.edge
  BY <1>2 DEF Unreported
<1>3. CASE d = c
  BY <1>3
<1> QED  BY <1>1, <1>2, <1>3

(* A client whose own state, ready list and grab are as they were.         *)
LEMMA HeardStill ==
  ASSUME NEW j \in Slot, Heard(j), ready'[j] = ready[j],
         GrabInProgress' = GrabInProgress,
         client'[j].state = client[j].state,
         client'[j].ignoreCount = client[j].ignoreCount,
         client'[j].impervious = client[j].impervious,
         client'[j].exception = client[j].exception,
         Unreported(conn'[j]) => Unreported(conn[j])
  PROVE  Heard(j)'
<1>1. Unreported(conn[j])' = Unreported(conn'[j])
  BY DEF Unreported
<1>2. Connected(j)' = Connected(j) /\ listen_to_client(j)' = listen_to_client(j)
  BY DEF Connected, listen_to_client
<1> QED  BY <1>1, <1>2 DEF Heard

(* A client that is not in use.                                            *)
LEMMA HeardGone ==
  ASSUME NEW j \in Slot, ~Connected(j)', ready'[j] = "none", ~client'[j].impervious
  PROVE  Heard(j)'
BY DEF Heard

(* The client that is served stays ready.                                  *)
LEMMA HeardServed ==
  ASSUME NEW i \in Slot, Heard(i), ready[i] = "ready", ready'[i] = "ready",
         ~client'[i].impervious,
         \/ client'[i].exception
         \/ /\ client'[i].ignoreCount = client[i].ignoreCount
            /\ client'[i].exception = client[i].exception
            /\ GrabInProgress' \in {GrabInProgress, i}
  PROVE  Heard(i)'
<1>1. listen_to_client(i)' \/ client'[i].exception
  BY DEF Heard, listen_to_client
<1> QED  BY <1>1 DEF Heard

(* One that is ignored is on no list, but to be closed down.               *)
LEMMA HeardIgnored ==
  ASSUME NEW i \in Slot, ~client'[i].impervious, client'[i].ignoreCount # 0,
         ready'[i] # "none" => ready'[i] = "ready" /\ client'[i].exception
  PROVE  Heard(i)'
BY DEF Heard

(* The grab ends: those that had been put aside come back.                 *)
LEMMA HeardUngrabbed ==
  ASSUME Inv, NEW j \in Slot, Heard(j), GrabInProgress' = 0,
         client'[j].state = client[j].state,
         client'[j].ignoreCount = IF j = Waiter THEN client[j].ignoreCount - 1
                                               ELSE client[j].ignoreCount,
         client'[j].impervious = client[j].impervious,
         client'[j].exception = client[j].exception,
         conn'[j] \in {conn[j], Polled(conn[j])},
         ready'[j] = ReadyUngrabbed[j]
  PROVE  Heard(j)'
<1>1. j = Waiter => client[j].ignoreCount \in Nat \ {0}
  BY WaiterIsOne, IgnoredOnce, ClientsAssumption DEF Inv, ClientsInv, ClientsTyped, Slot
<1>2. ready'[j] = IF ready[j] # "none" THEN "ready"
                  ELSE IF j = Waiter /\ client[j].ignoreCount = 1 THEN "ready"
                  ELSE "none"
  BY UngrabbedReady DEF Inv
<1>3. listen_to_client(j)' <=> client'[j].ignoreCount = 0
  BY DEF listen_to_client
<1>4. ready'[j] = "ready" => client'[j].ignoreCount = 0 \/ client'[j].exception
  <2>1. CASE ready[j] # "none"
    BY <1>1, <2>1 DEF Inv, ClientsInv, SlotsInUse
  <2>2. CASE ready[j] = "none"
    BY <1>2, <2>2
  <2> QED  BY <2>1, <2>2
<1>5. /\ Connected(j)' <=> Connected(j)
      /\ Unreported(conn[j])' = Unreported(conn'[j])
  BY DEF Connected, Unreported
<1>6. Unreported(conn'[j]) => Unreported(conn[j])
  BY PolledConn, PolledReported DEF Inv, ClientsInv, ClientsTyped
<1>7. Connected(j) /\ client'[j].ignoreCount = 0 /\ Unreported(conn'[j])
        => ready'[j] = "ready"
  <2> SUFFICES ASSUME Connected(j), client'[j].ignoreCount = 0, Unreported(conn'[j])
               PROVE  ready'[j] = "ready"
    OBVIOUS
  <2>1. CASE j = Waiter
    BY <1>1, <1>2, <2>1
  <2>2. CASE j # Waiter
    <3>1. ready[j] # "none"
      BY <1>6, <2>2 DEF Heard
    <3> QED  BY <1>2, <3>1
  <2> QED  BY <2>1, <2>2
<1> QED  BY <1>2, <1>3, <1>4, <1>5, <1>7 DEF Heard

(* Closing down a client.                                                  *)
LEMMA HeardCloseDown ==
  ASSUME Inv, ListenInv, NEW i \in Slot, Connected(i), CloseDownConnected(i)
  PROVE  ListenInv'
<1>1. Heard(i)'
  <2>1. ~Connected(i)' /\ ready'[i] = "none" /\ ~client'[i].impervious
    BY CloseDownOthers DEF Inv, Connected
  <2> QED  BY <2>1, HeardGone
<1>2. ASSUME NEW j \in Slot \ {i}
      PROVE  Heard(j)'
  <2>1. Heard(j)
    BY DEF ListenInv
  <2>2. GrabInProgress' = IF grabClient = i THEN 0 ELSE GrabInProgress
    BY DEF CloseDownConnected, GrabReleased
  <2>3. Unreported(conn'[j]) => Unreported(conn[j])
    BY CloseDownOthers, PolledConn, PolledReported DEF Inv, ClientsInv, ClientsTyped
  <2>4. CASE grabClient = i
    BY <2>1, <2>2, <2>4, CloseDownOthers, HeardUngrabbed DEF Inv
  <2>5. CASE grabClient # i
    BY <2>1, <2>2, <2>3, <2>5, CloseDownOthers, HeardStill DEF Inv
  <2> QED  BY <2>4, <2>5
<1> QED  BY <1>1, <1>2 DEF ListenInv

(* Freeing clients that are retained.                                      *)
LEMMA HeardRetained ==
  ASSUME Inv, ListenInv, NEW gone \in SUBSET {i \in Slot : client[i].state = "Retained"},
         CloseDownRetained(gone)
  PROVE  ListenInv'
<1>1. /\ client' = [i \in Slot |-> IF i \in gone THEN NoClient ELSE client[i]]
      /\ conn' = conn /\ ready' = ready /\ GrabInProgress' = GrabInProgress
  BY DEF CloseDownRetained, grab
<1>2. ASSUME NEW j \in Slot
      PROVE  Heard(j)'
  <2>1. CASE j \in gone
    <3>1. ready[j] = "none"
      BY <2>1 DEF Inv, ClientsInv, SlotsInUse, Connected
    <3>2. ~Connected(j)' /\ ~client'[j].impervious
      BY <1>1, <2>1 DEF Connected, NoClient
    <3> QED  BY <1>1, <3>1, <3>2, HeardGone
  <2>2. CASE j \notin gone
    BY <1>1, <2>2, HeardStill DEF ListenInv
  <2> QED  BY <2>1, <2>2
<1> QED  BY <1>2 DEF ListenInv

(* What the poll, the clients and the timers do.                           *)
LEMMA HeardPoll ==
  ASSUME Inv, ListenInv, NEW i \in Slot,
         Send(i) \/ HangUp(i) \/ ClientReadyRead(i) \/ FlushClient(i) \/ WakeUp(i)
  PROVE  ListenInv'
<1> USE DEF Inv
<1>0. /\ client \in [Slot -> ClientRecord] /\ conn \in [Slot -> Conn]
      /\ ready \in [Slot -> {"none", "ready", "saved"}]
      /\ Heard(i) /\ \A j \in Slot : Heard(j)
  BY DEF ClientsInv, ClientsTyped, ListenInv
<1>1. ASSUME GrabInProgress' = GrabInProgress,
             \A j \in Slot \ {i} : /\ client'[j] = client[j] /\ conn'[j] = conn[j]
                                  /\ ready'[j] = ready[j],
             Heard(i)'
      PROVE  ListenInv'
  BY <1>0, <1>1, HeardStill DEF ListenInv
<1>2. CASE Send(i) \/ HangUp(i)
  <2>1. /\ client' = client /\ ready' = ready /\ GrabInProgress' = GrabInProgress
        /\ \/ conn' = [conn EXCEPT ![i].sent = @ + 1, ![i].edge = TRUE]
           \/ conn' = [conn EXCEPT ![i].hup = TRUE, ![i].edge = TRUE]
    BY <1>2 DEF Send, HangUp, grab
  <2>2. /\ conn'[i].edge /\ conn'[i].buffered = conn[i].buffered
        /\ \A j \in Slot \ {i} : conn'[j] = conn[j]
    BY <1>0, <2>1 DEF Conn
  <2>3. Unreported(conn'[i]) => Unreported(conn[i])
    BY <2>2 DEF Unreported
  <2> QED  BY <1>0, <1>1, <2>1, <2>2, <2>3, HeardStill
<1>3. CASE ClientReadyRead(i)
  <2>1. /\ client' = client /\ ready' = mark_client_ready(i) /\ listen_to_client(i)
        /\ GrabInProgress' = GrabInProgress
        /\ \A j \in Slot \ {i} : conn'[j] = conn[j]
    BY <1>0, <1>3 DEF ClientReadyRead, grab
  <2>2. ready'[i] = "ready" /\ \A j \in Slot \ {i} : ready'[j] = ready[j]
    BY <1>0, <2>1 DEF mark_client_ready, Heard, listen_to_client
  <2>3. listen_to_client(i)' /\ ~client'[i].impervious
    BY <1>0, <2>1 DEF listen_to_client, Heard
  <2>4. Heard(i)'
    BY <2>2, <2>3 DEF Heard
  <2> QED  BY <1>1, <2>1, <2>2, <2>4
<1>4. CASE FlushClient(i)
  <2>1. /\ client' = [client EXCEPT ![i].exception = TRUE]
        /\ ready' = mark_client_ready(i) /\ GrabInProgress' = GrabInProgress
        /\ \A j \in Slot \ {i} : conn'[j] = conn[j]
    BY <1>0, <1>4 DEF FlushClient, grab
  <2>2. /\ client'[i].exception /\ client'[i].impervious = client[i].impervious
        /\ \A j \in Slot \ {i} : client'[j] = client[j]
    BY <1>0, <2>1 DEF ClientRecord
  <2>3. /\ ready'[i] = IF ready[i] = "none" THEN "ready" ELSE ready[i]
        /\ \A j \in Slot \ {i} : ready'[j] = ready[j]
    BY <1>0, <2>1 DEF mark_client_ready
  <2>4. Heard(i)'
    BY <1>0, <2>1, <2>2, <2>3 DEF Heard
  <2> QED  BY <1>1, <2>1, <2>2, <2>3, <2>4
<1>5. CASE WakeUp(i)
  <2>1. /\ client[i].asleep /\ GrabInProgress' = GrabInProgress
        /\ client' = [client EXCEPT ![i].ignoreCount = @ - 1, ![i].asleep = FALSE]
        /\ IF client[i].ignoreCount > 1 THEN conn' = conn /\ ready' = ready
            ELSE /\ conn' = [conn EXCEPT ![i] = Polled(@)]
                 /\ ready' = [ready EXCEPT ![i] =
                      IF @ # "none" THEN @
                      ELSE IF GrabInProgress \in {0, i} \/ client[i].impervious
                             THEN "ready" ELSE "saved"]
    BY <1>5 DEF WakeUp, AttendClient, grab
  <2>2. client[i].ignoreCount \in Nat \ {0}
    BY <2>1, IgnoredOnce
  <2>3. /\ client'[i].ignoreCount = client[i].ignoreCount - 1
        /\ client'[i].exception = client[i].exception
        /\ client'[i].impervious = client[i].impervious
        /\ \A j \in Slot \ {i} : client'[j] = client[j] /\ conn'[j] = conn[j]
                                /\ ready'[j] = ready[j]
    BY <1>0, <2>1, <2>2 DEF ClientRecord
  <2>4. ready[i] # "none" => client[i].exception
    BY <2>2 DEF ClientsInv, SlotsInUse
  <2>5. CASE client[i].ignoreCount > 1
    <3>1. client'[i].ignoreCount # 0 /\ ready'[i] = ready[i]
      BY <2>1, <2>2, <2>3, <2>5
    <3>2. Heard(i)'
      BY <1>0, <2>1, <2>3, <2>4, <3>1 DEF Heard
    <3> QED  BY <1>1, <2>1, <2>3, <3>2
  <2>6. CASE client[i].ignoreCount = 1
    <3>1. client'[i].ignoreCount = 0
      BY <2>3, <2>6
    <3>2. ready'[i] = IF ready[i] # "none" THEN ready[i]
                      ELSE IF GrabInProgress \in {0, i} \/ client[i].impervious
                             THEN "ready" ELSE "saved"
      BY <1>0, <2>1, <2>6
    <3>3. listen_to_client(i)' <=> GrabInProgress \in {0, i} \/ client[i].impervious
      BY <2>1, <2>3, <3>1 DEF listen_to_client
    <3>4. Heard(i)'
      BY <1>0, <2>1, <2>3, <2>4, <3>1, <3>2, <3>3 DEF Heard
    <3> QED  BY <1>1, <2>1, <2>3, <3>4
  <2> QED  BY <2>2, <2>5, <2>6
<1> QED  BY <1>2, <1>3, <1>4, <1>5

(* A client is accepted.                                                   *)
LEMMA HeardAccept ==
  ASSUME Inv, ListenInv, Accept
  PROVE  ListenInv'
<1>1. CASE nextFreeClientID = LimitClients
  <2>1. /\ client' = client /\ conn' = conn /\ ready' = ready
        /\ GrabInProgress' = GrabInProgress
    BY <1>1 DEF Accept, grab
  <2> QED  BY <2>1, HeardStill DEF ListenInv
<1>2. CASE nextFreeClientID # LimitClients
  <2>1. PICK i \in Slot : i = nextFreeClientID /\ client[i].state = "NULL"
    BY <1>2, NextIsFree, ClientsAssumption DEF Slot, Used
  <2>2. /\ \A j \in Slot \ {i} : client'[j] = client[j] /\ conn'[j] = conn[j]
        /\ client'[i] = NewClient /\ conn'[i] = NewConn
        /\ ready' = ready /\ GrabInProgress' = GrabInProgress
    BY <1>2, <2>1 DEF Accept, grab, Inv, ClientsInv, ClientsTyped
  <2>3. ready[i] = "none"
    BY <2>1 DEF Inv, ClientsInv, SlotsInUse, Connected
  <2>4. ~Unreported(conn[i])' /\ ~client'[i].impervious
    BY <2>2 DEF Unreported, NewConn, NoConn, NewClient, NoClient
  <2>5. Heard(i)'
    BY <2>2, <2>3, <2>4 DEF Heard
  <2> QED  BY <2>2, <2>5, HeardStill DEF ListenInv
<1> QED  BY <1>1, <1>2

(* The requests of a client, and the reading of them.                      *)
LEMMA HeardServe ==
  ASSUME Inv, ListenInv, NEW i \in Slot, "GrabControl" \notin Requests, Serve(i)
  PROVE  ListenInv'
<1> USE DEF Inv
<1>0. /\ client \in [Slot -> ClientRecord] /\ conn \in [Slot -> Conn]
      /\ ready \in [Slot -> {"none", "ready", "saved"}]
      /\ Heard(i) /\ \A j \in Slot : Heard(j)
  BY DEF ClientsInv, ClientsTyped, ListenInv
<1>1. ASSUME GrabInProgress' = GrabInProgress,
             \A j \in Slot \ {i} : /\ client'[j] = client[j] /\ conn'[j] = conn[j]
                                  /\ ready'[j] = ready[j],
             Heard(i)'
      PROVE  ListenInv'
  BY <1>0, <1>1, HeardStill DEF ListenInv
<1>2. ASSUME At("serve") \/ At("execute"), dispatch.cur = i
      PROVE  ready[i] = "ready" /\ Connected(i)
  BY <1>2, ServedAttended
<1>3. CASE ReadNothing(i)
  <2>1. /\ client' = client /\ conn' = conn /\ GrabInProgress' = GrabInProgress
        /\ ready' = [ready EXCEPT ![i] = "none"]
        /\ ~HasRequest(conn[i]) /\ ~ConnectionLost(conn[i])
    BY <1>3 DEF ReadNothing, grab
  <2>2. ~Unreported(conn[i])'
    <3>1. conn[i] \in Conn
      BY <1>0
    <3>2. conn[i].buffered = 0 /\ conn[i].sent = 0 /\ ~conn[i].hup
      BY <2>1, <3>1 DEF HasRequest, ConnectionLost, Conn
    <3> QED  BY <2>1, <3>2 DEF Unreported
  <2>3. ready'[i] = "none" /\ \A j \in Slot \ {i} : ready'[j] = ready[j]
    BY <1>0, <2>1
  <2>4. Heard(i)'
    BY <1>0, <2>1, <2>2, <2>3 DEF Heard
  <2> QED  BY <1>1, <2>1, <2>3, <2>4
<1>4. CASE ReadFails(i)
  BY <1>2, <1>4, HeardCloseDown DEF ReadFails, Serving
<1>5. CASE ReadRequest(i)
  <2>1. /\ client' = client /\ ready' = ready /\ GrabInProgress' = GrabInProgress
        /\ \A j \in Slot \ {i} : conn'[j] = conn[j]
    BY <1>0, <1>5 DEF ReadRequest, grab
  <2>2. ready[i] = "ready"
    BY <1>2, <1>5 DEF ReadRequest, Serving
  <2>3. Heard(i)'
    BY <1>0, <2>1, <2>2, HeardServed DEF Heard
  <2> QED  BY <1>1, <2>1, <2>3
<1>6. CASE AfterRequest(i)
  <2>1. CASE client[i].exception
    <3>1. Connected(i) /\ CloseDownConnected(i)
      BY <1>6, <2>1 DEF AfterRequest, ClientsInv, SlotsInUse
    <3> QED  BY <3>1, HeardCloseDown
  <2>2. CASE ~client[i].exception
    <3>1. /\ client' = client /\ conn' = conn /\ ready' = ready
          /\ GrabInProgress' = GrabInProgress
      BY <1>6, <2>2 DEF AfterRequest, grab
    <3> QED  BY <1>0, <3>1, HeardStill DEF ListenInv
  <2> QED  BY <2>1, <2>2
<1>7. ASSUME At("execute"), dispatch.cur = i,
             ready' = ready, GrabInProgress' = GrabInProgress,
             \A j \in Slot \ {i} : conn'[j] = conn[j],
             \/ client' = client
             \/ client' = [client EXCEPT ![i].exception = TRUE]
             \/ client' = [client EXCEPT ![i].state = "Running"]
             \/ \E mode : client' = [client EXCEPT ![i].mode = mode]
      PROVE  ListenInv'
  <2>1. /\ client'[i].ignoreCount = client[i].ignoreCount
        /\ client'[i].impervious = client[i].impervious
        /\ client'[i].exception = client[i].exception \/ client'[i].exception
        /\ \A j \in Slot \ {i} : client'[j] = client[j]
    <3>1. client[i] \in ClientRecord
      BY <1>0
    <3>2. CASE client' = client
      BY <3>2
    <3>3. CASE client' = [client EXCEPT ![i].exception = TRUE]
      BY <1>0, <3>1, <3>3 DEF ClientRecord
    <3>4. CASE client' = [client EXCEPT ![i].state = "Running"]
      BY <1>0, <3>1, <3>4 DEF ClientRecord
    <3>5. CASE \E mode : client' = [client EXCEPT ![i].mode = mode]
      <4>1. PICK mode : client' = [client EXCEPT ![i].mode = mode]
        BY <3>5
      <4> QED  BY <1>0, <3>1, <4>1 DEF ClientRecord
    <3> QED  BY <1>7, <3>2, <3>3, <3>4, <3>5
  <2>2. ready[i] = "ready"
    BY <1>2, <1>7
  <2>3. ~client'[i].impervious
    BY <1>0, <2>1 DEF Heard
  <2>4. Heard(i)'
    BY <1>0, <1>7, <2>1, <2>2, <2>3, HeardServed
  <2> QED  BY <1>1, <1>7, <2>1, <2>4
<1>8. CASE ProcInitialConnection(i)
  <2>1. At("execute") /\ dispatch.cur = i /\ GrabInProgress' = GrabInProgress
    BY <1>8 DEF ProcInitialConnection, Executes, grab
  <2>2. mark_client_ready(i) = ready
    BY <1>0, <1>2, <2>1 DEF mark_client_ready
  <2>3. /\ ready' = ready
        /\ \/ client' = client \/ client' = [client EXCEPT ![i].exception = TRUE]
        /\ \/ conn' = conn \/ conn' = [conn EXCEPT ![i] = PutBack(@)]
    BY <1>8, <2>2 DEF ProcInitialConnection
  <2>4. \A j \in Slot \ {i} : conn'[j] = conn[j]
    BY <1>0, <2>3
  <2> QED  BY <1>7, <2>1, <2>3, <2>4
<1>9. CASE ProcEstablishConnection(i)
  BY <1>7, <1>9 DEF ProcEstablishConnection, Executes, ClientRefused, SendConnSetup, grab
<1>10. CASE ProcOther(i) \/ ProcChangeCloseDownMode(i)
  BY <1>7, <1>10 DEF ProcOther, ProcChangeCloseDownMode, Executes, grab
<1>11. CASE ProcGrabServerWaits(i) \/ ProcSleeps(i)
  <2>1. /\ At("execute") /\ dispatch.cur = i /\ GrabInProgress' = GrabInProgress
        /\ ready' = ReadyIgnored(i)
        /\ conn' = conn \/ conn' = [conn EXCEPT ![i] = PutBack(@)]
        /\ \/ client' = [client EXCEPT ![i].ignoreCount = @ + 1]
           \/ client' = [client EXCEPT ![i].ignoreCount = @ + 1, ![i].asleep = TRUE]
    BY <1>11 DEF ProcGrabServerWaits, ProcSleeps, Executes, grab
  <2>2. PICK n \in Nat : n = client[i].ignoreCount + 1 /\ n # 0
    BY <1>0 DEF ClientRecord
  <2>3. /\ client'[i].ignoreCount = n
        /\ client'[i].impervious = client[i].impervious
        /\ client'[i].exception = client[i].exception
        /\ \A j \in Slot \ {i} : client'[j] = client[j]
    BY <1>0, <2>1, <2>2 DEF ClientRecord
  <2>4. ready[i] = "ready"
    BY <1>2, <2>1
  <2>5. ready'[i] # "none" => ready'[i] = "ready" /\ client'[i].exception
    BY <2>1, <2>3, <2>4, ReadyIgnoredTyped
  <2>6. ~client'[i].impervious
    BY <1>0, <2>3 DEF Heard
  <2>7. Heard(i)'
    BY <2>2, <2>3, <2>5, <2>6, HeardIgnored
  <2>8. \A j \in Slot \ {i} : conn'[j] = conn[j] /\ ready'[j] = ready[j]
    BY <1>0, <2>1, ReadyIgnoredTyped
  <2> QED  BY <1>1, <2>1, <2>3, <2>7, <2>8
<1>12. CASE ProcGrabServer(i)
  <2>1. /\ At("execute") /\ dispatch.cur = i /\ client' = client
        /\ ready' = mark_client_grab(i)
    BY <1>12 DEF ProcGrabServer, Executes
  <2>2. /\ GrabInProgress \in {0, i} /\ GrabInProgress' = i
        /\ conn' \in {conn, [j \in Slot |-> Polled(conn[j])]}
    <3>1. GrabInProgress \in {0, i}
      BY <1>12 DEF ProcGrabServer, ClientsInv, GrabHeldByRunning
    <3> QED  BY <1>12, <3>1 DEF ProcGrabServer, OnlyListenToOneClient
  <2>3. ready[i] = "ready"
    BY <1>2, <2>1
  <2>4. \A j \in Slot : ready'[j] = IF ready[j] = "ready" /\ j # i THEN "saved"
                                                               ELSE ready[j]
    BY <2>1 DEF mark_client_grab
  <2>5. Heard(i)'
    BY <1>0, <2>1, <2>2, <2>3, <2>4, HeardServed DEF Heard
  <2>6. ASSUME NEW j \in Slot \ {i}
        PROVE  Heard(j)'
    <3>1. i # 0 /\ ~listen_to_client(j)'
      BY <1>0, <2>1, <2>2, ClientsAssumption DEF listen_to_client, Heard, Slot
    <3>2. /\ Unreported(conn[j])' = Unreported(conn'[j])
          /\ Unreported(conn'[j]) => Unreported(conn[j])
      BY <1>0, <2>2, PolledConn, PolledReported DEF Unreported
    <3>3. Connected(j)' <=> Connected(j)
      BY <2>1 DEF Connected
    <3>4. Connected(j) /\ client[j].ignoreCount = 0 /\ Unreported(conn[j])
            => ready'[j] = "saved"
      BY <1>0, <2>4 DEF Heard
    <3> QED  BY <1>0, <2>1, <2>2, <2>4, <3>1, <3>2, <3>3, <3>4 DEF Heard
  <2> QED  BY <2>5, <2>6 DEF ListenInv
<1>13. CASE ProcUngrabServer(i)
  <2>1. /\ client' = ClientsUngrabbed /\ conn' = ConnsUngrabbed
        /\ ready' = ReadyUngrabbed /\ GrabInProgress' = 0
    BY <1>13 DEF ProcUngrabServer
  <2> QED  BY <1>0, <2>1, UngrabbedClients, UngrabbedConns, HeardUngrabbed DEF ListenInv
<1>14. CASE ProcKillClient(i)
  <2>1. PICK j \in Used : IF Connected(j) THEN CloseDownConnected(j)
                                          ELSE CloseDownRetained({j})
    BY <1>14 DEF ProcKillClient
  <2>2. j \in Slot /\ (~Connected(j) => client[j].state = "Retained")
    BY <1>0 DEF Used, Connected, ClientRecord, ClientState
  <2> QED  BY <2>1, <2>2, HeardCloseDown, HeardRetained
<1>15. CASE ProcKillAllTemporary(i)
  <2>1. PICK gone : gone = {j \in Slot : /\ client[j].state = "Retained"
                                         /\ client[j].mode = "RetainTemporary"}
    OBVIOUS
  <2>2. CloseDownRetained(gone)
    BY <1>15, <2>1 DEF ProcKillAllTemporary
  <2>3. gone \in SUBSET {j \in Slot : client[j].state = "Retained"}
    BY <2>1
  <2> QED  BY <2>2, <2>3, HeardRetained
<1>16. ~ProcXTestGrabControl(i)
  <2> SUFFICES ASSUME ProcXTestGrabControl(i) PROVE FALSE
    OBVIOUS
  <2>1. At("execute") /\ dispatch.cur = i /\ dispatch.req = "GrabControl"
    BY DEF ProcXTestGrabControl, Executes
  <2>2. dispatch.req \in SetUp \cup Requests \cup {"GrabServer"}
    BY <2>1 DEF DispatchInv, ServesReady
  <2> QED  BY <2>1, <2>2 DEF SetUp
<1> QED  BY <1>3, <1>4, <1>5, <1>6, <1>8, <1>9, <1>10, <1>11, <1>12, <1>13, <1>14,
            <1>15, <1>16 DEF Serve

(* Every step keeps the ready lists right.                                 *)
LEMMA ListenStep ==
  ASSUME Inv, ListenInv, "GrabControl" \notin Requests, Next
  PROVE  ListenInv'
<1>1. ASSUME UNCHANGED <<client, conn, ready, grab>>
      PROVE  ListenInv'
  BY <1>1, HeardStill DEF ListenInv, grab
<1>2. CASE NewConnection \/ ExitTimerFires
  BY <1>1, <1>2 DEF NewConnection, ExitTimerFires
<1>3. CASE DispatchEnds
  BY <1>3 DEF DispatchEnds, ListenInv, Heard, Connected, NoClient
<1>4. ASSUME NEW i \in Slot, CloseLate(i) \/ CloseFailed(i) \/ ClientReadyError(i)
      PROVE  ListenInv'
  BY <1>4, HeardCloseDown DEF CloseLate, CloseFailed, ClientReadyError, Connected
<1>5. ASSUME NEW i \in Slot, Schedule(i)
      PROVE  ListenInv'
  BY <1>1, <1>5 DEF Schedule
<1> QED  BY <1>2, <1>3, <1>4, <1>5, HeardAccept, HeardPoll, HeardServe DEF Next
-----------------------------------------------------------------------------
(* The theorems                                                            *)

(* Ignored clients are attended as often as they are ignored: a client     *)
(* sleeps or waits for the grab exactly as often as IgnoreClient counts    *)
(* it (os/connection.c), and a waiter's GrabServer is still in its buffer. *)
THEOREM EveryIgnoreHasAReason == Spec => []IgnoredForAReason
<1>1. Inv => IgnoredForAReason
  BY DEF Inv, ClientsInv
<1> QED  BY <1>1, Invariant, PTL

(* The grab of os/connection.c is that of dix/dispatch.c, and its client   *)
(* is running: CloseDownClient leaves no grab behind.                      *)
THEOREM GrabIsOfARunningClient == Spec => []GrabHeldByRunning
<1>1. Inv => GrabHeldByRunning
  BY DEF Inv, ClientsInv
<1> QED  BY <1>1, Invariant, PTL

(* The client table: the next free slot is the least, all the slots in use *)
(* are below currentMaxClients, and nClients counts those that run.        *)
THEOREM TableIsConsistent == Spec => []TableConsistent
<1>1. Inv => TableConsistent
  BY DEF Inv
<1> QED  BY <1>1, Invariant, PTL

(* The server exits by itself only when no client runs                     *)
(* (SetDispatchExceptionTimer, called by CloseDownClient).                 *)
THEOREM ServerExitsOnlyIdle == Spec => []ExitsOnlyIdle
<1>1. Init => ExitInv
  BY DEF Init, ExitInv, ExitsOnlyIdle, Waiting, At
<1>2. Inv /\ ExitInv /\ [Next]_vars => ExitInv'
  <2>1. ASSUME ExitInv, UNCHANGED vars
        PROVE  ExitInv'
    BY <2>1 DEF vars, ExitInv, ExitsOnlyIdle, At
  <2> QED  BY <2>1, ExitStep
<1>3. ExitInv => ExitsOnlyIdle
  BY DEF ExitInv
<1> QED  BY <1>1, <1>2, <1>3, Invariant, PTL DEF Spec

(* Type correctness.                                                       *)
THEOREM ClientsTypeCorrect == Spec => []TypeOK
<1>1. Init => ExitInv
  BY DEF Init, ExitInv, ExitsOnlyIdle, Waiting, At
<1>2. Inv /\ ExitInv /\ [Next]_vars => ExitInv'
  <2>1. ASSUME ExitInv, UNCHANGED vars
        PROVE  ExitInv'
    BY <2>1 DEF vars, ExitInv, ExitsOnlyIdle, At
  <2> QED  BY <2>1, ExitStep
<1>3. Inv /\ ExitInv => TypeOK
  <2> SUFFICES ASSUME Inv, ExitInv PROVE TypeOK
    OBVIOUS
  <2>1. nClients \in 0..(LimitClients - 1)
    BY SlotsFinite DEF Inv, TableConsistent, Runs
  <2>2. nextFreeClientID \in 1..LimitClients
    BY NextIsFree
  <2>3. currentMaxClients \in 1..LimitClients
    <3>1. PICK m \in 0..(LimitClients - 1) : currentMaxClients = m + 1
      BY UsedBounded DEF Inv, TableConsistent, Used
    <3> QED  BY <3>1, ClientsAssumption
  <2>4. dispatch \in [at : {"wait", "accept", "serve", "execute", "after", "done"},
                      cur : Slot \cup {0}, yield : BOOLEAN,
                      req : RequestName \cup {"none", "InitialConnection",
                                              "EstablishConnection"}]
    BY DEF Inv, DispatchInv, DispatchTyped, Place, SetUp
  <2> QED  BY <2>1, <2>2, <2>3, <2>4 DEF TypeOK, Inv, ClientsInv, ClientsTyped, ExitInv
<1> QED  BY <1>1, <1>2, <1>3, Invariant, PTL DEF Spec

(* Without XTestGrabControl, the ready lists are right in every state.     *)
LEMMA ListenInvariant ==
  ASSUME "GrabControl" \notin Requests
  PROVE  Spec => []ListenInv
<1>1. Init => ListenInv
  BY DEF Init, ListenInv, Heard, Connected, NoClient
<1>2. Inv /\ ListenInv /\ [Next]_vars => ListenInv'
  <2>1. ASSUME ListenInv, UNCHANGED vars
        PROVE  ListenInv'
    BY <2>1, HeardStill DEF vars, ListenInv
  <2> QED  BY <2>1, ListenStep
<1> QED  BY <1>1, <1>2, Invariant, PTL DEF Spec

(* Dispatch executes requests only of clients that are listened to, or     *)
(* that it is about to close down, whatever grabs, sleeps and kills come   *)
(* between (os/connection.c OnlyListenToOneClient).                        *)
THEOREM ServesOnlyListenedTo ==
  ASSUME "GrabControl" \notin Requests
  PROVE  Spec => []OnlyListenedToServed
<1>1. Inv /\ ListenInv => OnlyListenedToServed
  <2> SUFFICES ASSUME Inv, ListenInv, At("execute")
               PROVE  /\ Connected(dispatch.cur)
                      /\ \/ listen_to_client(dispatch.cur)
                         \/ client[dispatch.cur].exception
    BY DEF OnlyListenedToServed
  <2>1. PICK i \in Slot : dispatch.cur = i
    BY DEF Inv, DispatchInv, ServesReady
  <2>2. ready[i] = "ready" /\ Connected(i)
    BY <2>1, ServedAttended
  <2>3. listen_to_client(i) \/ client[i].exception
    BY <2>2 DEF ListenInv, Heard
  <2> QED  BY <2>1, <2>2, <2>3
<1> QED  BY <1>1, Invariant, ListenInvariant, PTL

(* No request that a client has sent is left in its buffer or its socket   *)
(* with the client on no list (dix/dispatch.c mark_client_ready,           *)
(* mark_client_saved_ready, mark_client_ungrab).                           *)
THEOREM RequestsAreNotForgotten ==
  ASSUME "GrabControl" \notin Requests
  PROVE  Spec => []NoRequestForgotten
<1>1. ListenInv => NoRequestForgotten
  BY DEF ListenInv, Heard, NoRequestForgotten
<1> QED  BY <1>1, ListenInvariant, PTL
=============================================================================
