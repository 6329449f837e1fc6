------------------------------- MODULE Clients -------------------------------
(***************************************************************************)
(* Client connections and the dispatch loop: dix/dispatch.c (Dispatch, the *)
(* ready lists, GrabServer, KillClient, CloseDownClient), os/connection.c  *)
(* (who is listened to) and the reading of requests in os/io.c.            *)
(*                                                                         *)
(* The server is single threaded here; what interleaves are the clients,   *)
(* whose data arrives at any time, and the points at which Dispatch goes   *)
(* back to its poll.  A request is what it does to this state: all others  *)
(* are "other".  Resources, selections, windows and replies are left out;  *)
(* so are the priorities SmartScheduleClient chooses by: any ready client  *)
(* may be served next.                                                     *)
(***************************************************************************)
EXTENDS Integers, FiniteSets, FiniteSetsExt

CONSTANTS
  LimitClients,   \* slots of clients[], the server's own included
  Requests,       \* requests that running clients make in this instance
  WritesFail,     \* whether a write to a client that has hung up fails
  Terminate,      \* -terminate: "no", "now" or "delay"
  MaxPending      \* bound: requests a client has sent and not had executed

Slot == 1..(LimitClients - 1)

RequestName == {"other", "GrabServer", "UngrabServer", "KillClient",
                "KillAllTemporary", "SetCloseDownMode", "sleep", "GrabControl"}

ASSUME ClientsAssumption ==
  /\ LimitClients \in Nat \ {0, 1}
  /\ Requests \subseteq RequestName
  /\ WritesFail \in BOOLEAN
  /\ Terminate \in {"no", "now", "delay"}
  /\ MaxPending \in Nat \ {0}

VARIABLES
  client,             \* clients[i], per slot
  conn,               \* its OsComm and socket
  ready,              \* the list client->ready is in: ready_clients ("ready"),
                      \* saved_ready_clients ("saved") or "none"
  grabClient,         \* grabClient, 0 while grabState = GrabNone
  GrabInProgress,
  grabWaiters,
  nClients,
  nextFreeClientID,
  currentMaxClients,
  dispatch,           \* where Dispatch is, the client it serves, the request it
                      \* has read from it, isItTimeToYield
  exit                \* dispatchExceptionTimer is set, dispatchException

grab == <<grabClient, GrabInProgress, grabWaiters>>
table == <<nClients, nextFreeClientID, currentMaxClients>>
vars == <<client, conn, ready, grabClient, GrabInProgress, grabWaiters,
          nClients, nextFreeClientID, currentMaxClients, dispatch, exit>>

ClientState == {"NULL", "Initial", "Running", "Retained"}
CloseDownMode == {"DestroyAll", "RetainPermanent", "RetainTemporary"}

NoClient == [state |-> "NULL", mode |-> "DestroyAll", ignoreCount |-> 0,
             asleep |-> FALSE, impervious |-> FALSE, exception |-> FALSE]
NewClient == [NoClient EXCEPT !.state = "Initial"]

(* A connection: requests in the input buffer and in the socket, whether   *)
(* the first of the buffer has been put back to be executed again, whether *)
(* the poll has still to report the socket (it is edge triggered), whether *)
(* the client has hung up and whether the server's end is open.            *)
NoConn == [buffered |-> 0, sent |-> 0, again |-> FALSE, edge |-> FALSE,
           hup |-> FALSE, open |-> FALSE]
NewConn == [NoConn EXCEPT !.open = TRUE]

At(place) == dispatch.at = place
Waiting == [at |-> "wait", cur |-> 0, yield |-> FALSE, req |-> "none"]

Init ==
  /\ client = [i \in Slot |-> NoClient]
  /\ conn = [i \in Slot |-> NoConn]
  /\ ready = [i \in Slot |-> "none"]
  /\ grabClient = 0
  /\ GrabInProgress = 0
  /\ grabWaiters = {}
  /\ nClients = 0
  /\ nextFreeClientID = 1
  /\ currentMaxClients = 1
  /\ dispatch = Waiting
  /\ exit = [timer |-> FALSE, now |-> FALSE]

Connected(i) == client[i].state \in {"Initial", "Running"}
Used == {i \in Slot : client[i].state # "NULL"}

listen_to_client(i) ==
  /\ client[i].ignoreCount = 0
  /\ GrabInProgress \in {0, i} \/ client[i].impervious

(* set_poll_client: the poll is told again whom to listen to, and looks at *)
(* the socket anew.                                                        *)
Polled(c) == [c EXCEPT !.edge = c.open /\ (c.sent > 0 \/ c.hup)]

mark_client_ready(i) == [ready EXCEPT ![i] = IF @ = "none" THEN "ready" ELSE @]
-----------------------------------------------------------------------------
(* Ignoring, attending and the server grab                                 *)

(* UngrabServer wakes one waiter: the lowest bit of the highest word, with *)
(* fewer than 32 clients the lowest of all.                                *)
Waiter == IF grabWaiters = {} THEN 0 ELSE Min(grabWaiters)

(* The clients, connections and ready lists once the grab has ended:       *)
(* ListenToAllClients, mark_client_ungrab and AttendClient(Waiter).        *)
ClientsUngrabbed ==
  [i \in Slot |-> IF i = Waiter
                    THEN [client[i] EXCEPT !.ignoreCount = @ - 1] ELSE client[i]]
ConnsUngrabbed ==
  [i \in Slot |-> IF GrabInProgress # 0 \/ i = Waiter THEN Polled(conn[i])
                                                      ELSE conn[i]]
ReadyUngrabbed ==
  [i \in Slot |->
     IF \/ ready[i] = "saved"
        \/ i = Waiter /\ client[i].ignoreCount = 1 /\ ready[i] = "none"
       THEN "ready" ELSE ready[i]]

(* Variant: the client that is grabbing is put aside with the others.      *)
MarkClientGrabAll(i) ==
  [j \in Slot |-> IF ready[j] = "ready" THEN "saved" ELSE ready[j]]

(* Variant: the ready clients stay where they are.                         *)
MarkClientGrabNone(i) == ready

mark_client_grab(i) ==
  [j \in Slot |-> IF ready[j] = "ready" /\ j # i THEN "saved" ELSE ready[j]]

(* The grab begins in os/connection.c, unless it has already.              *)
OnlyListenToOneClient(i) ==
  IF GrabInProgress # 0 THEN UNCHANGED <<GrabInProgress, conn>>
  ELSE /\ GrabInProgress' = i
       /\ conn' = [j \in Slot |-> Polled(conn[j])]

(* ClientWakeup(i), and the AttendClient it makes.                         *)
AttendClient(i) ==
  /\ client' = [client EXCEPT ![i].ignoreCount = @ - 1, ![i].asleep = FALSE]
  /\ IF client[i].ignoreCount > 1 THEN UNCHANGED <<conn, ready>>
     ELSE /\ conn' = [conn EXCEPT ![i] = Polled(@)]
          /\ ready' = [ready EXCEPT ![i] =
               IF @ # "none" THEN @
               ELSE IF GrabInProgress \in {0, i} \/ client[i].impervious
                      THEN "ready" ELSE "saved"]

(* The ready list that IgnoreClient leaves.                                *)
ReadyIgnored(i) ==
  IF client[i].ignoreCount = 0 THEN [ready EXCEPT ![i] = "none"] ELSE ready
-----------------------------------------------------------------------------
(* CloseDownClient                                                         *)

(* SetDispatchExceptionTimer.                                              *)
ExitTimerSet ==
  [timer |-> Terminate = "delay", now |-> exit.now \/ Terminate = "now"]

(* Variant: a slot that is freed does not lower nextFreeClientID.          *)
FreeSlotsAbove(freed, lastGone) ==
  LET left == Used \ freed
  IN  /\ UNCHANGED nextFreeClientID
      /\ currentMaxClients' = Max(left \cup {0}) + 1
      /\ exit' = IF lastGone \/ left = {} THEN ExitTimerSet ELSE exit

(* Slots freed: nextFreeClientID, currentMaxClients, and the server's exit *)
(* when no client is left (ShouldDisconnectRemainingClients) or when the   *)
(* last client that was running has gone.                                  *)
FreeSlots(freed, lastGone) ==
  LET left == Used \ freed
  IN  /\ nextFreeClientID' = Min(freed \cup {nextFreeClientID})
      /\ currentMaxClients' = IF freed = {} THEN currentMaxClients
                                            ELSE Max(left \cup {0}) + 1
      /\ exit' = IF lastGone \/ left = {} THEN ExitTimerSet ELSE exit

(* Variant: a client that goes stays among the waiters.                    *)
GrabReleasedKeepsWaiter(i) ==
  LET ends == grabClient = i
  IN  /\ grabClient' = IF ends THEN 0 ELSE grabClient
      /\ GrabInProgress' = IF ends THEN 0 ELSE GrabInProgress
      /\ grabWaiters' = grabWaiters \ (IF ends THEN {Waiter} ELSE {})

(* Variant: the other clients are not listened to again.                   *)
GrabReleasedStillMuted(i) ==
  LET ends == grabClient = i
  IN  /\ grabClient' = IF ends THEN 0 ELSE grabClient
      /\ UNCHANGED GrabInProgress
      /\ grabWaiters' = grabWaiters \ ({i} \cup (IF ends THEN {Waiter} ELSE {}))

(* The grab and the waiters once client i is gone.                         *)
GrabReleased(i) ==
  LET ends == grabClient = i
  IN  /\ grabClient' = IF ends THEN 0 ELSE grabClient
      /\ GrabInProgress' = IF ends THEN 0 ELSE GrabInProgress
      /\ grabWaiters' = grabWaiters \ ({i} \cup (IF ends THEN {Waiter} ELSE {}))

(* A client that is connected: its grab ends, its connection is closed,    *)
(* and it is freed or, as its close down mode says, retained.              *)
CloseDownConnected(i) ==
  LET ends == grabClient = i
      kept == client[i].mode # "DestroyAll"
      n    == IF client[i].state = "Running" THEN nClients - 1 ELSE nClients
      gone == IF kept THEN [NoClient EXCEPT !.state = "Retained",
                                            !.mode = client[i].mode]
                      ELSE NoClient
  IN  /\ client' = [(IF ends THEN ClientsUngrabbed ELSE client) EXCEPT ![i] = gone]
      /\ conn' = [(IF ends THEN ConnsUngrabbed ELSE conn) EXCEPT ![i] = NoConn]
      /\ ready' = [(IF ends THEN ReadyUngrabbed ELSE ready) EXCEPT ![i] = "none"]
      /\ GrabReleased(i)
      /\ nClients' = n
      /\ FreeSlots(IF kept THEN {} ELSE {i},
                   ~kept /\ client[i].state = "Running" /\ n = 0)

(* Clients that had been retained.                                         *)
CloseDownRetained(gone) ==
  /\ client' = [i \in Slot |-> IF i \in gone THEN NoClient ELSE client[i]]
  /\ IF gone = {} THEN UNCHANGED <<nextFreeClientID, currentMaxClients, exit>>
                  ELSE FreeSlots(gone, FALSE)
  /\ UNCHANGED <<conn, ready, grab, nClients>>
-----------------------------------------------------------------------------
(* New connections: EstablishNewConnections, called from the poll, closes  *)
(* the clients that have not set up in time or that have failed, and then  *)
(* accepts one.                                                            *)

LeastFree(used) == Min((Slot \cup {LimitClients}) \ used)

NewConnection ==
  /\ At("wait") /\ ~exit.now
  /\ dispatch' = [dispatch EXCEPT !.at = "accept"]
  /\ UNCHANGED <<client, conn, ready, grab, table, exit>>

CloseLate(i) ==
  /\ At("accept")
  /\ client[i].state = "Initial"
  /\ CloseDownConnected(i)
  /\ UNCHANGED dispatch

CloseFailed(i) ==
  /\ At("accept")
  /\ Connected(i) /\ client[i].exception
  /\ CloseDownConnected(i)
  /\ UNCHANGED dispatch

(* Variant: whether a slot is free is not looked at.                       *)
AcceptUnlimited ==
  /\ At("accept")
  /\ \A i \in Slot : Connected(i) => ~client[i].exception
  /\ dispatch' = Waiting
  /\ LET i == nextFreeClientID
     IN  /\ client' = [client EXCEPT ![i] = NewClient]
         /\ conn' = [conn EXCEPT ![i] = NewConn]
         /\ currentMaxClients' = IF i = currentMaxClients
                                   THEN i + 1 ELSE currentMaxClients
         /\ nextFreeClientID' = IF i < LimitClients THEN LeastFree(Used \cup {i})
                                                     ELSE i + 1
  /\ UNCHANGED <<ready, grab, nClients, exit>>

(* AllocNewConnection and NextAvailableClient; without a free slot the     *)
(* connection is refused.                                                  *)
Accept ==
  /\ At("accept")
  /\ \A i \in Slot : Connected(i) => ~client[i].exception
  /\ dispatch' = Waiting
  /\ IF nextFreeClientID = LimitClients
       THEN UNCHANGED <<client, conn, nextFreeClientID, currentMaxClients>>
       ELSE LET i == nextFreeClientID
            IN  /\ client' = [client EXCEPT ![i] = NewClient]
                /\ conn' = [conn EXCEPT ![i] = NewConn]
                /\ currentMaxClients' = IF i = currentMaxClients
                                          THEN i + 1 ELSE currentMaxClients
                /\ nextFreeClientID' = LeastFree(Used \cup {i})
  /\ UNCHANGED <<ready, grab, nClients, exit>>
-----------------------------------------------------------------------------
(* The clients, and what the poll reports of them                          *)

Send(i) ==
  /\ Connected(i) /\ conn[i].open /\ ~conn[i].hup
  /\ conn[i].buffered + conn[i].sent < MaxPending
  /\ conn' = [conn EXCEPT ![i].sent = @ + 1, ![i].edge = TRUE]
  /\ UNCHANGED <<client, ready, grab, table, dispatch, exit>>

HangUp(i) ==
  /\ Connected(i) /\ conn[i].open /\ ~conn[i].hup
  /\ conn' = [conn EXCEPT ![i].hup = TRUE, ![i].edge = TRUE]
  /\ UNCHANGED <<client, ready, grab, table, dispatch, exit>>

(* ClientReady, called by the poll: there is something to read.            *)
ClientReadyRead(i) ==
  /\ At("wait") /\ ~exit.now
  /\ Connected(i) /\ conn[i].edge /\ listen_to_client(i)
  /\ conn' = [conn EXCEPT ![i].edge = FALSE]
  /\ ready' = mark_client_ready(i)
  /\ UNCHANGED <<client, grab, table, dispatch, exit>>

(* ClientReady: the connection is broken.  The poll reports this of any    *)
(* client, also of one that is not listened to.                            *)
ClientReadyError(i) ==
  /\ At("wait") /\ ~exit.now
  /\ Connected(i) /\ conn[i].edge /\ conn[i].hup
  /\ CloseDownConnected(i)
  /\ UNCHANGED dispatch

(* The connection that AbortClient leaves: its descriptor is closed.       *)
AbortClient(c) == [c EXCEPT !.open = FALSE, !.sent = 0, !.edge = FALSE]

(* FlushClient, when the write fails: the client is aborted, ready to be   *)
(* closed down, and marked with dixMarkClientException.                    *)
FlushClient(i) ==
  /\ WritesFail /\ ~At("done")
  /\ Connected(i) /\ conn[i].open /\ conn[i].hup
  /\ client' = [client EXCEPT ![i].exception = TRUE]
  /\ conn' = [conn EXCEPT ![i] = AbortClient(@)]
  /\ ready' = mark_client_ready(i)
  /\ UNCHANGED <<grab, table, dispatch, exit>>

(* What a sleeping client waits for has happened: ClientWakeup, from the   *)
(* work queue or a timer.                                                  *)
WakeUp(i) ==
  /\ At("wait") /\ ~exit.now
  /\ client[i].asleep
  /\ AttendClient(i)
  /\ UNCHANGED <<grab, table, dispatch, exit>>
-----------------------------------------------------------------------------
(* Dispatch: a client is chosen, and ReadRequestFromClient called for it   *)

Schedule(i) ==
  /\ At("wait") /\ ~exit.now
  /\ ready[i] = "ready"
  /\ dispatch' = [Waiting EXCEPT !.at = "serve", !.cur = i]
  /\ UNCHANGED <<client, conn, ready, grab, table, exit>>

Serving(i) == At("serve") /\ dispatch.cur = i
HasRequest(c) == c.buffered + c.sent > 0
ConnectionLost(c) == c.hup \/ ~c.open

(* Variant: a client is taken off the ready list when its socket is empty, *)
(* although requests are left in its buffer.                               *)
ReadNothingEarly(i) ==
  /\ Serving(i)
  /\ conn[i].sent = 0 /\ ~ConnectionLost(conn[i])
  /\ ready' = [ready EXCEPT ![i] = "none"]
  /\ dispatch' = Waiting
  /\ UNCHANGED <<client, conn, grab, table, exit>>

(* There is nothing to read: EWOULDBLOCK.                                  *)
ReadNothing(i) ==
  /\ Serving(i)
  /\ ~HasRequest(conn[i]) /\ ~ConnectionLost(conn[i])
  /\ ready' = [ready EXCEPT ![i] = "none"]
  /\ dispatch' = Waiting
  /\ UNCHANGED <<client, conn, grab, table, exit>>

(* The connection is found closed.                                         *)
ReadFails(i) ==
  /\ Serving(i)
  /\ ~HasRequest(conn[i]) /\ ConnectionLost(conn[i])
  /\ CloseDownConnected(i)
  /\ dispatch' = Waiting

(* The connection after a request is read: from the buffer or, when that   *)
(* is empty, from the socket, which is emptied into the buffer.            *)
Read(c) ==
  LET have == IF c.buffered > 0 THEN c.buffered ELSE c.sent
      left == IF c.buffered > 0 THEN c.sent ELSE 0
  IN  [c EXCEPT !.buffered = have - 1, !.sent = left, !.again = FALSE,
                !.edge = c.edge /\ (left > 0 \/ c.hup)]

(* A client is set up by two requests: the one InsertFakeRequest has put   *)
(* before its first bytes, and those bytes again.                          *)
SetUpRequest(c) ==
  IF c.again THEN "EstablishConnection" ELSE "InitialConnection"

(* The requests that the next bytes of a client can be; one that was put   *)
(* back comes again.                                                       *)
NextRequests(i) ==
  IF client[i].state = "Initial" THEN {SetUpRequest(conn[i])}
    ELSE IF conn[i].again THEN {"GrabServer"} ELSE Requests

ReadRequest(i) ==
  /\ Serving(i)
  /\ HasRequest(conn[i])
  /\ \E req \in NextRequests(i) :
       dispatch' = [dispatch EXCEPT !.at = "execute", !.req = req]
  /\ conn' = [conn EXCEPT ![i] = Read(@)]
  /\ UNCHANGED <<client, ready, grab, table, exit>>

(* After the request: a client that has failed is closed down.  Otherwise  *)
(* Dispatch goes on with it, unless it is time to yield, its slice is over *)
(* or the request was an error.  The record of a client that has killed    *)
(* itself is read although it is freed: it still says that all is well.    *)
AfterRequest(i) ==
  /\ At("after") /\ dispatch.cur = i
  /\ IF client[i].exception
       THEN CloseDownConnected(i) /\ dispatch' = Waiting
       ELSE /\ \/ dispatch' = Waiting
               \/ ~dispatch.yield /\ dispatch' = [dispatch EXCEPT !.at = "serve"]
            /\ UNCHANGED <<client, conn, ready, grab, table, exit>>
-----------------------------------------------------------------------------
(* The requests.  Executes(i, r, y): request r of client i is the one that *)
(* has been read, and isItTimeToYield is set by it if y is TRUE.           *)

Executes(i, req, yields) ==
  /\ At("execute") /\ dispatch.cur = i /\ dispatch.req = req
  /\ dispatch' = [dispatch EXCEPT !.at = "after", !.req = "none",
                                  !.yield = @ \/ yields]

(* ResetCurrentRequest: the request is put back.                           *)
PutBack(c) == [c EXCEPT !.buffered = @ + 1, !.again = TRUE]

(* The byte order is unknown: the client is not set up.                    *)
ProcInitialConnection(i) ==
  \/ /\ Executes(i, "InitialConnection", FALSE)
     /\ client' = [client EXCEPT ![i].exception = TRUE]
     /\ UNCHANGED <<conn, ready, grab, table, exit>>
  \/ /\ Executes(i, "InitialConnection", TRUE)
     /\ conn' = [conn EXCEPT ![i] = PutBack(@)]
     /\ ready' = IF listen_to_client(i) THEN mark_client_ready(i) ELSE ready
     /\ UNCHANGED <<client, grab, table, exit>>

(* ClientAuthorized gives a reason to refuse the client.                   *)
ClientRefused(i) ==
  /\ client' = [client EXCEPT ![i].exception = TRUE]
  /\ UNCHANGED <<nClients, exit>>

(* Variant: the client is counted, and the server's exit is not cancelled. *)
SendConnSetupKeepsTimer(i) ==
  /\ client' = [client EXCEPT ![i].state = "Running"]
  /\ nClients' = nClients + 1
  /\ UNCHANGED exit

(* The client is counted and running, and the server does not exit.        *)
SendConnSetup(i) ==
  /\ client' = [client EXCEPT ![i].state = "Running"]
  /\ nClients' = nClients + 1
  /\ exit' = [exit EXCEPT !.timer = FALSE]

ProcEstablishConnection(i) ==
  /\ Executes(i, "EstablishConnection", FALSE)
  /\ ClientRefused(i) \/ SendConnSetup(i)
  /\ UNCHANGED <<conn, ready, grab, nextFreeClientID, currentMaxClients>>

(* All the requests that leave this state alone, and those that fail       *)
(* before they change it.                                                  *)
ProcOther(i) ==
  /\ Executes(i, "other", FALSE)
  /\ UNCHANGED <<client, conn, ready, grab, table, exit>>

(* The server is grabbed by another client: the request is put back and    *)
(* the client ignored until UngrabServer.                                  *)
ProcGrabServerWaits(i) ==
  /\ Executes(i, "GrabServer", TRUE)
  /\ grabClient \notin {0, i}
  /\ grabWaiters' = grabWaiters \cup {i}
  /\ client' = [client EXCEPT ![i].ignoreCount = @ + 1]
  /\ conn' = [conn EXCEPT ![i] = PutBack(@)]
  /\ ready' = ReadyIgnored(i)
  /\ UNCHANGED <<grabClient, GrabInProgress, table, exit>>

ProcGrabServer(i) ==
  /\ Executes(i, "GrabServer", FALSE)
  /\ grabClient \in {0, i}
  /\ grabClient' = i
  /\ OnlyListenToOneClient(i)
  /\ ready' = mark_client_grab(i)
  /\ UNCHANGED <<client, grabWaiters, table, exit>>

(* Any client may ask for it, also one that does not hold the grab.        *)
ProcUngrabServer(i) ==
  /\ Executes(i, "UngrabServer", FALSE)
  /\ client' = ClientsUngrabbed
  /\ conn' = ConnsUngrabbed
  /\ ready' = ReadyUngrabbed
  /\ grabClient' = 0
  /\ GrabInProgress' = 0
  /\ grabWaiters' = grabWaiters \ {Waiter}
  /\ UNCHANGED <<table, exit>>

(* The client killed may be the one that asks, or one that is retained.    *)
ProcKillClient(i) ==
  \E j \in Used :
    /\ Executes(i, "KillClient", i = j)
    /\ IF Connected(j) THEN CloseDownConnected(j) ELSE CloseDownRetained({j})

ProcKillAllTemporary(i) ==
  /\ Executes(i, "KillAllTemporary", FALSE)
  /\ CloseDownRetained({j \in Slot : /\ client[j].state = "Retained"
                                     /\ client[j].mode = "RetainTemporary"})

ProcChangeCloseDownMode(i) ==
  /\ Executes(i, "SetCloseDownMode", FALSE)
  /\ \E mode \in CloseDownMode : client' = [client EXCEPT ![i].mode = mode]
  /\ UNCHANGED <<conn, ready, grab, table, exit>>

(* A request that waits for something: ClientSleep.                        *)
ProcSleeps(i) ==
  /\ Executes(i, "sleep", client[i].ignoreCount = 0)
  /\ client' = [client EXCEPT ![i].ignoreCount = @ + 1, ![i].asleep = TRUE]
  /\ ready' = ReadyIgnored(i)
  /\ UNCHANGED <<conn, grab, table, exit>>

(* MakeClientGrabImpervious and MakeClientGrabPervious.                    *)
ProcXTestGrabControl(i) ==
  \E on \in BOOLEAN :
    /\ Executes(i, "GrabControl", ~on)
    /\ client' = [client EXCEPT ![i].impervious = on]
    /\ conn' = [conn EXCEPT ![i] = Polled(@)]
    /\ UNCHANGED <<ready, grab, table, exit>>
-----------------------------------------------------------------------------
(* The end of the server                                                   *)

(* DispatchExceptionCallback.                                              *)
ExitTimerFires ==
  /\ At("wait") /\ exit.timer
  /\ exit' = [timer |-> FALSE, now |-> TRUE]
  /\ UNCHANGED <<client, conn, ready, grab, table, dispatch>>

(* Dispatch returns, after KillAllClients.                                 *)
DispatchEnds ==
  /\ At("wait") /\ exit.now
  /\ client' = [i \in Slot |-> NoClient]
  /\ conn' = [i \in Slot |-> NoConn]
  /\ ready' = [i \in Slot |-> "none"]
  /\ grabClient' = 0
  /\ GrabInProgress' = 0
  /\ grabWaiters' = {}
  /\ nClients' = 0
  /\ nextFreeClientID' = 1
  /\ currentMaxClients' = 1
  /\ dispatch' = [dispatch EXCEPT !.at = "done"]
  /\ exit' = IF Used = {} THEN exit ELSE ExitTimerSet
-----------------------------------------------------------------------------
Serve(i) ==
  \/ ReadNothing(i) \/ ReadFails(i) \/ ReadRequest(i)
  \/ AfterRequest(i)
  \/ ProcInitialConnection(i) \/ ProcEstablishConnection(i) \/ ProcOther(i)
  \/ ProcGrabServerWaits(i) \/ ProcGrabServer(i) \/ ProcUngrabServer(i)
  \/ ProcKillClient(i) \/ ProcKillAllTemporary(i) \/ ProcChangeCloseDownMode(i)
  \/ ProcSleeps(i) \/ ProcXTestGrabControl(i)

Next ==
  \/ NewConnection \/ Accept \/ ExitTimerFires \/ DispatchEnds
  \/ \E i \in Slot :
       \/ CloseLate(i) \/ CloseFailed(i) \/ Send(i) \/ HangUp(i) \/ ClientReadyRead(i)
       \/ ClientReadyError(i) \/ FlushClient(i) \/ WakeUp(i)
       \/ Schedule(i) \/ Serve(i)

Spec == Init /\ [][Next]_vars

(* The server goes on: each round of Dispatch polls, handles what the poll *)
(* reports and then, if there is one, serves a ready client.  Clients send *)
(* or hang up when they like.                                              *)
Fairness ==
  /\ WF_vars(Accept)
  /\ SF_vars(\E i \in Slot : Schedule(i))
  /\ \A i \in Slot : /\ WF_vars(CloseFailed(i))
                     /\ SF_vars(ClientReadyRead(i))
                     /\ WF_vars(Serve(i))

FairSpec == Spec /\ Fairness
-----------------------------------------------------------------------------
ClientRecord ==
  [state : ClientState, mode : CloseDownMode, ignoreCount : Nat,
   asleep : BOOLEAN, impervious : BOOLEAN, exception : BOOLEAN]
Conn == [buffered : Nat, sent : Nat, again : BOOLEAN, edge : BOOLEAN,
         hup : BOOLEAN, open : BOOLEAN]

TypeOK ==
  /\ client \in [Slot -> ClientRecord]
  /\ conn \in [Slot -> Conn]
  /\ ready \in [Slot -> {"none", "ready", "saved"}]
  /\ grabClient \in Slot \cup {0}
  /\ GrabInProgress \in Slot \cup {0}
  /\ grabWaiters \in SUBSET Slot
  /\ nClients \in 0..(LimitClients - 1)
  /\ nextFreeClientID \in 1..LimitClients
  /\ currentMaxClients \in 1..LimitClients
  /\ dispatch \in [at : {"wait", "accept", "serve", "execute", "after", "done"},
                   cur : Slot \cup {0}, yield : BOOLEAN,
                   req : RequestName \cup {"none", "InitialConnection",
                                           "EstablishConnection"}]
  /\ exit \in [timer : BOOLEAN, now : BOOLEAN]

(* Of the client table (dix/dispatch.c:180 "always MIN free client ID"):   *)
(* the next client gets the least free slot, no client lies at or beyond   *)
(* currentMaxClients, so every loop over the clients meets all of them,    *)
(* and nClients counts those that run.                                     *)
TableConsistent ==
  /\ nextFreeClientID = LeastFree(Used)
  /\ currentMaxClients = Max(Used \cup {0}) + 1
  /\ nClients = Cardinality({i \in Slot : client[i].state = "Running"})

(* Every IgnoreClient is matched by one AttendClient that is still to come *)
(* (os/connection.c:853): a client is ignored exactly while it sleeps or   *)
(* waits for the server grab, and a waiter's GrabServer is still in its    *)
(* buffer, to be executed when it is attended.  One whose connection has   *)
(* failed is served out of turn before it is closed down, and so may be    *)
(* ignored more often, but never attended more often than it is ignored.   *)
IgnoredForAReason ==
  /\ \A i \in Slot :
       LET reasons == (IF client[i].asleep THEN 1 ELSE 0)
                      + (IF i \in grabWaiters THEN 1 ELSE 0)
       IN  /\ client[i].ignoreCount >= reasons
           /\ ~client[i].exception => client[i].ignoreCount = reasons
  /\ \A i \in grabWaiters :
       /\ client[i].state = "Running"
       /\ ~client[i].exception => conn[i].again /\ conn[i].buffered > 0

Unreported(c) ==
  c.buffered > 0 \/ (c.open /\ (c.sent > 0 \/ c.hup) /\ ~c.edge)

(* The grab that os/connection.c listens by is the one dix/dispatch.c has  *)
(* granted, and it is a running client's: no grab is left behind when a    *)
(* client is closed down, and no client is held up by a grab nobody has.   *)
GrabHeldByRunning ==
  /\ GrabInProgress = grabClient
  /\ grabClient # 0 => client[grabClient].state = "Running"

(* No client's data is forgotten: between rounds a client that is listened *)
(* to is in the ready list if a request is in its buffer, and otherwise if *)
(* its socket has something that the poll will not report any more.  One   *)
(* that is not listened to only because of a grab is kept in the saved     *)
(* list, from which the end of the grab brings it back.  One whose         *)
(* connection has failed stays in some list until it is closed down.       *)
NoRequestForgotten ==
  At("wait") => \A i \in Slot :
    Connected(i) /\ client[i].ignoreCount = 0 /\ Unreported(conn[i])
      => \/ ready[i] = IF listen_to_client(i) THEN "ready" ELSE "saved"
         \/ client[i].exception /\ ready[i] # "none"

(* Dispatch executes requests only of a client that is listened to: not of *)
(* one that sleeps, that waits for the grab or that another client's grab  *)
(* holds up (os/connection.c OnlyListenToOneClient: "Only accept requests  *)
(* from one client").  Only one whose connection has failed is, once, on   *)
(* the way to being closed down (os/io.c AbortClient).                     *)
OnlyListenedToServed ==
  At("execute") => /\ Connected(dispatch.cur)
                   /\ \/ listen_to_client(dispatch.cur)
                      \/ client[dispatch.cur].exception

(* The server exits by itself only when no client is running: a client     *)
(* that sets up during the delay cancels the exit (man/Xserver.man:293-295 *)
(* "At the end of this grace period if no client is connected, the server  *)
(* terminates immediately").                                               *)
ExitsOnlyIdle == exit.timer \/ exit.now => nClients = 0

(* A grab does not outlive its client: once the client that holds it has   *)
(* hung up, the others are listened to again.                              *)
DeadGrabberReleases ==
  \A i \in Slot : (grabClient = i /\ conn[i].hup) ~> (grabClient # i)
=============================================================================
