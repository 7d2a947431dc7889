-------------------------------- MODULE Client --------------------------------
(***************************************************************************)
(* The client (lib/client/azure-service-bus.client.ts and its proxy): it   *)
(* connects when a call needs it, sends through short-lived senders, waits *)
(* for replies with the ReplyRouter, and close() settles all of that and   *)
(* then closes the connection.  A later call connects again, and several   *)
(* close() calls may overlap (each does its own work).                     *)
(*                                                                         *)
(* The router is the module ReplyRouter itself, without the replies: that  *)
(* a request got its last one is a StopWaiting here, as is a timeout or an *)
(* unsubscription.                                                         *)
(*                                                                         *)
(* External: the SDK.  A send or a closing may stay stuck (a link that is  *)
(* still being attached), an aborted send may still succeed, and a closed  *)
(* connection delivers nothing and reports nothing.                        *)
(***************************************************************************)
EXTENDS Integers, Sequences, FiniteSets

CONSTANTS
  Request,         \* send() calls
  Emit,            \* emit() calls
  Queue,           \* reply queues
  RequestQueue,    \* [Request -> Queue]
  Sessions,        \* options.replySessions
  Closer,          \* close() calls
  CloseHasLimit,   \* closeTimeoutInMs is not Infinity
  CallsWhileClosing, \* calls are made while a close() is in progress
  MaxListeners,    \* bound: how many reply listeners are opened
  MaxConnections   \* bound: how many connections are made

ASSUME ClientAssumption ==
  /\ IsFiniteSet(Request) /\ Request \intersect Emit = {} /\ "invalid" \notin Request
  /\ Queue # {} /\ RequestQueue \in [Request -> Queue]
  /\ Sessions \in BOOLEAN /\ CloseHasLimit \in BOOLEAN /\ CallsWhileClosing \in BOOLEAN
  /\ MaxListeners \in Nat \ {0} /\ MaxConnections \in Nat \ {0}

Call == Request \union Emit
Connection == 1 .. MaxConnections
NoConnection == 0

VARIABLES
  \* the variables of the router
  listeners, closing, finished, made, replyTo, waiters, closed, previous, opened,
  receiver, closeStep, aborted, status,
  \* the connections
  sbClient,      \* the current connection, or NoConnection
  connections,   \* how many were made
  closedConns,   \* the ones client.close() was called on
  listenerConn,  \* [Listener -> the connection its receiver belongs to]
  \* the sends
  sendStep,      \* [Call -> how far its send is]
  sendConn,      \* [Call -> the connection of its sender]
  byClose,       \* the sends that close() cancelled
  \* close()
  step,          \* [Closer -> how far it is]
  client,        \* [Closer -> the connection it closes]
  stuckSends,    \* [Closer -> the sends its connection waits for]
  stuckClosings  \* [Closer -> the listener closings its connection waits for]

R == INSTANCE ReplyRouter
       WITH Reply <- {}, CorrelationId <- <<>>, ReplyQueue <- <<>>, InvalidId <- "invalid",
            FinishedLimit <- 1, MaxDeliveryCount <- 1,
            reply <- <<>>, holder <- <<>>, deliveries <- <<>>

routerVars == <<listeners, closing, finished, made, replyTo, waiters, closed, previous,
                opened, receiver, closeStep, aborted, status>>
connVars == <<sbClient, connections, closedConns, listenerConn>>
sendVars == <<sendStep, sendConn, byClose>>
closerVars == <<step, client, stuckSends, stuckClosings>>
vars == <<routerVars, connVars, sendVars, closerVars>>

Init ==
  /\ R!Init
  /\ sbClient = NoConnection /\ connections = 0 /\ closedConns = {}
  /\ listenerConn = [l \in R!Listener |-> NoConnection]
  /\ sendStep = [c \in Call |-> "none"]
  /\ sendConn = [c \in Call |-> NoConnection]
  /\ byClose = {}
  /\ step = [k \in Closer |-> "none"]
  /\ client = [k \in Closer |-> NoConnection]
  /\ stuckSends = [k \in Closer |-> {}]
  /\ stuckClosings = [k \in Closer |-> {}]

\* The map `sending`: sends whose sender is not closed yet.
Sending == {c \in Call : sendStep[c] \in {"sending", "senderClosing"}}

\* The set `inFlight`: the closings that the router tracks.
InFlight == {l \in R!Listener : closeStep[l] \notin {"none", "settled"}}

\* close() calls that did not return.
Closing == {k \in Closer : step[k] \notin {"none", "stuck"}}

-----------------------------------------------------------------------------
(* Calls *)

\* connect()
EnsureConnected ==
  IF sbClient # NoConnection
  THEN UNCHANGED <<sbClient, connections>>
  ELSE /\ connections < MaxConnections
       /\ connections' = connections + 1
       /\ sbClient' = connections'

\* send() or emit(): connect first.
Connect(c) ==
  /\ sendStep[c] = "none"
  /\ CallsWhileClosing \/ Closing = {}
  /\ sendStep' = [sendStep EXCEPT ![c] = "connecting"]
  /\ EnsureConnected
  /\ UNCHANGED <<routerVars, closedConns, listenerConn, sendConn, byClose, closerVars>>

\* publish() or dispatchEvent(), a promise callback later: a request starts
\* waiting, then sendTo() starts the send, or throws without a connection.
Publish(c) ==
  /\ sendStep[c] = "connecting"
  /\ IF c \in Request THEN R!Join(c) \/ R!Open(c) ELSE UNCHANGED routerVars
  /\ sendConn' = [sendConn EXCEPT ![c] = sbClient]
  /\ sendStep' = [sendStep EXCEPT ![c] = IF sbClient = NoConnection THEN "refused" ELSE "sending"]
  /\ UNCHANGED <<connVars, byClose, closerVars>>

\* The Observable of c fails: a request that still waits stops waiting.
Fails(c) ==
  IF c \in Request /\ status[c] = "waiting" THEN R!StopWaiting(c) ELSE UNCHANGED routerVars

SendRefused(c) ==
  /\ sendStep[c] = "refused"
  /\ Fails(c)
  /\ sendStep' = [sendStep EXCEPT ![c] = "done"]
  /\ UNCHANGED <<connVars, sendConn, byClose, closerVars>>

\* sendMessages() resolved: its sender is closed.
Sent(c) ==
  /\ sendStep[c] = "sending"
  /\ sendStep' = [sendStep EXCEPT ![c] = "senderClosing"]
  /\ UNCHANGED <<routerVars, connVars, sendConn, byClose, closerVars>>

\* It rejected (also because close() or the caller cancelled it).
SendFails(c) ==
  /\ sendStep[c] = "sending"
  /\ Fails(c)
  /\ sendStep' = [sendStep EXCEPT ![c] = "senderClosing"]
  /\ UNCHANGED <<connVars, sendConn, byClose, closerVars>>

SenderClosed(c) ==
  /\ sendStep[c] = "senderClosing"
  /\ sendStep' = [sendStep EXCEPT ![c] = "done"]
  /\ UNCHANGED <<routerVars, connVars, sendConn, byClose, closerVars>>

\* The response ended, replyTimeoutInMs passed or the caller unsubscribed.
StopWaiting(r) ==
  /\ R!StopWaiting(r)
  /\ UNCHANGED <<connVars, sendVars, closerVars>>

-----------------------------------------------------------------------------
(* The listeners of the router, on the connection getClient() returns *)

\* getClient() is called when the opening goes on after the previous closing.
ListenerUsesClient(l) ==
  /\ opened[l] = "previous"
  /\ sbClient # NoConnection
  /\ R!AcceptSession(l) \/ R!Opened(l) \/ R!SubscribeFails(l)
  /\ listenerConn' = [listenerConn EXCEPT ![l] = sbClient]
  /\ UNCHANGED <<sbClient, connections, closedConns, sendVars, closerVars>>

ListenerGoesOn(l) ==
  /\ \/ opened[l] = "accepting" /\ (R!Opened(l) \/ R!SubscribeFails(l))
     \/ R!OpenSkipped(l)
     \/ R!OpenFails(l)
     \/ R!ReceiveError(l) /\ listenerConn[l] \notin closedConns
     \/ R!CloseStep(l)
  /\ UNCHANGED <<connVars, sendVars, closerVars>>

-----------------------------------------------------------------------------
(* close() *)

\* Mutant: the sends in flight are not waited for.
NoneLive == {}

\* What settleSends() waits for: a send already cancelled is not waited for again.
Live == Sending \ byClose

CloseStarts(k) ==
  /\ step[k] = "none"
  /\ CallsWhileClosing \/ \A c \in Call : sendStep[c] # "connecting"
  /\ step' = [step EXCEPT ![k] = "sends"]
  /\ UNCHANGED <<routerVars, connVars, sendVars, client, stuckSends, stuckClosings>>

\* Mutant: the requests that wait are not told.
LeavesRequests == UNCHANGED routerVars

\* replies.close(): the requests that wait fail, and the listeners close.
CloseRouter ==
  IF \E q \in Queue : listeners[q] # R!NoListener THEN R!Close ELSE UNCHANGED routerVars

ToReceivers(k) ==
  /\ CloseRouter
  /\ step' = [step EXCEPT ![k] = "receivers"]

\* settleSends() returns, at once or after SEND_CANCEL_WAIT_MS: close() goes on
\* a promise callback later.
SettlesSends(k) ==
  step' = [step EXCEPT ![k] = IF @ = "sends" THEN "sendsSettled" ELSE "lastSettled"]

\* settleSends(): the sends are over ...
SendsSettled(k) ==
  /\ step[k] \in {"sends", "lastSends"}
  /\ Live = {}
  /\ SettlesSends(k)
  /\ UNCHANGED <<routerVars, connVars, sendVars, client, stuckSends, stuckClosings>>

\* ... or the deadline passed: the ones left are cancelled, and waited for until
\* they are over or SEND_CANCEL_WAIT_MS passed.
SendsCancelled(k) ==
  /\ CloseHasLimit
  /\ step[k] \in {"sends", "lastSends"}
  /\ Live # {}
  /\ byClose' = byClose \union Live
  /\ SettlesSends(k)
  /\ UNCHANGED <<routerVars, connVars, sendStep, sendConn, client, stuckSends, stuckClosings>>

ClosesRouter(k) ==
  /\ step[k] = "sendsSettled"
  /\ ToReceivers(k)
  /\ UNCHANGED <<connVars, sendVars, client, stuckSends, stuckClosings>>

\* Mutant: the closings of the reply receivers are waited for without a limit.
WaitsForReceivers(k) ==
  /\ step[k] = "receivers"
  /\ InFlight = {}
  /\ step' = [step EXCEPT ![k] = "lastSends"]
  /\ UNCHANGED <<routerVars, connVars, sendVars, client, stuckSends, stuckClosings>>

\* settleReceivers(): the reply receivers are closed, or the time is up.
ReceiversSettled(k) ==
  /\ step[k] = "receivers"
  /\ InFlight = {} \/ CloseHasLimit
  /\ step' = [step EXCEPT ![k] = "lastSends"]
  /\ UNCHANGED <<routerVars, connVars, sendVars, client, stuckSends, stuckClosings>>

\* Mutant: the closings of the reply receivers are not counted.
OnlySends == Sending

Stuck == Sending \union InFlight

\* Mutant: the closed connection stays the current one.
KeepClient == UNCHANGED sbClient

ForgetClient == sbClient' = NoConnection

\* The end of close(), when the sends made meanwhile are settled.  The
\* connection is closed now, or after the sends and closings that are stuck.
CloseConnection(k) ==
  /\ step[k] = "lastSettled"
  /\ ForgetClient
  /\ IF sbClient = NoConnection
     THEN step' = [step EXCEPT ![k] = "none"] /\ UNCHANGED <<closedConns, client, stuckSends, stuckClosings>>
     ELSE IF Stuck # {}
     THEN /\ step' = [step EXCEPT ![k] = "stuck"]
          /\ client' = [client EXCEPT ![k] = sbClient]
          /\ stuckSends' = [stuckSends EXCEPT ![k] = Sending]
          /\ stuckClosings' = [stuckClosings EXCEPT ![k] = InFlight]
          /\ UNCHANGED closedConns
     ELSE /\ step' = [step EXCEPT ![k] = "connection"]
          /\ closedConns' = closedConns \union {sbClient}
          /\ UNCHANGED <<client, stuckSends, stuckClosings>>
  /\ UNCHANGED <<routerVars, connections, listenerConn, sendVars>>

\* client.close() settled.
ConnectionClosed(k) ==
  /\ step[k] = "connection"
  /\ step' = [step EXCEPT ![k] = "none"]
  /\ UNCHANGED <<routerVars, connVars, sendVars, client, stuckSends, stuckClosings>>

\* What was stuck is over: the connection is closed.
StuckSettled(k) ==
  /\ step[k] = "stuck"
  /\ stuckSends[k] \intersect Sending = {}
  /\ stuckClosings[k] \intersect InFlight = {}
  /\ closedConns' = closedConns \union {client[k]}
  /\ step' = [step EXCEPT ![k] = "none"]
  /\ client' = [client EXCEPT ![k] = NoConnection]
  /\ stuckSends' = [stuckSends EXCEPT ![k] = {}]
  /\ stuckClosings' = [stuckClosings EXCEPT ![k] = {}]
  /\ UNCHANGED <<routerVars, sbClient, connections, listenerConn, sendVars>>

-----------------------------------------------------------------------------

CloseGoesOn(k) ==
  \/ SendsSettled(k) \/ SendsCancelled(k) \/ ClosesRouter(k) \/ ReceiversSettled(k)
  \/ CloseConnection(k) \/ ConnectionClosed(k)

Next ==
  \/ \E c \in Call : \/ Connect(c) \/ Publish(c) \/ SendRefused(c) \/ Sent(c)
                     \/ SendFails(c) \/ SenderClosed(c)
  \/ \E r \in Request : StopWaiting(r)
  \/ \E l \in R!Listener : ListenerUsesClient(l) \/ ListenerGoesOn(l)
  \/ \E k \in Closer : CloseStarts(k) \/ CloseGoesOn(k) \/ StuckSettled(k)

\* The timers and promise callbacks of close() run.  Nothing is assumed of
\* the sends and of the closings of the receivers.
Fairness == \A k \in Closer : WF_vars(CloseGoesOn(k))

Spec == Init /\ [][Next]_vars

FairSpec == Spec /\ Fairness

-----------------------------------------------------------------------------
(* Properties *)

\* Every variable of the client has its type; the current connection is not
\* one that close() closed.
TypeOK ==
  /\ sbClient \in 0 .. connections /\ connections \in 0 .. MaxConnections
  /\ closedConns \subseteq Connection
  /\ listenerConn \in [R!Listener -> Connection \union {NoConnection}]
  /\ sendStep \in [Call -> {"none", "connecting", "refused", "sending", "senderClosing", "done"}]
  /\ sendConn \in [Call -> Connection \union {NoConnection}]
  /\ byClose \subseteq Call
  /\ step \in [Closer -> {"none", "sends", "sendsSettled", "receivers", "lastSends",
                          "lastSettled", "connection", "stuck"}]
  /\ client \in [Closer -> Connection \union {NoConnection}]
  /\ stuckSends \in [Closer -> SUBSET Call]
  /\ stuckClosings \in [Closer -> SUBSET R!Listener]
  /\ sbClient \notin closedConns

\* A send() that waits, waits on a receiver whose connection is not closed:
\* close() failed those that waited before, and a later one "connects again".
WaitingIsConnected ==
  \A r \in Request :
    status[r] = "waiting" =>
      listenerConn[listeners[RequestQueue[r]]] \notin closedConns

\* When close() returned and nothing connected again, nothing is left behind:
\* no send() waits for a reply, and a message still being sent was cancelled.
NothingLeftBehind ==
  sbClient = NoConnection /\ Closing = {} =>
    /\ \A r \in Request : status[r] # "waiting" \/ sendStep[r] = "refused"
    /\ Sending \subseteq byClose

\* The connection is not closed under a send or under a reply receiver that
\* is being closed (the SDK's timers would keep the process alive).
NotClosedUnderLinks ==
  [][\A n \in closedConns' \ closedConns :
       /\ \A c \in Sending : sendConn[c] # n
       /\ \A l \in InFlight : listenerConn[l] # n]_vars

\* close() returns when it has a time limit, even with links that are stuck.
CloseReturns == \A k \in Closer : (k \in Closing) ~> (k \notin Closing)
=============================================================================
