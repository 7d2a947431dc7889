----------------------------- MODULE ClientProofs -----------------------------
(***************************************************************************)
(* Theorems about Client, for any calls, queues and close() calls.  They   *)
(* use those about ReplyRouter: the client's router is one without replies.*)
(*                                                                         *)
(* ClientTypes and ClientRouter hold whatever overlaps.  The rest needs    *)
(* that no call is made while a close() is in progress: what happens else  *)
(* is shown by ClientLateSend.cfg.                                         *)
(***************************************************************************)
EXTENDS Client, FiniteSetTheorems, TLAPS

P == INSTANCE ReplyRouterProofs
       WITH Reply <- {}, CorrelationId <- <<>>, ReplyQueue <- <<>>, InvalidId <- "invalid",
            FinishedLimit <- 1, MaxDeliveryCount <- 1,
            reply <- <<>>, holder <- <<>>, deliveries <- <<>>

(***************************************************************************)
(* The inductive invariant, in named parts.                                *)
(***************************************************************************)

\* The types, and which connections can be closed: one that was made, and by a
\* close() that waits for what is stuck, one that is not the current one.
ConnectionTypes ==
  /\ TypeOK
  /\ closedConns \subseteq 1 .. connections
  /\ \A k \in Closer :
       step[k] = "stuck" => client[k] \in 1 .. connections /\ client[k] # sbClient

\* A call has its connection when it goes on, and no close() runs meanwhile.
CallsAreConnected ==
  \A c \in Call :
    /\ sendStep[c] = "connecting" => Closing = {} /\ sbClient # NoConnection
    /\ sendStep[c] # "refused"

\* No listener is in use.
NobodyListens == \A q \in Queue : listeners[q] = R!NoListener

\* What each close() achieved so far, and what no connection means.
SendsAreSettled ==
  /\ \A k \in Closer :
       step[k] \in {"sendsSettled", "receivers", "lastSends", "lastSettled"} =>
         Sending \subseteq byClose
  /\ sbClient = NoConnection => Sending \subseteq byClose

ListenersAreClosed ==
  /\ \A k \in Closer :
       step[k] \in {"receivers", "lastSends", "lastSettled"} => NobodyListens
  /\ sbClient = NoConnection => NobodyListens

\* A listener in use receives on the current connection, if it does already;
\* one that was not made does not.
ListensOnCurrent ==
  /\ \A q \in Queue :
       listeners[q] # R!NoListener => listenerConn[listeners[q]] \in {NoConnection, sbClient}
  /\ \A l \in R!Listener : l > made => listenerConn[l] = NoConnection

\* The close() of a connection waits for all that goes on on it.
StuckIsWaitedFor ==
  \A k \in Closer : step[k] = "stuck" =>
    /\ \A c \in Sending : sendConn[c] = client[k] => c \in stuckSends[k]
    /\ \A l \in R!Listener :
         listenerConn[l] = client[k] => l \in stuckClosings[k] \/ closeStep[l] = "settled"

ClientInv ==
  /\ ConnectionTypes
  /\ P!RouterInv
  /\ CallsAreConnected
  /\ SendsAreSettled
  /\ ListenersAreClosed
  /\ ListensOnCurrent
  /\ StuckIsWaitedFor

-----------------------------------------------------------------------------
(* The client's router is a router *)

\* What ReplyRouter assumes of its constants holds of the client's.
LEMMA RouterConstants ==
  /\ P!IsFiniteSet(Request) /\ RequestQueue \in [Request -> Queue]
  /\ "invalid" \notin Request /\ Queue # {}
  /\ Sessions \in BOOLEAN /\ MaxListeners \in Nat \ {0}
BY ClientAssumption DEF P!IsFiniteSet, IsFiniteSet

\* The router of a new client is a new one.
LEMMA RouterInit == Init => P!RouterInv
<1>1. R!Init => P!Init
  BY DEF R!Init, P!Init, R!Listener, P!Listener, R!NoListener, P!NoListener
<1> QED BY <1>1, RouterConstants, P!InitInv DEF Init

\* What the client calls of the router are operations of the router.
LEMMA RouterOperations ==
  ASSUME \/ \E c \in Request : R!Join(c) \/ R!Open(c) \/ R!StopWaiting(c)
         \/ R!Close
         \/ \E l \in R!Listener : R!OpenStep(l) \/ R!CloseStep(l) \/ R!ReceiveError(l)
  PROVE  P!Next
<1> USE DEF R!NoListener, P!NoListener, R!Listener, P!Listener, R!routerVars, P!routerVars,
            R!replyVars, P!replyVars
<1>1. \A S : R!CloseListeners(S) => P!CloseListeners(S)
  BY DEF R!CloseListeners, P!CloseListeners, R!StillOpening, P!StillOpening
<1>2. \A S : R!FailAll(S) => P!FailAll(S)
  <2>1. \A ids : R!AddFinished(ids) => P!AddFinished(ids)
    BY DEF R!AddFinished, P!AddFinished
  <2>2. \A S : R!SetToSeqs(S) = P!SetToSeqs(S)
    <3>1. \A S : R!Cardinality(S) = P!Cardinality(S)
      BY DEF R!Cardinality, P!Cardinality
    <3> QED BY <3>1 DEF R!SetToSeqs, P!SetToSeqs
  <2> QED BY <1>1, <2>1, <2>2 DEF R!FailAll, P!FailAll
<1>3. \A c : R!Join(c) => P!Join(c)
  BY DEF R!Join, P!Join
<1>4. \A c : R!Open(c) => P!Open(c)
  BY DEF R!Open, P!Open, R!PreviousOf, P!PreviousOf
<1>5. \A c : R!StopWaiting(c) => P!StopWaiting(c)
  BY <1>1 DEF R!StopWaiting, P!StopWaiting, R!AddFinished, P!AddFinished, R!LastOne, P!LastOne
<1>6. R!Close => P!Close
  BY <1>2 DEF R!Close, P!Close
<1>7. \A l : R!OpenStep(l) => P!OpenStep(l)
  <2>1. \A l, s : R!Opening(l, s) <=> P!Opening(l, s)
    BY DEF R!Opening, P!Opening, R!PreviousSettled, P!PreviousSettled
  <2>2. \A l : R!OpenSkipped(l) \/ R!AcceptSession(l) \/ R!Opened(l) => P!OpenStep(l)
    BY <2>1 DEF R!OpenSkipped, P!OpenSkipped, R!AcceptSession, P!AcceptSession, R!Opened,
       P!Opened, P!OpenStep
  <2>3. \A l : R!OpenFails(l) \/ R!SubscribeFails(l) => P!OpenStep(l)
    BY <1>2, <2>1 DEF R!OpenFails, P!OpenFails, R!SubscribeFails, P!SubscribeFails, P!OpenStep
  <2> QED BY <2>2, <2>3 DEF R!OpenStep
<1>8. \A l : R!ReceiveError(l) => P!ReceiveError(l)
  BY <1>2 DEF R!ReceiveError, P!ReceiveError
<1>9. \A l : R!CloseStep(l) => P!CloseStep(l)
  BY DEF R!CloseStep, P!CloseStep, R!CloseReceiver, P!CloseReceiver, R!ReceiverClosed,
     P!ReceiverClosed, R!ReceiverCloseFails, P!ReceiverCloseFails, R!SubscriptionClosed,
     P!SubscriptionClosed, R!ForgetClosing, P!ForgetClosing
<1> QED BY <1>3, <1>4, <1>5, <1>6, <1>7, <1>8, <1>9 DEF P!Next

-----------------------------------------------------------------------------
(* The steps *)

\* The steps of a close().
CloserStep(k) == CloseStarts(k) \/ CloseGoesOn(k) \/ StuckSettled(k)

\* A step of the client is a step of its router, or none; only publish() can
\* make a listener.
LEMMA RouterMoves ==
  ASSUME [Next]_vars
  PROVE  /\ [P!Next]_(P!vars)
         /\ made' = made \/ \E c \in Call : Publish(c)
<1> DEFINE Stays == UNCHANGED routerVars
           Goal == [P!Next]_(P!vars) /\ (made' = made \/ \E c \in Call : Publish(c))
<1>1. ASSUME Stays PROVE [P!Next]_(P!vars) /\ made' = made
  BY <1>1 DEF routerVars, P!vars, P!routerVars, P!listenerVars, P!replyVars
<1>2. ASSUME NEW c \in Request, R!StopWaiting(c) PROVE [P!Next]_(P!vars) /\ made' = made
  BY <1>2, RouterOperations DEF R!StopWaiting
<1>3. ASSUME CloseRouter PROVE [P!Next]_(P!vars) /\ made' = made
  <2>1. R!Close => made' = made
    BY DEF R!Close
  <2> QED BY <1>1, <1>3, <2>1, RouterOperations DEF CloseRouter
<1>4. ASSUME NEW l \in R!Listener, R!OpenStep(l) \/ R!CloseStep(l) \/ R!ReceiveError(l)
      PROVE  [P!Next]_(P!vars) /\ made' = made
  <2>1. R!OpenStep(l) => made' = made
    BY DEF R!OpenStep, R!OpenSkipped, R!AcceptSession, R!Opened, R!OpenFails, R!SubscribeFails
  <2>2. R!CloseStep(l) => made' = made
    BY DEF R!CloseStep, R!CloseReceiver, R!ReceiverClosed, R!ReceiverCloseFails,
       R!SubscriptionClosed
  <2>3. R!ReceiveError(l) => made' = made
    BY DEF R!ReceiveError
  <2> QED BY <1>4, <2>1, <2>2, <2>3, RouterOperations
<1> HIDE DEF Stays
<1>5. ASSUME NEW c \in Call, Publish(c) PROVE Goal
  BY <1>1, <1>5, RouterOperations DEF Publish, Stays
<1>6. ASSUME NEW c \in Call, Connect(c) \/ SendRefused(c) \/ Sent(c) \/ SendFails(c) \/ SenderClosed(c)
      PROVE  Goal
  BY <1>1, <1>2, <1>6 DEF Connect, SendRefused, Sent, SendFails, SenderClosed, Fails, Stays
<1>7. ASSUME NEW c \in Request, StopWaiting(c) PROVE Goal
  BY <1>2, <1>7 DEF StopWaiting
<1>8. ASSUME NEW l \in R!Listener, ListenerUsesClient(l) \/ ListenerGoesOn(l) PROVE Goal
  BY <1>4, <1>8 DEF ListenerUsesClient, ListenerGoesOn, R!OpenStep
<1>9. ASSUME NEW k \in Closer, CloserStep(k) PROVE Goal
  <2>1. CASE ClosesRouter(k)
    BY <1>3, <2>1 DEF ClosesRouter, ToReceivers
  <2>2. CASE ~ClosesRouter(k)
    <3>1. Stays
      BY <1>9, <2>2 DEF CloserStep, CloseGoesOn, CloseStarts, SendsSettled, SendsCancelled,
         ReceiversSettled, CloseConnection, ConnectionClosed, StuckSettled, Stays
    <3> QED BY <1>1, <3>1
  <2> QED BY <2>1, <2>2
<1>10. CASE UNCHANGED vars
  BY <1>1, <1>10 DEF vars, Stays
<1> QED BY <1>5, <1>6, <1>7, <1>8, <1>9, <1>10 DEF Next, CloserStep

\* The router's invariant holds in the client, and a step takes listeners out
\* of use or puts a new one to use.
LEMMA RouterKept ==
  ASSUME P!RouterInv, [Next]_vars
  PROVE  /\ P!RouterInv'
         /\ made \in Nat /\ made' \in {made, made + 1}
         /\ \A q \in Queue : \/ listeners'[q] \in {listeners[q], R!NoListener}
                             \/ made' = made + 1 /\ listeners'[q] = made'
         /\ \A l \in R!Listener : closeStep[l] = "settled" => closeStep'[l] = "settled"
<1>1. [P!Next]_(P!vars)
  BY RouterMoves
<1>2. P!RouterInv'
  BY <1>1, RouterConstants, P!NextInv
<1>3. P!TypeOK /\ made \in Nat
  BY RouterConstants DEF P!RouterInv, P!TypeOK
<1>4. /\ made' \in {made, made + 1}
      /\ \A q \in Queue : \/ listeners'[q] \in {listeners[q], P!NoListener}
                          \/ made' = made + 1 /\ listeners'[q] = made'
  BY <1>1, <1>3, RouterConstants, P!NextInUse
<1>5. \A l \in P!Listener : closeStep[l] = "settled" => closeStep'[l] = "settled"
  BY <1>1, RouterConstants, P!NextSettled
<1> QED BY <1>2, <1>3, <1>4, <1>5 DEF P!Listener, R!Listener, P!NoListener, R!NoListener

-----------------------------------------------------------------------------
(* Types and connections *)

\* A new client has no connection.
LEMMA InitTypes == Init => ConnectionTypes
<1> SUFFICES ASSUME Init PROVE ConnectionTypes
  OBVIOUS
<1>1. MaxConnections \in Nat
  BY ClientAssumption
<1>2. TypeOK
  BY <1>1 DEF Init, TypeOK, NoConnection, Connection
<1> QED BY <1>2 DEF Init, ConnectionTypes

\* Every step keeps the types; a connection is made new and closed when it is
\* not the current one any more.
LEMMA TypesStep == ConnectionTypes /\ [Next]_vars => ConnectionTypes'
<1> SUFFICES ASSUME ConnectionTypes, [Next]_vars PROVE ConnectionTypes'
  OBVIOUS
<1> USE DEF ConnectionTypes, TypeOK, NoConnection, Connection
<1>0. connections \in Nat /\ MaxConnections \in Nat /\ connections <= MaxConnections
  BY ClientAssumption
<1>1. ASSUME NEW c \in Call, Connect(c) PROVE ConnectionTypes'
  <2>1. /\ sendStep' \in [Call -> {"none", "connecting", "refused", "sending", "senderClosing", "done"}]
        /\ UNCHANGED <<closedConns, listenerConn, sendConn, byClose, closerVars>>
    BY <1>1 DEF Connect
  <2>2. CASE sbClient # 0
    BY <1>1, <2>1, <2>2 DEF Connect, EnsureConnected, closerVars
  <2>3. CASE sbClient = 0
    <3>1. connections' = connections + 1 /\ sbClient' = connections + 1 /\ connections' <= MaxConnections
      BY <1>0, <1>1, <2>3 DEF Connect, EnsureConnected
    <3> QED BY <1>0, <2>1, <3>1 DEF closerVars
  <2> QED BY <2>2, <2>3
<1>2. ASSUME NEW c \in Call, Publish(c) PROVE ConnectionTypes'
  BY <1>0, <1>2 DEF Publish, connVars, closerVars
<1>3. ASSUME NEW c \in Call, SendRefused(c) \/ Sent(c) \/ SendFails(c) \/ SenderClosed(c)
      PROVE  ConnectionTypes'
  BY <1>3 DEF SendRefused, Sent, SendFails, SenderClosed, connVars, closerVars
<1>4. ASSUME NEW c \in Request, StopWaiting(c) PROVE ConnectionTypes'
  BY <1>4 DEF StopWaiting, connVars, sendVars, closerVars
<1>5. ASSUME NEW l \in R!Listener, ListenerUsesClient(l) PROVE ConnectionTypes'
  BY <1>0, <1>5 DEF ListenerUsesClient, sendVars, closerVars
<1>6. ASSUME NEW l \in R!Listener, ListenerGoesOn(l) PROVE ConnectionTypes'
  BY <1>6 DEF ListenerGoesOn, connVars, sendVars, closerVars
<1>7. ASSUME NEW k \in Closer, CloseStarts(k) \/ SendsSettled(k) \/ ClosesRouter(k)
                               \/ ReceiversSettled(k) \/ ConnectionClosed(k)
      PROVE  ConnectionTypes'
  BY <1>7 DEF CloseStarts, SendsSettled, SettlesSends, ClosesRouter, ReceiversSettled,
     ConnectionClosed, ToReceivers, connVars, sendVars
<1>8. ASSUME NEW k \in Closer, SendsCancelled(k) PROVE ConnectionTypes'
  <2>1. Live \subseteq Call
    BY DEF Live, Sending
  <2> QED BY <1>8, <2>1 DEF SendsCancelled, SettlesSends, connVars
<1>9. ASSUME NEW k \in Closer, CloseConnection(k) PROVE ConnectionTypes'
  <2>1. sbClient' = 0 /\ UNCHANGED <<connections, listenerConn, sendVars>>
    BY <1>9 DEF CloseConnection, ForgetClient
  <2>2. Sending \subseteq Call /\ InFlight \subseteq R!Listener
    BY DEF Sending, InFlight
  <2>3. CASE sbClient = 0
    BY <1>0, <1>9, <2>1, <2>3 DEF CloseConnection, sendVars
  <2>4. CASE sbClient # 0 /\ Stuck # {}
    <3>1. /\ step' = [step EXCEPT ![k] = "stuck"]
          /\ client' = [client EXCEPT ![k] = sbClient]
          /\ stuckSends' = [stuckSends EXCEPT ![k] = Sending]
          /\ stuckClosings' = [stuckClosings EXCEPT ![k] = InFlight]
          /\ closedConns' = closedConns
      BY <1>9, <2>4 DEF CloseConnection
    <3>2. stuckSends' \in [Closer -> SUBSET Call] /\ stuckClosings' \in [Closer -> SUBSET R!Listener]
      BY <2>2, <3>1
    <3>3. sbClient \in 1 .. connections /\ 1 .. connections \subseteq 1 .. MaxConnections
      BY <1>0, <2>4
    <3>4. client' \in [Closer -> 1 .. MaxConnections \union {0}]
      BY <3>1, <3>3
    <3>5. TypeOK'
      BY <1>0, <2>1, <3>1, <3>2, <3>4 DEF sendVars
    <3>6. ASSUME NEW j \in Closer, step'[j] = "stuck"
          PROVE  client'[j] \in 1 .. connections /\ client'[j] # 0
      BY <1>0, <3>1, <3>3, <3>6
    <3> HIDE DEF TypeOK
    <3> QED BY <2>1, <3>1, <3>5, <3>6
  <2>5. CASE sbClient # 0 /\ Stuck = {}
    <3>1. /\ step' = [step EXCEPT ![k] = "connection"]
          /\ closedConns' = closedConns \union {sbClient}
          /\ UNCHANGED <<client, stuckSends, stuckClosings>>
      BY <1>9, <2>5 DEF CloseConnection
    <3>2. closedConns' \subseteq 1 .. connections /\ closedConns' \subseteq 1 .. MaxConnections
          /\ 0 \notin closedConns'
      BY <1>0, <2>5, <3>1
    <3>3. TypeOK'
      BY <1>0, <2>1, <3>1, <3>2 DEF sendVars
    <3>4. ASSUME NEW j \in Closer, step'[j] = "stuck"
          PROVE  client'[j] \in 1 .. connections /\ client'[j] # 0
      BY <1>0, <3>1, <3>4
    <3> HIDE DEF TypeOK
    <3> QED BY <2>1, <3>2, <3>3, <3>4
  <2> QED BY <2>3, <2>4, <2>5
<1>10. ASSUME NEW k \in Closer, StuckSettled(k) PROVE ConnectionTypes'
  <2>1. /\ step[k] = "stuck" /\ step' = [step EXCEPT ![k] = "none"]
        /\ client' = [client EXCEPT ![k] = 0]
        /\ stuckSends' = [stuckSends EXCEPT ![k] = {}]
        /\ stuckClosings' = [stuckClosings EXCEPT ![k] = {}]
        /\ closedConns' = closedConns \union {client[k]}
        /\ UNCHANGED <<sbClient, connections, listenerConn, sendVars>>
    BY <1>10 DEF StuckSettled
  <2>2. client[k] \in 1 .. connections /\ client[k] # sbClient
    BY <2>1
  <2>3. closedConns' \subseteq 1 .. connections /\ closedConns' \subseteq 1 .. MaxConnections
        /\ sbClient \notin closedConns'
    <3>1. closedConns \subseteq 1 .. connections /\ sbClient \notin closedConns
      OBVIOUS
    <3>2. 1 .. connections \subseteq 1 .. MaxConnections
      BY <1>0
    <3> HIDE DEF ConnectionTypes, TypeOK
    <3> QED BY <2>1, <2>2, <3>1, <3>2
  <2>4. /\ client' \in [Closer -> 1 .. MaxConnections \union {0}]
        /\ stuckSends' \in [Closer -> SUBSET Call] /\ stuckClosings' \in [Closer -> SUBSET R!Listener]
    BY <2>1
  <2>5. TypeOK'
    BY <1>0, <2>1, <2>3, <2>4 DEF sendVars
  <2>6. ASSUME NEW j \in Closer, step'[j] = "stuck"
        PROVE  client'[j] \in 1 .. connections /\ client'[j] # sbClient
    BY <2>1, <2>6
  <2> HIDE DEF TypeOK
  <2> QED BY <2>1, <2>3, <2>5, <2>6
<1>11. CASE UNCHANGED vars
  BY <1>11 DEF vars, connVars, sendVars, closerVars
<1> QED BY <1>1, <1>2, <1>3, <1>4, <1>5, <1>6, <1>7, <1>8, <1>9, <1>10, <1>11 DEF Next, CloseGoesOn

-----------------------------------------------------------------------------
(* Without calls during a close() *)

\* A step of close() that goes on is one of a close() that did not return.
LEMMA GoesOnWhileClosing ==
  ASSUME NEW k \in Closer, CloseGoesOn(k)
  PROVE  k \in Closing
BY DEF CloseGoesOn, SendsSettled, SendsCancelled, ClosesRouter, ReceiversSettled,
   CloseConnection, ConnectionClosed, Closing

\* Calls and close() keep out of each other's way.
LEMMA CallsStep ==
  ASSUME ~CallsWhileClosing, ConnectionTypes, CallsAreConnected, [Next]_vars
  PROVE  CallsAreConnected'
<1> USE DEF CallsAreConnected, Closing
<1>0. TypeOK
  BY DEF ConnectionTypes
<1>1. ASSUME NEW c \in Call, Connect(c) PROVE CallsAreConnected'
  <2>1. Closing = {} /\ step' = step
    BY <1>1 DEF Connect, closerVars
  <2>2. sbClient' # NoConnection
    BY <1>0, <1>1 DEF Connect, EnsureConnected, TypeOK, NoConnection
  <2> QED BY <1>0, <1>1, <2>1, <2>2 DEF Connect, TypeOK
<1>2. ASSUME NEW c \in Call, Publish(c) PROVE CallsAreConnected'
  <2>1. sbClient # NoConnection /\ step' = step /\ sbClient' = sbClient
    BY <1>2 DEF Publish, connVars, closerVars
  <2>2. sendStep' = [sendStep EXCEPT ![c] = "sending"]
    BY <1>2, <2>1 DEF Publish
  <2> QED BY <1>0, <2>1, <2>2 DEF TypeOK
<1>3. ASSUME NEW c \in Call, SendRefused(c) \/ Sent(c) \/ SendFails(c) \/ SenderClosed(c)
      PROVE  CallsAreConnected'
  BY <1>0, <1>3 DEF SendRefused, Sent, SendFails, SenderClosed, connVars, closerVars, TypeOK
<1>4. CASE UNCHANGED <<sbClient, sendStep, step>>
  BY <1>4
<1>5. ASSUME NEW c \in Request, StopWaiting(c) PROVE CallsAreConnected'
  BY <1>4, <1>5 DEF StopWaiting, connVars, sendVars, closerVars
<1>6. ASSUME NEW l \in R!Listener, ListenerUsesClient(l) \/ ListenerGoesOn(l)
      PROVE  CallsAreConnected'
  BY <1>4, <1>6 DEF ListenerUsesClient, ListenerGoesOn, connVars, sendVars, closerVars
<1>7. ASSUME NEW k \in Closer, CloseStarts(k) PROVE CallsAreConnected'
  BY <1>7 DEF CloseStarts, sendVars
<1>8. ASSUME NEW k \in Closer, CloseGoesOn(k) PROVE CallsAreConnected'
  <2>1. \A c \in Call : sendStep[c] # "connecting"
    BY <1>8, GoesOnWhileClosing
  <2>2. sendStep' = sendStep
    BY <1>8 DEF CloseGoesOn, SendsSettled, SendsCancelled, ClosesRouter, ReceiversSettled,
       CloseConnection, ConnectionClosed, sendVars
  <2> QED BY <2>1, <2>2
<1>9. ASSUME NEW k \in Closer, StuckSettled(k) PROVE CallsAreConnected'
  <2>1. /\ sbClient' = sbClient /\ sendStep' = sendStep
        /\ step' = [step EXCEPT ![k] = "none"]
    BY <1>9 DEF StuckSettled, sendVars
  <2> QED BY <1>0, <2>1 DEF TypeOK
<1>10. CASE UNCHANGED vars
  BY <1>4, <1>10 DEF vars, connVars, sendVars, closerVars
<1> QED BY <1>1, <1>2, <1>3, <1>5, <1>6, <1>7, <1>8, <1>9, <1>10 DEF Next

\* Only publish() starts a send.
LEMMA NoSendStarts ==
  ASSUME TypeOK, [Next]_vars, \A c \in Call : ~Publish(c)
  PROVE  /\ Sending' \subseteq Sending
         /\ sendConn' = sendConn
         /\ byClose \subseteq byClose'
<1> USE DEF Sending
<1>1. ASSUME NEW c \in Call, \/ Connect(c) \/ SendRefused(c) \/ Sent(c) \/ SendFails(c)
                             \/ SenderClosed(c)
      PROVE  Sending' \subseteq Sending /\ sendConn' = sendConn /\ byClose' = byClose
  BY <1>1 DEF Connect, SendRefused, Sent, SendFails, SenderClosed, TypeOK
<1>2. ASSUME NEW c \in Request, StopWaiting(c) PROVE UNCHANGED sendVars
  BY <1>2 DEF StopWaiting
<1>3. ASSUME NEW l \in R!Listener, ListenerUsesClient(l) \/ ListenerGoesOn(l)
      PROVE  UNCHANGED sendVars
  BY <1>3 DEF ListenerUsesClient, ListenerGoesOn
<1>4. ASSUME NEW k \in Closer, CloserStep(k)
      PROVE  UNCHANGED <<sendStep, sendConn>> /\ byClose \subseteq byClose'
  BY <1>4 DEF CloserStep, CloseStarts, CloseGoesOn, SendsSettled, SendsCancelled, ClosesRouter,
     ReceiversSettled, CloseConnection, ConnectionClosed, StuckSettled, sendVars
<1>5. CASE UNCHANGED vars
  BY <1>5 DEF vars, sendVars
<1> QED BY <1>1, <1>2, <1>3, <1>4, <1>5 DEF Next, CloserStep, sendVars


\* A send that is neither over nor cancelled is waited for.
LEMMA SendsStep ==
  ASSUME ConnectionTypes, CallsAreConnected, SendsAreSettled, [Next]_vars
  PROVE  SendsAreSettled'
<1> USE DEF SendsAreSettled
<1>0. TypeOK
  BY DEF ConnectionTypes
<1>1. ASSUME NEW c \in Call, Publish(c) PROVE SendsAreSettled'
  <2>1. Closing = {} /\ sbClient # NoConnection
    BY <1>1 DEF Publish, CallsAreConnected
  <2>2. sbClient' = sbClient /\ step' = step
    BY <1>1 DEF Publish, connVars, closerVars
  <2> QED BY <2>1, <2>2 DEF Closing
<1>2. ASSUME \A c \in Call : ~Publish(c), UNCHANGED step,
             sbClient' = NoConnection => sbClient = NoConnection
      PROVE  SendsAreSettled'
  BY <1>0, <1>2, NoSendStarts
<1>3. ASSUME NEW c \in Call, \/ Connect(c) \/ SendRefused(c) \/ Sent(c) \/ SendFails(c)
                             \/ SenderClosed(c)
      PROVE  step' = step /\ (sbClient' = NoConnection => sbClient = NoConnection)
  <2>1. step' = step
    BY <1>3 DEF Connect, SendRefused, Sent, SendFails, SenderClosed, closerVars
  <2>2. CASE Connect(c)
    BY <1>0, <2>1, <2>2 DEF Connect, EnsureConnected, TypeOK, NoConnection
  <2>3. CASE ~Connect(c)
    BY <1>3, <2>1, <2>3 DEF SendRefused, Sent, SendFails, SenderClosed, connVars
  <2> QED BY <2>2, <2>3
<1>4. ASSUME NEW c \in Request, StopWaiting(c) PROVE UNCHANGED <<step, sbClient>>
  BY <1>4 DEF StopWaiting, connVars, closerVars
<1>5. ASSUME NEW l \in R!Listener, ListenerUsesClient(l) \/ ListenerGoesOn(l)
      PROVE  UNCHANGED <<step, sbClient>>
  BY <1>5 DEF ListenerUsesClient, ListenerGoesOn, connVars, closerVars
<1>6. ASSUME NEW k \in Closer, CloserStep(k) PROVE SendsAreSettled'
  <2>1. UNCHANGED <<sendStep, sendConn>> /\ Sending' = Sending
    BY <1>6 DEF CloserStep, CloseStarts, CloseGoesOn, SendsSettled, SendsCancelled, ClosesRouter,
       ReceiversSettled, CloseConnection, ConnectionClosed, StuckSettled, sendVars, Sending
  <2>2. CASE CloseStarts(k) \/ ConnectionClosed(k) \/ StuckSettled(k)
    BY <1>0, <2>1, <2>2 DEF CloseStarts, ConnectionClosed, StuckSettled, connVars, sendVars, TypeOK
  <2>3. CASE SendsSettled(k) \/ ClosesRouter(k) \/ ReceiversSettled(k)
    BY <1>0, <2>1, <2>3 DEF SendsSettled, SettlesSends, ClosesRouter, ReceiversSettled,
       ToReceivers, connVars, sendVars, TypeOK, Live
  <2>4. CASE SendsCancelled(k)
    <3>1. Sending' \subseteq byClose'
      BY <2>1, <2>4 DEF SendsCancelled, Live
    <3> QED BY <3>1
  <2>5. CASE CloseConnection(k)
    <3>1. Sending \subseteq byClose /\ byClose' = byClose
      BY <2>5 DEF CloseConnection, sendVars
    <3> QED BY <2>1, <3>1
  <2> QED BY <1>6, <2>2, <2>3, <2>4, <2>5 DEF CloserStep, CloseGoesOn
<1>7. CASE UNCHANGED vars
  BY <1>7 DEF vars, connVars, sendVars, closerVars, Sending
<1> QED BY <1>1, <1>2, <1>3, <1>4, <1>5, <1>6, <1>7 DEF Next, CloserStep

\* replies.close() leaves no listener in use.
LEMMA CloseRouterEmpties ==
  ASSUME CloseRouter
  PROVE  NobodyListens'
<1>1. CASE R!Close
  BY <1>1 DEF R!Close, R!FailAll, R!CloseListeners, NobodyListens
<1>2. CASE ~R!Close
  BY <1>2 DEF CloseRouter, NobodyListens, routerVars
<1> QED BY <1>1, <1>2

\* No listener comes into use between the end of the router and that of the
\* connection.
LEMMA ListenersStep ==
  ASSUME ConnectionTypes, P!RouterInv, CallsAreConnected, ListenersAreClosed, [Next]_vars
  PROVE  ListenersAreClosed'
<1> USE DEF ListenersAreClosed
<1>0. TypeOK
  BY DEF ConnectionTypes
<1>1. ASSUME NEW c \in Call, Publish(c) PROVE ListenersAreClosed'
  <2>1. Closing = {} /\ sbClient # NoConnection
    BY <1>1 DEF Publish, CallsAreConnected
  <2>2. sbClient' = sbClient /\ step' = step
    BY <1>1 DEF Publish, connVars, closerVars
  <2> QED BY <2>1, <2>2 DEF Closing
<1>2. ASSUME \A c \in Call : ~Publish(c), NobodyListens PROVE NobodyListens'
  <2>1. made' = made /\ made \in Nat
    BY <1>2, RouterMoves, RouterKept
  <2> QED BY <1>2, <2>1, RouterKept DEF NobodyListens
<1>3. ASSUME \A c \in Call : ~Publish(c), UNCHANGED step,
             sbClient' = NoConnection => sbClient = NoConnection
      PROVE  ListenersAreClosed'
  BY <1>2, <1>3
<1>4. ASSUME NEW c \in Call, \/ Connect(c) \/ SendRefused(c) \/ Sent(c) \/ SendFails(c)
                             \/ SenderClosed(c)
      PROVE  step' = step /\ (sbClient' = NoConnection => sbClient = NoConnection)
  <2>1. step' = step
    BY <1>4 DEF Connect, SendRefused, Sent, SendFails, SenderClosed, closerVars
  <2>2. CASE Connect(c)
    BY <1>0, <2>1, <2>2 DEF Connect, EnsureConnected, TypeOK, NoConnection
  <2>3. CASE ~Connect(c)
    BY <1>4, <2>1, <2>3 DEF SendRefused, Sent, SendFails, SenderClosed, connVars
  <2> QED BY <2>2, <2>3
<1>5. ASSUME NEW c \in Request, StopWaiting(c) PROVE UNCHANGED <<step, sbClient>>
  BY <1>5 DEF StopWaiting, connVars, closerVars
<1>6. ASSUME NEW l \in R!Listener, ListenerUsesClient(l) \/ ListenerGoesOn(l)
      PROVE  UNCHANGED <<step, sbClient>>
  BY <1>6 DEF ListenerUsesClient, ListenerGoesOn, connVars, closerVars
<1>7. ASSUME NEW k \in Closer, CloserStep(k) PROVE ListenersAreClosed'
  <2>1. CASE ClosesRouter(k)
    <3>1. NobodyListens'
      BY <2>1, CloseRouterEmpties DEF ClosesRouter, ToReceivers
    <3> QED BY <3>1
  <2>2. CASE \/ CloseStarts(k) \/ ConnectionClosed(k) \/ StuckSettled(k) \/ SendsSettled(k)
             \/ SendsCancelled(k) \/ ReceiversSettled(k) \/ CloseConnection(k)
    <3>1. UNCHANGED listeners /\ (NobodyListens => NobodyListens')
      BY <2>2 DEF CloseStarts, ConnectionClosed, StuckSettled, SendsSettled, SendsCancelled,
         ReceiversSettled, CloseConnection, routerVars, NobodyListens
    <3>2. CASE CloseStarts(k) \/ ConnectionClosed(k) \/ StuckSettled(k)
      BY <1>0, <3>1, <3>2 DEF CloseStarts, ConnectionClosed, StuckSettled, connVars, TypeOK
    <3>3. CASE SendsSettled(k) \/ SendsCancelled(k) \/ ReceiversSettled(k)
      BY <1>0, <3>1, <3>3 DEF SendsSettled, SendsCancelled, SettlesSends, ReceiversSettled,
         connVars, TypeOK
    <3>4. CASE CloseConnection(k)
      BY <3>1, <3>4 DEF CloseConnection
    <3> QED BY <2>2, <3>2, <3>3, <3>4
  <2> QED BY <1>7, <2>1, <2>2 DEF CloserStep, CloseGoesOn
<1>8. CASE UNCHANGED vars
  BY <1>8 DEF vars, routerVars, connVars, closerVars, NobodyListens
<1> QED BY <1>1, <1>3, <1>4, <1>5, <1>6, <1>7, <1>8 DEF Next, CloserStep


\* Listeners receive on the connection that getClient() returned.
LEMMA CurrentStep ==
  ASSUME ConnectionTypes, P!RouterInv, CallsAreConnected, ListenersAreClosed, ListensOnCurrent,
         [Next]_vars
  PROVE  ListensOnCurrent'
<1>0. TypeOK
  BY DEF ConnectionTypes
<1>1. /\ made \in 0 .. MaxListeners /\ made' \in 0 .. MaxListeners /\ made' \in {made, made + 1}
      /\ MaxListeners \in Nat
      /\ listeners \in [Queue -> R!Listener \union {R!NoListener}]
      /\ \A q \in Queue : \/ listeners'[q] \in {listeners[q], R!NoListener}
                          \/ made' = made + 1 /\ listeners'[q] = made'
  <2>1. P!TypeOK /\ P!TypeOK'
    BY RouterKept DEF P!RouterInv
  <2> QED BY <2>1, RouterConstants, RouterKept DEF P!TypeOK, P!Listener, R!Listener, P!NoListener,
             R!NoListener
<1>2. ASSUME NEW q \in Queue, listeners'[q] # R!NoListener
      PROVE  /\ listeners'[q] \in R!Listener
             /\ listenerConn[listeners'[q]] \in {NoConnection, sbClient}
  <2>1. CASE listeners'[q] = listeners[q]
    BY <1>1, <1>2, <2>1 DEF ListensOnCurrent
  <2>2. CASE listeners'[q] # listeners[q]
    <3>1. listeners'[q] = made + 1 /\ made + 1 \in R!Listener
      BY <1>1, <1>2, <2>2 DEF R!Listener
    <3> QED BY <1>1, <3>1 DEF ListensOnCurrent
  <2> QED BY <2>1, <2>2
<1>3. \A l \in R!Listener : l > made' => l > made /\ listenerConn[l] = NoConnection
  BY <1>1 DEF R!Listener, ListensOnCurrent
<1>4. ASSUME UNCHANGED listenerConn, sbClient' = sbClient \/ sbClient = NoConnection
      PROVE  ListensOnCurrent'
  BY <1>2, <1>3, <1>4 DEF ListensOnCurrent
<1>5. ASSUME NEW l \in R!Listener, ListenerUsesClient(l) PROVE ListensOnCurrent'
  <2>1. listenerConn' = [listenerConn EXCEPT ![l] = sbClient] /\ sbClient' = sbClient
    BY <1>5 DEF ListenerUsesClient
  <2>2. ~(l > made)
    <3>1. P!NotMadeYet
      BY DEF P!RouterInv, P!Routing
    <3> QED BY <1>5, <3>1 DEF P!NotMadeYet, P!Listener, R!Listener, ListenerUsesClient
  <2> QED BY <1>0, <1>2, <1>3, <2>1, <2>2 DEF ListensOnCurrent, TypeOK
<1>6. ASSUME NEW c \in Call, \/ Connect(c) \/ Publish(c) \/ SendRefused(c) \/ Sent(c)
                             \/ SendFails(c) \/ SenderClosed(c)
      PROVE  UNCHANGED listenerConn /\ (sbClient' = sbClient \/ sbClient = NoConnection)
  BY <1>6 DEF Connect, EnsureConnected, Publish, SendRefused, Sent, SendFails, SenderClosed, connVars
<1>7. ASSUME NEW c \in Request, StopWaiting(c) PROVE UNCHANGED <<listenerConn, sbClient>>
  BY <1>7 DEF StopWaiting, connVars
<1>8. ASSUME NEW l \in R!Listener, ListenerGoesOn(l) PROVE UNCHANGED <<listenerConn, sbClient>>
  BY <1>8 DEF ListenerGoesOn, connVars
<1>9. ASSUME NEW k \in Closer, CloserStep(k) PROVE ListensOnCurrent'
  <2>1. CASE CloseConnection(k)
    <3>1. NobodyListens /\ listeners' = listeners /\ listenerConn' = listenerConn
      BY <2>1 DEF CloseConnection, ListenersAreClosed, routerVars
    <3>2. \A q \in Queue : listeners'[q] = R!NoListener
      BY <3>1 DEF NobodyListens
    <3> QED BY <1>3, <3>1, <3>2 DEF ListensOnCurrent
  <2>2. CASE ~CloseConnection(k)
    BY <1>4, <1>9, <2>2 DEF CloserStep, CloseGoesOn, CloseStarts, SendsSettled, SendsCancelled,
       ClosesRouter, ReceiversSettled, ConnectionClosed, StuckSettled, connVars
  <2> QED BY <2>1, <2>2
<1>10. CASE UNCHANGED vars
  BY <1>4, <1>10 DEF vars, connVars
<1> QED BY <1>4, <1>5, <1>6, <1>7, <1>8, <1>9, <1>10 DEF Next, CloserStep

\* A close() that waits for what is stuck on its connection waits for all of it.
LEMMA StuckStep ==
  ASSUME ConnectionTypes, P!RouterInv, CallsAreConnected, ListenersAreClosed, ListensOnCurrent,
         StuckIsWaitedFor, [Next]_vars
  PROVE  StuckIsWaitedFor'
<1>0. TypeOK
  BY DEF ConnectionTypes
<1>1. \A l \in R!Listener : closeStep[l] = "settled" => closeStep'[l] = "settled"
  BY RouterKept
<1>2. ASSUME UNCHANGED <<step, client, stuckSends, stuckClosings>>,
             Sending' \subseteq Sending, sendConn' = sendConn, listenerConn' = listenerConn
      PROVE  StuckIsWaitedFor'
  BY <1>1, <1>2 DEF StuckIsWaitedFor
<1>3. ASSUME NEW c \in Call, Publish(c) PROVE StuckIsWaitedFor'
  <2>1. /\ sendConn' = [sendConn EXCEPT ![c] = sbClient]
        /\ UNCHANGED <<step, client, stuckSends, stuckClosings, listenerConn>>
    BY <1>3 DEF Publish, connVars, closerVars
  <2>2. \A d \in Sending' : d = c \/ d \in Sending
    BY <1>0, <1>3 DEF Publish, Sending, TypeOK
  <2>3. ASSUME NEW k \in Closer, step'[k] = "stuck", NEW d \in Sending', sendConn'[d] = client'[k]
        PROVE  d \in stuckSends'[k]
    <3>1. client[k] # sbClient
      BY <2>1, <2>3 DEF ConnectionTypes
    <3>2. d # c
      BY <1>0, <2>1, <2>3, <3>1 DEF TypeOK
    <3> QED BY <2>1, <2>2, <2>3, <3>2 DEF StuckIsWaitedFor
  <2> QED BY <1>1, <2>1, <2>3 DEF StuckIsWaitedFor
<1>4. ASSUME \A c \in Call : ~Publish(c)
      PROVE  Sending' \subseteq Sending /\ sendConn' = sendConn
  BY <1>0, <1>4, NoSendStarts
<1>5. ASSUME NEW c \in Call, \/ Connect(c) \/ SendRefused(c) \/ Sent(c) \/ SendFails(c)
                             \/ SenderClosed(c)
      PROVE  UNCHANGED <<step, client, stuckSends, stuckClosings, listenerConn>>
  BY <1>5 DEF Connect, SendRefused, Sent, SendFails, SenderClosed, connVars, closerVars
<1>6. ASSUME NEW c \in Request, StopWaiting(c)
      PROVE  UNCHANGED <<step, client, stuckSends, stuckClosings, listenerConn>>
  BY <1>6 DEF StopWaiting, connVars, closerVars
<1>7. ASSUME NEW l \in R!Listener, ListenerGoesOn(l)
      PROVE  UNCHANGED <<step, client, stuckSends, stuckClosings, listenerConn>>
  BY <1>7 DEF ListenerGoesOn, connVars, closerVars
<1>8. ASSUME NEW l \in R!Listener, ListenerUsesClient(l) PROVE StuckIsWaitedFor'
  <2>1. /\ listenerConn' = [listenerConn EXCEPT ![l] = sbClient]
        /\ UNCHANGED <<step, client, stuckSends, stuckClosings, sendConn, sendStep>>
    BY <1>8 DEF ListenerUsesClient, sendVars, closerVars
  <2>2. \A k \in Closer : step[k] = "stuck" => client[k] # sbClient
    BY DEF ConnectionTypes
  <2>3. ASSUME NEW k \in Closer, step'[k] = "stuck", NEW j \in R!Listener, listenerConn'[j] = client'[k]
        PROVE  j \in stuckClosings'[k] \/ closeStep'[j] = "settled"
    <3>1. listenerConn[j] = client[k] /\ step[k] = "stuck"
      BY <1>0, <2>1, <2>2, <2>3 DEF TypeOK
    <3> QED BY <1>1, <2>1, <3>1 DEF StuckIsWaitedFor
  <2> QED BY <2>1, <2>3 DEF StuckIsWaitedFor, Sending
<1>9. ASSUME NEW k \in Closer, CloserStep(k) PROVE StuckIsWaitedFor'
  <2>1. UNCHANGED <<sendStep, sendConn, listenerConn>> /\ Sending' = Sending
    BY <1>9 DEF CloserStep, CloseStarts, CloseGoesOn, SendsSettled, SendsCancelled, ClosesRouter,
       ReceiversSettled, CloseConnection, ConnectionClosed, StuckSettled, sendVars, connVars, Sending
  <2>2. ASSUME UNCHANGED <<client, stuckSends, stuckClosings>>,
               \A j \in Closer : step'[j] = "stuck" => step[j] = "stuck"
        PROVE  StuckIsWaitedFor'
    BY <1>1, <2>1, <2>2 DEF StuckIsWaitedFor
  <2>3. CASE CloseStarts(k) \/ SendsSettled(k) \/ SendsCancelled(k) \/ ClosesRouter(k)
             \/ ReceiversSettled(k) \/ ConnectionClosed(k)
    <3>1. UNCHANGED <<client, stuckSends, stuckClosings>>
      BY <2>3 DEF CloseStarts, SendsSettled, SendsCancelled, ClosesRouter, ReceiversSettled,
         ConnectionClosed
    <3>2. \A j \in Closer : step'[j] = "stuck" => step[j] = "stuck"
      BY <1>0, <2>3 DEF CloseStarts, SendsSettled, SendsCancelled, SettlesSends, ClosesRouter,
         ReceiversSettled, ConnectionClosed, ToReceivers, TypeOK
    <3> QED BY <2>2, <3>1, <3>2
  <2>4. CASE CloseConnection(k) /\ ~(sbClient # NoConnection /\ Stuck # {})
    <3>1. UNCHANGED <<client, stuckSends, stuckClosings>>
      BY <2>4 DEF CloseConnection
    <3>2. \A j \in Closer : step'[j] = "stuck" => step[j] = "stuck"
      BY <1>0, <2>4 DEF CloseConnection, TypeOK
    <3> QED BY <2>2, <3>1, <3>2
  <2>5. CASE CloseConnection(k) /\ sbClient # NoConnection /\ Stuck # {}
    <3>1. /\ step' = [step EXCEPT ![k] = "stuck"]
          /\ client' = [client EXCEPT ![k] = sbClient]
          /\ stuckSends' = [stuckSends EXCEPT ![k] = Sending]
          /\ stuckClosings' = [stuckClosings EXCEPT ![k] = InFlight]
          /\ NobodyListens
      BY <2>5 DEF CloseConnection, ListenersAreClosed
    <3>2. ASSUME NEW l \in R!Listener, listenerConn[l] = sbClient, closeStep[l] # "settled"
          PROVE  l \in InFlight
      <4>1. l \in 1 .. made
        <5>1. made \in Nat
          BY RouterKept
        <5> QED BY <2>5, <3>2, <5>1 DEF ListensOnCurrent, R!Listener
      <4>2. closed[l]
        <5>1. P!TypeOK /\ P!ListenerInUse
          BY DEF P!RouterInv, P!Routing
        <5>2. replyTo[l] \in Queue
          BY <5>1, <3>2 DEF P!TypeOK, P!Listener, R!Listener
        <5>3. listeners[replyTo[l]] = R!NoListener /\ R!NoListener # l
          BY <3>1, <4>1, <5>2 DEF NobodyListens, R!NoListener
        <5> QED BY <4>1, <5>1, <5>3 DEF P!ListenerInUse
      <4>3. closeStep[l] # "none"
        BY <4>2, <3>2 DEF P!RouterInv, P!Phases, P!Listener, R!Listener
      <4> QED BY <3>2, <4>3 DEF InFlight
    <3>3. ASSUME NEW j \in Closer, step'[j] = "stuck"
          PROVE  /\ \A c \in Sending' : sendConn'[c] = client'[j] => c \in stuckSends'[j]
                 /\ \A l \in R!Listener :
                      listenerConn'[l] = client'[j] => l \in stuckClosings'[j] \/ closeStep'[l] = "settled"
      <4>1. CASE j = k
        <5>1. client'[j] = sbClient /\ stuckSends'[j] = Sending /\ stuckClosings'[j] = InFlight
          BY <1>0, <3>1, <4>1 DEF TypeOK
        <5> QED BY <1>1, <2>1, <3>2, <5>1
      <4>2. CASE j # k
        <5>1. /\ step[j] = "stuck" /\ client'[j] = client[j] /\ stuckSends'[j] = stuckSends[j]
              /\ stuckClosings'[j] = stuckClosings[j]
          BY <1>0, <3>1, <3>3, <4>2 DEF TypeOK
        <5> QED BY <1>1, <2>1, <5>1 DEF StuckIsWaitedFor
      <4> QED BY <4>1, <4>2
    <3> QED BY <3>3 DEF StuckIsWaitedFor
  <2>6. CASE StuckSettled(k)
    <3>1. /\ step' = [step EXCEPT ![k] = "none"]
          /\ client' = [client EXCEPT ![k] = NoConnection]
          /\ stuckSends' = [stuckSends EXCEPT ![k] = {}]
          /\ stuckClosings' = [stuckClosings EXCEPT ![k] = {}]
      BY <2>6 DEF StuckSettled
    <3>2. ASSUME NEW j \in Closer, step'[j] = "stuck"
          PROVE  /\ step[j] = "stuck" /\ client'[j] = client[j] /\ stuckSends'[j] = stuckSends[j]
                 /\ stuckClosings'[j] = stuckClosings[j]
      BY <1>0, <3>1, <3>2 DEF TypeOK
    <3> QED BY <1>1, <2>1, <3>2 DEF StuckIsWaitedFor
  <2> QED BY <1>9, <2>3, <2>4, <2>5, <2>6 DEF CloserStep, CloseGoesOn
<1>10. CASE UNCHANGED vars
  BY <1>2, <1>10 DEF vars, connVars, sendVars, closerVars, Sending
<1> QED BY <1>2, <1>3, <1>4, <1>5, <1>6, <1>7, <1>8, <1>9, <1>10 DEF Next, CloserStep

-----------------------------------------------------------------------------
(* The theorems *)

\* The invariant holds of a new client.
LEMMA InitClient == Init => ClientInv
<1> SUFFICES ASSUME Init PROVE ClientInv
  OBVIOUS
<1>1. \A c \in Call : sendStep[c] = "none"
  BY DEF Init
<1>2. \A k \in Closer : step[k] = "none"
  BY DEF Init
<1>3. NobodyListens /\ Sending = {}
  BY <1>1 DEF Init, R!Init, NobodyListens, Sending
<1>4. CallsAreConnected /\ SendsAreSettled /\ ListenersAreClosed /\ StuckIsWaitedFor
  BY <1>1, <1>2, <1>3 DEF CallsAreConnected, SendsAreSettled, ListenersAreClosed, StuckIsWaitedFor
<1>5. ListensOnCurrent
  BY <1>3 DEF Init, ListensOnCurrent, NobodyListens
<1> QED BY <1>4, <1>5, InitTypes, RouterInit DEF ClientInv

\* Every variable of the client keeps its type, and the connection in use is
\* never one that was closed, whatever calls and close() calls overlap.
THEOREM ClientTypes == Spec => []TypeOK
<1>1. ConnectionTypes => TypeOK
  BY DEF ConnectionTypes
<1> QED BY <1>1, InitTypes, TypesStep, PTL DEF Spec

\* What ReplyRouterProofs shows of the router holds of the one in the client,
\* whatever calls and close() calls overlap.
THEOREM ClientRouter == Spec => []P!RouterInv
<1>1. P!RouterInv /\ [Next]_vars => P!RouterInv'
  BY RouterKept
<1> QED BY <1>1, RouterInit, PTL DEF Spec

\* The inductive invariant of calls, listeners and close(): it holds for any
\* calls, queues and overlapping close() calls.
THEOREM ClientInvariant ==
  ASSUME ~CallsWhileClosing
  PROVE  Spec => []ClientInv
<1>1. ClientInv /\ [Next]_vars => ClientInv'
  BY TypesStep, RouterKept, CallsStep, SendsStep, ListenersStep, CurrentStep, StuckStep
     DEF ClientInv
<1> QED BY <1>1, InitClient, PTL DEF Spec

\* A request that waits has a listener in use.
LEMMA WaitsOnListener ==
  ASSUME P!RouterInv, NEW r \in Request, status[r] = "waiting"
  PROVE  RequestQueue[r] \in Queue /\ listeners[RequestQueue[r]] # R!NoListener
BY RouterConstants DEF P!RouterInv, P!Routing, P!WaitingIsListenedTo, P!NoListener, R!NoListener

\* A send() that waits, waits on a connection that is not closed: what close()
\* closed, it told.
THEOREM NobodyWaitsInVain ==
  ASSUME ~CallsWhileClosing
  PROVE  Spec => []WaitingIsConnected
<1>1. ClientInv => WaitingIsConnected
  <2> SUFFICES ASSUME ClientInv, NEW r \in Request, status[r] = "waiting"
               PROVE  listenerConn[listeners[RequestQueue[r]]] \notin closedConns
    BY DEF WaitingIsConnected
  <2>1. listenerConn[listeners[RequestQueue[r]]] \in {NoConnection, sbClient}
    BY WaitsOnListener DEF ClientInv, ListensOnCurrent
  <2>2. NoConnection \notin closedConns /\ sbClient \notin closedConns
    BY DEF ClientInv, ConnectionTypes, TypeOK, Connection, NoConnection
  <2> QED BY <2>1, <2>2
<1> QED BY <1>1, ClientInvariant, PTL

\* A client that is closed has no send() that waits, and no message that is
\* being sent without having been cancelled.
THEOREM ClosedLeavesNothing ==
  ASSUME ~CallsWhileClosing
  PROVE  Spec => []NothingLeftBehind
<1>1. ClientInv => NothingLeftBehind
  <2> SUFFICES ASSUME ClientInv, sbClient = NoConnection
               PROVE  (\A r \in Request : status[r] # "waiting") /\ Sending \subseteq byClose
    BY DEF NothingLeftBehind
  <2>1. NobodyListens /\ Sending \subseteq byClose
    BY DEF ClientInv, SendsAreSettled, ListenersAreClosed
  <2> QED BY <2>1, WaitsOnListener DEF ClientInv, NobodyListens
<1> QED BY <1>1, ClientInvariant, PTL

\* No connection is closed under a send or a reply receiver that is closing.
THEOREM LinksFirst ==
  ASSUME ~CallsWhileClosing
  PROVE  Spec => NotClosedUnderLinks
<1> DEFINE Safe(n) == /\ \A c \in Sending : sendConn[c] # n
                      /\ \A l \in InFlight : listenerConn[l] # n
<1>1. ASSUME ClientInv, Next, NEW n \in closedConns' \ closedConns PROVE Safe(n)
  <2>1. ASSUME NEW k \in Closer, CloseConnection(k) PROVE Safe(n)
    <3>1. Stuck = {}
      BY <1>1, <2>1 DEF CloseConnection
    <3> QED BY <3>1 DEF Stuck
  <2>2. ASSUME NEW k \in Closer, StuckSettled(k) PROVE Safe(n)
    <3>1. /\ step[k] = "stuck" /\ n = client[k]
          /\ stuckSends[k] \intersect Sending = {} /\ stuckClosings[k] \intersect InFlight = {}
      BY <1>1, <2>2 DEF StuckSettled
    <3>2. \A l \in InFlight : l \in R!Listener /\ closeStep[l] # "settled"
      BY DEF InFlight
    <3> QED BY <1>1, <3>1, <3>2 DEF ClientInv, StuckIsWaitedFor
  <2>3. ASSUME UNCHANGED closedConns PROVE FALSE
    BY <1>1, <2>3
  <2>4. ASSUME NEW c \in Call, \/ Connect(c) \/ Publish(c) \/ SendRefused(c) \/ Sent(c)
                               \/ SendFails(c) \/ SenderClosed(c)
        PROVE  UNCHANGED closedConns
    BY <2>4 DEF Connect, Publish, SendRefused, Sent, SendFails, SenderClosed, connVars
  <2>5. ASSUME NEW c \in Request, StopWaiting(c) PROVE UNCHANGED closedConns
    BY <2>5 DEF StopWaiting, connVars
  <2>6. ASSUME NEW l \in R!Listener, ListenerUsesClient(l) \/ ListenerGoesOn(l)
        PROVE  UNCHANGED closedConns
    BY <2>6 DEF ListenerUsesClient, ListenerGoesOn, connVars
  <2>7. ASSUME NEW k \in Closer, CloserStep(k), ~CloseConnection(k), ~StuckSettled(k)
        PROVE  UNCHANGED closedConns
    BY <2>7 DEF CloserStep, CloseGoesOn, CloseStarts, SendsSettled, SendsCancelled, ClosesRouter,
       ReceiversSettled, ConnectionClosed, connVars
  <2> QED BY <1>1, <2>1, <2>2, <2>3, <2>4, <2>5, <2>6, <2>7 DEF Next, CloserStep
<1>2. ClientInv /\ [Next]_vars =>
        [\A n \in closedConns' \ closedConns : /\ \A c \in Sending : sendConn[c] # n
                                               /\ \A l \in InFlight : listenerConn[l] # n]_vars
  BY <1>1
<1> QED BY <1>2, ClientInvariant, PTL DEF Spec, NotClosedUnderLinks
===============================================================================
