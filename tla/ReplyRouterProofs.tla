-------------------------- MODULE ReplyRouterProofs --------------------------
(* Theorems about ReplyRouter, for every value of its constants. *)
EXTENDS ReplyRouter, FiniteSetTheorems, TLAPS

(***************************************************************************)
(* The inductive invariant, in named parts.                                *)
(***************************************************************************)

\* The listener in use on a queue was made for it and did not start closing.
InUseIsOpen ==
  \A q \in Queue :
    listeners[q] # NoListener =>
      /\ listeners[q] \in 1 .. made
      /\ replyTo[listeners[q]] = q
      /\ ~closed[listeners[q]]

\* A listener that was not made yet has no history.
NotMadeYet ==
  \A l \in Listener :
    l > made => /\ waiters[l] = {} /\ ~closed[l]
                /\ opened[l] = "none" /\ receiver[l] = "none"

\* Who waits on a listener waits for its queue, and nobody on a closed one.
WaitersWait ==
  \A l \in Listener :
    /\ closed[l] => waiters[l] = {}
    /\ \A r \in waiters[l] : status[r] = "waiting" /\ RequestQueue[r] = replyTo[l]

Routing ==
  /\ InUseIsOpen
  /\ ListenerInUse
  /\ NotMadeYet
  /\ WaitersWait
  /\ WaitingIsListenedTo

\* Replies exist only for requests that were sent; the handler that holds one
\* belongs to a listener.
Replies ==
  /\ \A m \in Reply :
       CorrelationId[m] \in Request /\ status[CorrelationId[m]] = "new" => reply[m] = "unsent"
  /\ \A m \in Reply : reply[m] \in Held => holder[m] \in Listener
  /\ ReplyReachesItsRequest

\* How far the opening, the receiver and the closing of a listener can be
\* together.
Phases ==
  \A l \in Listener :
    /\ closeStep[l] = "none" <=> ~closed[l]
    /\ closeStep[l] \in {"receiver", "subscription", "settled"} => opened[l] = "settled"
    /\ closeStep[l] \in {"receiver", "subscription", "settled"} => receiver[l] # "open"
    /\ closeStep[l] \in {"subscription", "settled"} => receiver[l] # "closing"
    /\ closeStep[l] \in {"none", "opened"} => receiver[l] \in {"none", "open"}
    /\ receiver[l] # "none" => opened[l] = "settled"

\* An earlier listener of the same queue.
Before(j, l) == j < l /\ replyTo[j] = replyTo[l]

Over(l) == closeStep[l] = "settled"

\* Why a session has one receiver: what a listener waits for stands for all
\* the listeners before it.
EarlierIsClosed ==
  \A j, l \in 1 .. made : Before(j, l) => closed[j]

PreviousIsLatest ==
  \A l \in 1 .. made :
    /\ previous[l] = NoListener => \A j \in 1 .. made : Before(j, l) => Over(j)
    /\ previous[l] # NoListener =>
         /\ previous[l] \in 1 .. made
         /\ Before(previous[l], l)
         /\ \A j \in 1 .. made : Before(j, l) => j <= previous[l]

ClosingIsLatest ==
  \A q \in Queue :
    closing[q] # NoListener =>
      /\ closing[q] \in 1 .. made
      /\ replyTo[closing[q]] = q
      /\ closed[closing[q]]
      /\ \A j \in 1 .. made : replyTo[j] = q /\ closed[j] => j <= closing[q]

OpensAfterEarlier ==
  \A j, l \in 1 .. made :
    Before(j, l) /\ opened[l] \in {"accepting", "settled"} => Over(j)

SessionChain ==
  /\ EarlierIsClosed
  /\ PreviousIsLatest
  /\ ClosingIsLatest
  /\ OpensAfterEarlier
  /\ ClosingIsRemembered

RouterInv ==
  /\ TypeOK
  /\ Routing
  /\ Replies
  /\ Phases
  /\ Sessions => SessionChain

-----------------------------------------------------------------------------

\* What the remembered ids are after an addition: still ids of requests, and
\* no more than the limit.
LEMMA AddFinishedType ==
  ASSUME TypeOK, NEW ids \in Seq(Request), AddFinished(ids)
  PROVE  finished' \in Seq(Request) /\ Len(finished') <= FinishedLimit
<1> DEFINE all == finished \o ids
<1>1. all \in Seq(Request) /\ Len(all) \in Nat
  BY DEF TypeOK
<1>2. FinishedLimit \in Nat \ {0}
  BY BoundsAssumption
<1>3. CASE Len(all) > FinishedLimit
  <2> DEFINE k == Len(all) - FinishedLimit + 1
  <2>1. finished' = SubSeq(all, k, Len(all))
    BY <1>3 DEF AddFinished
  <2>2. k \in 1 .. Len(all) /\ Len(all) \in 1 .. Len(all)
    BY <1>1, <1>2, <1>3
  <2>3. SubSeq(all, k, Len(all)) \in Seq(Request)
    <3>1. \A i \in 1 .. Len(all) : all[i] \in Request
      BY <1>1
    <3> HIDE DEF all, k
    <3> QED BY <1>1, <2>2, <3>1
  <2>4. Len(SubSeq(all, k, Len(all))) = Len(all) - k + 1
    <3> HIDE DEF all, k
    <3> QED BY <1>1, <2>2
  <2>5. Len(all) - k + 1 = FinishedLimit
    <3> DEFINE n == Len(all)
    <3>1. n \in Nat
      BY <1>1
    <3> HIDE DEF n
    <3> QED BY <1>2, <3>1
  <2> HIDE DEF all, k
  <2> QED BY <1>2, <2>1, <2>3, <2>4, <2>5
<1>4. CASE ~(Len(all) > FinishedLimit)
  <2>1. finished' = all
    BY <1>4 DEF AddFinished
  <2> QED BY <1>1, <1>2, <1>4, <2>1
<1> QED BY <1>3, <1>4

\* The ids of a finite set, in any order, are a sequence of that set.
LEMMA SetToSeqsType ==
  ASSUME NEW S, IsFiniteSet(S), NEW ids \in SetToSeqs(S)
  PROVE  ids \in Seq(S)
<1>1. Cardinality(S) \in Nat
  BY FS_CardinalityType
<1>2. ids \in [1 .. Cardinality(S) -> S]
  BY DEF SetToSeqs
<1> QED BY <1>1, <1>2

\* closeListener() of listeners that did not start closing, in closed form:
\* each is the one in use on its queue, so there is one closing to remember.
LEMMA CloseListenersEffect ==
  ASSUME TypeOK, Routing, NEW S \in SUBSET (1 .. made),
         \A l \in S : ~closed[l],
         CloseListeners(S)
  PROVE  /\ listeners' = [q \in Queue |-> IF listeners[q] \in S THEN NoListener ELSE listeners[q]]
         /\ closed' = [l \in Listener |-> closed[l] \/ l \in S]
         /\ aborted' = [l \in Listener |-> aborted[l] \/ (l \in S /\ receiver'[l] = "none")]
         /\ closeStep' = [l \in Listener |-> IF l \in S THEN "opened" ELSE closeStep[l]]
         /\ closing' = [q \in Queue |-> IF listeners[q] \in S THEN listeners[q] ELSE closing[q]]
<1> DEFINE now == {l \in S : ~closed[l]}
<1>1. now = S
  OBVIOUS
<1>2. ASSUME NEW q \in Queue
      PROVE  (IF \E l \in S : replyTo[l] = q THEN CHOOSE l \in S : replyTo[l] = q ELSE closing[q])
               = (IF listeners[q] \in S THEN listeners[q] ELSE closing[q])
  <2>1. \A l \in S : replyTo[l] = q => listeners[q] = l
    BY DEF Routing, ListenerInUse
  <2>2. listeners[q] \in S => replyTo[listeners[q]] = q
    <3>1. NoListener \notin S
      BY DEF NoListener
    <3> QED BY <3>1 DEF Routing, InUseIsOpen
  <2> QED BY <2>1, <2>2
<1>3. closing' = [q \in Queue |-> IF \E l \in S : replyTo[l] = q
                                   THEN CHOOSE l \in S : replyTo[l] = q
                                   ELSE closing[q]]
  BY <1>1 DEF CloseListeners, StillOpening
<1>4. closing' = [q \in Queue |-> IF listeners[q] \in S THEN listeners[q] ELSE closing[q]]
  BY <1>2, <1>3
<1> QED BY <1>1, <1>4 DEF CloseListeners, StillOpening

\* failAll() and closeListener() keep the types of the variables they assign.
LEMMA CloseListenersType ==
  ASSUME TypeOK, Routing, NEW S \in SUBSET (1 .. made),
         \A l \in S : ~closed[l],
         CloseListeners(S)
  PROVE  /\ listeners' \in [Queue -> Listener \union {NoListener}]
         /\ closing' \in [Queue -> Listener \union {NoListener}]
         /\ closed' \in [Listener -> BOOLEAN]
         /\ aborted' \in [Listener -> BOOLEAN]
         /\ closeStep' \in [Listener -> {"none", "opened", "receiver", "subscription", "settled"}]
<1>1. closed' \in [Listener -> BOOLEAN] /\ aborted' \in [Listener -> BOOLEAN]
  BY CloseListenersEffect
<1>2. /\ listeners' = [q \in Queue |-> IF listeners[q] \in S THEN NoListener ELSE listeners[q]]
      /\ closing' = [q \in Queue |-> IF listeners[q] \in S THEN listeners[q] ELSE closing[q]]
  BY CloseListenersEffect
<1>3. listeners' \in [Queue -> Listener \union {NoListener}]
  BY <1>2 DEF TypeOK
<1>4. closing' \in [Queue -> Listener \union {NoListener}]
  BY <1>2 DEF TypeOK
<1>5. closeStep' \in [Listener -> {"none", "opened", "receiver", "subscription", "settled"}]
  <2>1. closeStep' = [l \in Listener |-> IF l \in S THEN "opened" ELSE closeStep[l]]
    BY CloseListenersEffect
  <2> QED BY <2>1 DEF TypeOK
<1> QED BY <1>1, <1>3, <1>4, <1>5

\* failAll() keeps the types of the variables it assigns.
LEMMA FailAllType ==
  ASSUME TypeOK, NEW S \in SUBSET Listener, FailAll(S)
  PROVE  /\ waiters' \in [Listener -> SUBSET Request]
         /\ status' \in [Request -> {"new", "waiting", "stopped", "failed"}]
         /\ finished' \in Seq(Request) /\ Len(finished') <= FinishedLimit
<1> DEFINE failing == UNION {waiters[l] : l \in S}
<1>1. failing \in SUBSET Request
  BY DEF TypeOK
<1>2. PICK ids \in SetToSeqs(failing) : AddFinished(ids)
  BY DEF FailAll
<1>3. ids \in Seq(Request)
  <2>1. IsFiniteSet(failing)
    BY <1>1, RequestAssumption, FS_Subset
  <2>2. ids \in Seq(failing)
    BY <2>1, <1>2, SetToSeqsType
  <2> QED BY <1>1, <2>2
<1>4. finished' \in Seq(Request) /\ Len(finished') <= FinishedLimit
  BY <1>2, <1>3, AddFinishedType
<1> QED BY <1>4 DEF FailAll, TypeOK

\* The listeners in use: what close() fails and closes.
LEMMA CurrentListeners ==
  ASSUME TypeOK, Routing
  PROVE  /\ {listeners[q] : q \in Queue} \ {NoListener} \in SUBSET (1 .. made)
         /\ \A l \in {listeners[q] : q \in Queue} \ {NoListener} : ~closed[l]
  BY DEF Routing, InUseIsOpen

-----------------------------------------------------------------------------
(* Type correctness and routing *)

\* The initial state is well typed.
LEMMA InitTyped == Init => TypeOK
  BY RequestAssumption, BoundsAssumption DEF Init, TypeOK, Listener, NoListener, Held

\* Nothing is routed in the initial state.
LEMMA InitRouting == Init => Routing
  BY BoundsAssumption DEF Init, Routing, InUseIsOpen, ListenerInUse, NotMadeYet, WaitersWait,
     WaitingIsListenedTo, Listener, NoListener

\* Every step of the router keeps the types.
LEMMA NextTyped == TypeOK /\ Routing /\ [Next]_vars => TypeOK'
<1> SUFFICES ASSUME TypeOK, Routing, [Next]_vars PROVE TypeOK'
  OBVIOUS
<1> USE RequestAssumption, BoundsAssumption DEF NoListener
<1>1. ASSUME NEW r \in Request, Join(r) PROVE TypeOK'
  BY <1>1 DEF TypeOK, Join, routerVars, replyVars
<1>2. ASSUME NEW r \in Request, Open(r) PROVE TypeOK'
  BY <1>2 DEF TypeOK, Open, PreviousOf, routerVars, replyVars, Listener
<1>3. ASSUME NEW r \in Request, StopWaiting(r) PROVE TypeOK'
  <2>1. PICK l \in Listener :
          /\ r \in waiters[l]
          /\ waiters' = [waiters EXCEPT ![l] = @ \ {r}]
          /\ status' = [status EXCEPT ![r] = "stopped"]
          /\ AddFinished(<<r>>)
          /\ UNCHANGED <<made, replyTo, previous, opened, receiver, replyVars>>
          /\ IF waiters'[l] = {}
             THEN CloseListeners({l})
             ELSE UNCHANGED <<listeners, closing, closed, closeStep, aborted>>
    BY <1>3 DEF StopWaiting, LastOne
  <2>2. finished' \in Seq(Request) /\ Len(finished') <= FinishedLimit
    <3>1. <<r>> \in Seq(Request)
      OBVIOUS
    <3> QED BY <2>1, <3>1, AddFinishedType
  <2>3. l \in 1 .. made /\ ~closed[l]
    BY <2>1 DEF Routing, NotMadeYet, WaitersWait, TypeOK, Listener
  <2>4. /\ listeners' \in [Queue -> Listener \union {NoListener}]
        /\ closing' \in [Queue -> Listener \union {NoListener}]
        /\ closed' \in [Listener -> BOOLEAN]
        /\ aborted' \in [Listener -> BOOLEAN]
        /\ closeStep' \in [Listener -> {"none", "opened", "receiver", "subscription", "settled"}]
    <3>1. CASE waiters'[l] = {}
      <4>1. CloseListeners({l}) /\ {l} \in SUBSET (1 .. made) /\ \A k \in {l} : ~closed[k]
        BY <2>1, <2>3, <3>1
      <4> QED BY <4>1, CloseListenersType
    <3>2. CASE waiters'[l] # {}
      BY <2>1, <3>2 DEF TypeOK
    <3> QED BY <3>1, <3>2
  <2> QED BY <2>1, <2>2, <2>4 DEF TypeOK, replyVars
<1>4. ASSUME NEW S \in SUBSET (1 .. made), \A l \in S : ~closed[l], FailAll(S),
             UNCHANGED <<made, replyTo, previous, replyVars>>,
             receiver' \in [Listener -> {"none", "open", "closing", "closed"}],
             opened' \in [Listener -> {"none", "previous", "accepting", "settled"}]
      PROVE  TypeOK'
  <2>1. S \in SUBSET Listener
    BY DEF TypeOK, Listener
  <2>2. CloseListeners(S)
    BY <1>4 DEF FailAll
  <2> QED BY <1>4, <2>1, <2>2, FailAllType, CloseListenersType DEF TypeOK, replyVars
<1>5. CASE Close
  BY <1>4, <1>5, CurrentListeners DEF Close, TypeOK
<1>6. ASSUME NEW l \in Listener, OpenStep(l) PROVE TypeOK'
  <2>1. CASE OpenSkipped(l) \/ AcceptSession(l) \/ Opened(l)
    <3> USE DEF TypeOK, routerVars, replyVars
    <3>1. CASE OpenSkipped(l)
      BY <3>1 DEF OpenSkipped
    <3>2. CASE AcceptSession(l)
      BY <3>2 DEF AcceptSession
    <3>3. CASE Opened(l)
      BY <3>3 DEF Opened
    <3> QED BY <2>1, <3>1, <3>2, <3>3
  <2>2. (OpenFails(l) /\ ~closed[l]) \/ SubscribeFails(l) => TypeOK'
    <3> SUFFICES ASSUME (OpenFails(l) /\ ~closed[l]) \/ SubscribeFails(l) PROVE TypeOK'
      OBVIOUS
    <3>1. l \in 1 .. made /\ ~closed[l]
      BY DEF OpenFails, SubscribeFails, Opening, Routing, NotMadeYet, TypeOK, Listener
    <3>2. {l} \in SUBSET (1 .. made) /\ \A k \in {l} : ~closed[k]
      BY <3>1
    <3>3. /\ FailAll({l})
          /\ UNCHANGED <<made, replyTo, previous, replyVars>>
      BY DEF OpenFails, SubscribeFails
    <3>4. /\ receiver' \in [Listener -> {"none", "open", "closing", "closed"}]
          /\ opened' \in [Listener -> {"none", "previous", "accepting", "settled"}]
      BY DEF OpenFails, SubscribeFails, TypeOK
    <3> QED BY <1>4, <3>2, <3>3, <3>4
  <2>3. CASE OpenFails(l) /\ closed[l]
    BY <2>3 DEF OpenFails, TypeOK, routerVars, replyVars
  <2> QED BY <1>6, <2>1, <2>2, <2>3 DEF OpenStep
<1>7. ASSUME NEW l \in Listener, CloseStep(l) PROVE TypeOK'
  <2> USE DEF routerVars, replyVars, TypeOK
  <2>1. CASE CloseReceiver(l)
    BY <2>1 DEF CloseReceiver
  <2>2. CASE ReceiverClosed(l)
    BY <2>2 DEF ReceiverClosed
  <2>3. CASE ReceiverCloseFails(l)
    BY <2>3 DEF ReceiverCloseFails, ForgetClosing
  <2>4. CASE SubscriptionClosed(l)
    BY <2>4 DEF SubscriptionClosed, ForgetClosing
  <2> QED BY <1>7, <2>1, <2>2, <2>3, <2>4 DEF CloseStep
<1>8. ASSUME NEW l \in Listener, ReceiveError(l) PROVE TypeOK'
  <2>1. {l} \in SUBSET (1 .. made) /\ \A k \in {l} : ~closed[k]
    BY <1>8 DEF ReceiveError, Routing, NotMadeYet, TypeOK, Listener
  <2> QED BY <1>4, <1>8, <2>1 DEF ReceiveError, TypeOK
<1>9. ASSUME NEW m \in Reply, SendReply(m) \/ SettleStep(m) \/ OtherClient(m) PROVE TypeOK'
  <2> USE DEF routerVars, listenerVars
  <2>1. ASSUME Redeliver(m) PROVE TypeOK'
    BY <2>1 DEF Redeliver, TypeOK
  <2>2. CASE SendReply(m) \/ Completed(m) \/ DeadLettered(m) \/ CompletionUnconfirmed(m)
    <3> USE DEF TypeOK
    <3>1. CASE SendReply(m)
      BY <3>1 DEF SendReply
    <3>2. CASE Completed(m) \/ DeadLettered(m)
      BY <3>2 DEF Completed, DeadLettered
    <3>3. CASE CompletionUnconfirmed(m)
      BY <3>3 DEF CompletionUnconfirmed
    <3> QED BY <2>2, <3>1, <3>2, <3>3
  <2>3. CASE OtherClient(m) /\ CorrelationId[m] \notin Request
    BY <2>3 DEF OtherClient, TypeOK
  <2>4. CASE Abandoned(m) \/ (OtherClient(m) /\ CorrelationId[m] \in Request)
    BY <2>1, <2>4 DEF OtherClient, Abandoned
  <2> QED BY <1>9, <2>2, <2>3, <2>4 DEF SettleStep
<1>10. ASSUME NEW l \in Listener, NEW m \in Reply, ProcessMessage(l, m) PROVE TypeOK'
  BY <1>10 DEF ProcessMessage, TypeOK, routerVars, listenerVars, Held
<1>11. CASE UNCHANGED vars
  BY <1>11 DEF TypeOK, vars, routerVars, listenerVars, replyVars
<1> QED BY <1>1, <1>2, <1>3, <1>5, <1>6, <1>7, <1>8, <1>9, <1>10, <1>11 DEF Next

\* What failAll() of listeners in use does to the requests and the map.
LEMMA FailAllEffect ==
  ASSUME TypeOK, Routing, NEW S \in SUBSET (1 .. made), \A l \in S : ~closed[l], FailAll(S)
  PROVE  /\ waiters' = [l \in Listener |-> IF l \in S THEN {} ELSE waiters[l]]
         /\ status' = [r \in Request |-> IF \E l \in S : r \in waiters[l]
                                         THEN "failed" ELSE status[r]]
         /\ listeners' = [q \in Queue |-> IF listeners[q] \in S THEN NoListener ELSE listeners[q]]
         /\ closed' = [l \in Listener |-> closed[l] \/ l \in S]
         /\ aborted' = [l \in Listener |-> aborted[l] \/ (l \in S /\ receiver'[l] = "none")]
         /\ closeStep' = [l \in Listener |-> IF l \in S THEN "opened" ELSE closeStep[l]]
         /\ closing' = [q \in Queue |-> IF listeners[q] \in S THEN listeners[q] ELSE closing[q]]
<1>1. CloseListeners(S)
  BY DEF FailAll
<1>2. /\ waiters' = [l \in Listener |-> IF l \in S THEN {} ELSE waiters[l]]
      /\ status' = [r \in Request |-> IF \E l \in S : r \in waiters[l]
                                      THEN "failed" ELSE status[r]]
  BY DEF FailAll
<1> QED BY <1>1, <1>2, CloseListenersEffect

\* A request waits on at most one listener.
LEMMA OneListener ==
  ASSUME TypeOK, Routing, NEW j \in Listener, NEW k \in Listener,
         NEW r \in waiters[j], r \in waiters[k]
  PROVE  j = k
<1>1. j \in 1 .. made /\ k \in 1 .. made /\ ~closed[j] /\ ~closed[k]
  BY DEF Routing, NotMadeYet, WaitersWait, TypeOK, Listener
<1>2. replyTo[j] = replyTo[k]
  BY DEF Routing, WaitersWait
<1> QED BY <1>1, <1>2 DEF Routing, ListenerInUse

\* failAll() of listeners in use strands no request and leaks no listener:
\* the requests it removes are the ones it fails.
LEMMA FailAllRouting ==
  ASSUME TypeOK, Routing, NEW S \in SUBSET (1 .. made), \A l \in S : ~closed[l], FailAll(S),
         UNCHANGED <<made, replyTo>>,
         \A l \in Listener : l > made => opened'[l] = "none" /\ receiver'[l] = "none"
  PROVE  Routing'
<1>0. S \in SUBSET Listener /\ 0 \notin S
  BY BoundsAssumption DEF TypeOK, Listener
<1>e. /\ waiters' = [l \in Listener |-> IF l \in S THEN {} ELSE waiters[l]]
      /\ status' = [r \in Request |-> IF \E l \in S : r \in waiters[l]
                                      THEN "failed" ELSE status[r]]
      /\ listeners' = [q \in Queue |-> IF listeners[q] \in S THEN NoListener ELSE listeners[q]]
      /\ \A l \in Listener : closed'[l] <=> closed[l] \/ l \in S
  BY FailAllEffect
<1>1. InUseIsOpen'
  BY <1>0, <1>e DEF Routing, InUseIsOpen, TypeOK, Listener
<1>2. ListenerInUse'
  BY <1>0, <1>e, BoundsAssumption DEF Routing, ListenerInUse, TypeOK, Listener
<1>3. NotMadeYet'
  BY <1>0, <1>e DEF Routing, NotMadeYet, TypeOK, Listener
<1>4. WaitersWait'
  <2> SUFFICES ASSUME NEW l \in Listener
               PROVE  /\ closed'[l] => waiters'[l] = {}
                      /\ \A r \in waiters'[l] : status'[r] = "waiting" /\ RequestQueue[r] = replyTo'[l]
    BY DEF WaitersWait
  <2>1. closed'[l] => waiters'[l] = {}
    BY <1>e DEF Routing, WaitersWait
  <2>2. ASSUME NEW r \in waiters'[l] PROVE status'[r] = "waiting" /\ RequestQueue[r] = replyTo'[l]
    <3>1. l \notin S /\ r \in waiters[l] /\ r \in Request
      BY <1>e DEF TypeOK
    <3>2. ~ \E k \in S : r \in waiters[k]
      BY <1>0, <3>1, OneListener
    <3> QED BY <1>e, <3>1, <3>2 DEF Routing, WaitersWait
  <2> QED BY <2>1, <2>2
<1>5. WaitingIsListenedTo'
  <2> SUFFICES ASSUME NEW r \in Request, status'[r] = "waiting"
               PROVE  LET l == listeners'[RequestQueue[r]]
                      IN  l # NoListener /\ ~closed'[l] /\ r \in waiters'[l]
    BY DEF WaitingIsListenedTo
  <2> DEFINE l == listeners[RequestQueue[r]]
  <2>1. status[r] = "waiting" /\ ~ \E k \in S : r \in waiters[k]
    BY <1>e
  <2>2. l # NoListener /\ ~closed[l] /\ r \in waiters[l]
    BY <2>1 DEF Routing, WaitingIsListenedTo
  <2>3. l \notin S /\ l \in Listener
    <3>1. RequestQueue[r] \in Queue
      BY RequestAssumption
    <3>2. l \in Listener \union {NoListener}
      BY <3>1 DEF TypeOK
    <3> QED BY <2>1, <2>2, <3>2
  <2>4. listeners'[RequestQueue[r]] = l
    BY <1>e, <2>3, RequestAssumption
  <2> QED BY <1>e, <2>2, <2>3, <2>4
<1> QED BY <1>1, <1>2, <1>3, <1>4, <1>5 DEF Routing

\* Every step of the router keeps requests and listeners together.
LEMMA NextRouting == TypeOK /\ Routing /\ [Next]_vars => Routing'
<1> SUFFICES ASSUME TypeOK, Routing, [Next]_vars PROVE Routing'
  OBVIOUS
<1> USE BoundsAssumption
<1>q. \A r \in Request : RequestQueue[r] \in Queue
  BY RequestAssumption
<1>u. ASSUME UNCHANGED <<listeners, made, replyTo, waiters, closed, opened, receiver, status>>
      PROVE  Routing'
  BY <1>u DEF Routing, InUseIsOpen, ListenerInUse, NotMadeYet, WaitersWait, WaitingIsListenedTo
<1>1. ASSUME NEW r \in Request, Join(r) PROVE Routing'
  <2> DEFINE l == listeners[RequestQueue[r]]
  <2>1. l \in 1 .. made /\ replyTo[l] = RequestQueue[r] /\ ~closed[l] /\ l \in Listener
    BY <1>1, <1>q DEF Join, Routing, InUseIsOpen, TypeOK, Listener
  <2>2. /\ status[r] = "new"
        /\ waiters' = [waiters EXCEPT ![l] = @ \union {r}]
        /\ status' = [status EXCEPT ![r] = "waiting"]
        /\ UNCHANGED <<listeners, made, replyTo, closed, opened, receiver>>
    BY <1>1 DEF Join, routerVars
  <2> HIDE DEF l
  <2>3. InUseIsOpen' /\ NotMadeYet'
    BY <2>1, <2>2 DEF Routing, InUseIsOpen, NotMadeYet, TypeOK
  <2>4. ListenerInUse'
    BY <2>1, <2>2 DEF Routing, ListenerInUse, TypeOK, Listener
  <2>5. WaitersWait'
    BY <2>1, <2>2 DEF Routing, WaitersWait, TypeOK
  <2>6. WaitingIsListenedTo'
    <3>1. listeners[RequestQueue[r]] = l /\ l # NoListener
      BY <2>1 DEF l, NoListener
    <3> QED BY <1>q, <2>1, <2>2, <3>1 DEF Routing, WaitingIsListenedTo, TypeOK
  <2> QED BY <2>3, <2>4, <2>5, <2>6 DEF Routing
<1>2. ASSUME NEW r \in Request, Open(r) PROVE Routing'
  <2> DEFINE q == RequestQueue[r]
             l == made + 1
  <2>1. q \in Queue /\ l \in Listener /\ l \in 1 .. made' /\ l # NoListener /\ l > made
    BY <1>2, <1>q DEF Open, PreviousOf, TypeOK, Listener, NoListener
  <2>2. /\ status[r] = "new"
        /\ listeners[q] = NoListener
        /\ made' = l
        /\ listeners' = [listeners EXCEPT ![q] = l]
        /\ replyTo' = [replyTo EXCEPT ![l] = q]
        /\ waiters' = [waiters EXCEPT ![l] = {r}]
        /\ opened' = [opened EXCEPT ![l] = "previous"]
        /\ status' = [status EXCEPT ![r] = "waiting"]
        /\ UNCHANGED <<closed, receiver>>
    BY <1>2 DEF Open, PreviousOf
  <2>3. ~closed[l] /\ \A k \in 1 .. made : k # l
    BY <2>1 DEF Routing, NotMadeYet, TypeOK
  <2>4. made \in Nat /\ made' = made + 1
    BY <2>2 DEF TypeOK
  <2>5. InUseIsOpen'
    BY <2>1, <2>2, <2>3, <2>4 DEF Routing, InUseIsOpen, TypeOK, Listener
  <2>6. ListenerInUse'
    <3>1. \A k \in 1 .. made' : k = l \/ k \in 1 .. made
      BY <2>4
    <3>2. \A k \in 1 .. made : k \in Listener
      BY DEF TypeOK, Listener
    <3>3. ASSUME NEW k \in 1 .. made, ~closed[k]
          PROVE  listeners'[replyTo'[k]] = k /\ waiters'[k] # {}
      <4>1. listeners[replyTo[k]] = k /\ waiters[k] # {} /\ k # NoListener
        BY <3>3 DEF Routing, ListenerInUse, NoListener
      <4>2. replyTo[k] # q
        BY <2>2, <4>1
      <4>3. replyTo'[k] = replyTo[k] /\ waiters'[k] = waiters[k]
        BY <2>2, <2>3, <3>2 DEF TypeOK
      <4>4. replyTo[k] \in Queue
        BY <3>2 DEF TypeOK
      <4> QED BY <2>2, <4>1, <4>2, <4>3, <4>4 DEF TypeOK
    <3>4. listeners'[replyTo'[l]] = l /\ waiters'[l] # {}
      BY <2>1, <2>2 DEF TypeOK
    <3> QED BY <2>2, <3>1, <3>3, <3>4 DEF ListenerInUse
  <2>7. NotMadeYet'
    BY <2>1, <2>2, <2>4 DEF Routing, NotMadeYet, TypeOK, Listener
  <2>8. WaitersWait'
    BY <2>1, <2>2, <2>3 DEF Routing, WaitersWait, NotMadeYet, TypeOK
  <2>9. WaitingIsListenedTo'
    <3>1. ASSUME NEW x \in Request, status'[x] = "waiting", x # r
          PROVE  listeners'[RequestQueue[x]] # NoListener
                 /\ ~closed'[listeners'[RequestQueue[x]]]
                 /\ x \in waiters'[listeners'[RequestQueue[x]]]
      <4> DEFINE k == listeners[RequestQueue[x]]
      <4>1. status[x] = "waiting"
        BY <2>2, <3>1 DEF TypeOK
      <4>2. k # NoListener /\ ~closed[k] /\ x \in waiters[k] /\ k \in 1 .. made
        BY <4>1, <1>q DEF Routing, WaitingIsListenedTo, InUseIsOpen
      <4>3. RequestQueue[x] # q
        BY <2>2, <4>2
      <4>4. listeners'[RequestQueue[x]] = k
        BY <1>q, <2>2, <4>3 DEF TypeOK
      <4>5. waiters'[k] = waiters[k]
        BY <2>2, <2>3, <4>2 DEF TypeOK, Listener
      <4> QED BY <2>2, <4>2, <4>4, <4>5
    <3>2. listeners'[RequestQueue[r]] = l /\ r \in waiters'[l] /\ ~closed'[l]
      BY <2>1, <2>2, <2>3 DEF TypeOK
    <3> QED BY <2>1, <3>1, <3>2 DEF WaitingIsListenedTo
  <2> QED BY <2>5, <2>6, <2>7, <2>8, <2>9 DEF Routing
<1>3. ASSUME NEW r \in Request, StopWaiting(r) PROVE Routing'
  <2>1. PICK l \in Listener :
          /\ r \in waiters[l]
          /\ waiters' = [waiters EXCEPT ![l] = @ \ {r}]
          /\ status' = [status EXCEPT ![r] = "stopped"]
          /\ UNCHANGED <<made, replyTo, opened, receiver>>
          /\ IF waiters'[l] = {}
             THEN CloseListeners({l})
             ELSE UNCHANGED <<listeners, closing, closed, closeStep, aborted>>
    BY <1>3 DEF StopWaiting, LastOne
  <2>2. l \in 1 .. made /\ ~closed[l] /\ l # NoListener
    BY <2>1 DEF Routing, NotMadeYet, WaitersWait, TypeOK, Listener, NoListener
  <2>3. \A k \in Listener : r \in waiters[k] => k = l
    BY <2>1, OneListener
  <2>4. CASE waiters'[l] # {}
    <3>0. UNCHANGED <<listeners, closed>>
      BY <2>1, <2>4
    <3>1. InUseIsOpen' /\ NotMadeYet'
      BY <2>1, <3>0 DEF Routing, InUseIsOpen, NotMadeYet, TypeOK
    <3>2. ListenerInUse'
      BY <2>1, <2>4, <3>0 DEF Routing, ListenerInUse, TypeOK, Listener
    <3>3. WaitersWait'
      BY <2>1, <2>3, <3>0 DEF Routing, WaitersWait, TypeOK
    <3>4. WaitingIsListenedTo'
      BY <1>q, <2>1, <3>0 DEF Routing, WaitingIsListenedTo, TypeOK
    <3> QED BY <3>1, <3>2, <3>3, <3>4 DEF Routing
  <2>5. CASE waiters'[l] = {}
    <3>0. CloseListeners({l}) /\ {l} \in SUBSET (1 .. made) /\ \A k \in {l} : ~closed[k]
      BY <2>1, <2>2, <2>5
    <3>e. /\ listeners' = [q \in Queue |-> IF listeners[q] = l THEN NoListener ELSE listeners[q]]
          /\ \A k \in Listener : closed'[k] <=> closed[k] \/ k = l
      <4>1. /\ listeners' = [q \in Queue |-> IF listeners[q] \in {l} THEN NoListener
                                                                  ELSE listeners[q]]
            /\ closed' = [k \in Listener |-> closed[k] \/ k \in {l}]
        BY <3>0, CloseListenersEffect
      <4>2. \A q \in Queue : listeners[q] \in {l} <=> listeners[q] = l
        OBVIOUS
      <4> QED BY <4>1, <4>2
    <3>1. InUseIsOpen'
      BY <2>1, <3>e DEF Routing, InUseIsOpen, TypeOK, Listener
    <3>2. NotMadeYet'
      BY <2>1, <2>2, <3>e DEF Routing, NotMadeYet, TypeOK
    <3>3. ListenerInUse'
      <4> SUFFICES ASSUME NEW k \in 1 .. made, ~closed'[k]
                   PROVE  listeners'[replyTo[k]] = k /\ waiters'[k] # {}
        BY <2>1 DEF ListenerInUse
      <4>1. k \in Listener /\ k # l /\ ~closed[k]
        BY <3>e DEF TypeOK, Listener
      <4>2. listeners[replyTo[k]] = k /\ waiters[k] # {} /\ replyTo[k] \in Queue
        BY <4>1 DEF Routing, ListenerInUse, TypeOK
      <4> QED BY <2>1, <3>e, <4>1, <4>2 DEF TypeOK
    <3>4. WaitersWait'
      BY <2>1, <2>3, <2>5, <3>e DEF Routing, WaitersWait, TypeOK
    <3>5. WaitingIsListenedTo'
      <4> SUFFICES ASSUME NEW x \in Request, status'[x] = "waiting"
                   PROVE  LET k == listeners'[RequestQueue[x]]
                          IN  k # NoListener /\ ~closed'[k] /\ x \in waiters'[k]
        BY DEF WaitingIsListenedTo
      <4> DEFINE k == listeners[RequestQueue[x]]
      <4>1. x # r /\ status[x] = "waiting"
        BY <2>1 DEF TypeOK
      <4>2. k # NoListener /\ ~closed[k] /\ x \in waiters[k] /\ k \in 1 .. made
        BY <1>q, <4>1 DEF Routing, WaitingIsListenedTo, InUseIsOpen
      <4>3. k # l /\ k \in Listener
        BY <2>1, <2>5, <4>1, <4>2 DEF TypeOK, Listener
      <4>4. listeners'[RequestQueue[x]] = k
        BY <1>q, <3>e, <4>3
      <4>5. waiters'[k] = waiters[k]
        BY <2>1, <4>3 DEF TypeOK
      <4> QED BY <3>e, <4>2, <4>3, <4>4, <4>5
    <3> QED BY <3>1, <3>2, <3>3, <3>4, <3>5 DEF Routing
  <2> QED BY <2>4, <2>5
<1>4. CASE Close
  <2>1. \A l \in Listener : l > made => opened'[l] = "none" /\ receiver'[l] = "none"
    BY <1>4 DEF Close, Routing, NotMadeYet
  <2> QED BY <1>4, <2>1, CurrentListeners, FailAllRouting DEF Close
<1>5. ASSUME NEW l \in Listener, OpenStep(l) PROVE Routing'
  <2>0. opened[l] # "none" /\ ~(l > made)
    BY <1>5 DEF OpenStep, OpenSkipped, AcceptSession, Opened, OpenFails, SubscribeFails,
       Opening, Routing, NotMadeYet
  <2>1. /\ UNCHANGED <<made, replyTo>>
        /\ \A k \in Listener : k > made => opened'[k] = "none" /\ receiver'[k] = "none"
    BY <1>5, <2>0 DEF OpenStep, OpenSkipped, AcceptSession, Opened, OpenFails, SubscribeFails,
       Routing, NotMadeYet, TypeOK
  <2>2. ASSUME UNCHANGED <<listeners, waiters, closed, status>> PROVE Routing'
    BY <2>1, <2>2 DEF Routing, InUseIsOpen, ListenerInUse, NotMadeYet, WaitersWait,
       WaitingIsListenedTo
  <2>3. ASSUME ~closed[l], FailAll({l}) PROVE Routing'
    <3>1. {l} \in SUBSET (1 .. made) /\ \A k \in {l} : ~closed[k]
      BY <2>0, <2>3 DEF TypeOK, Listener
    <3> QED BY <2>1, <2>3, <3>1, FailAllRouting
  <2>4. CASE OpenSkipped(l) \/ AcceptSession(l) \/ Opened(l)
    BY <2>2, <2>4 DEF OpenSkipped, AcceptSession, Opened, routerVars
  <2>5. CASE OpenFails(l)
    BY <2>2, <2>3, <2>5 DEF OpenFails, routerVars
  <2>6. CASE SubscribeFails(l)
    BY <2>3, <2>6 DEF SubscribeFails
  <2> QED BY <1>5, <2>4, <2>5, <2>6 DEF OpenStep
<1>6. ASSUME NEW l \in Listener, CloseStep(l) PROVE Routing'
  <2>1. /\ UNCHANGED <<listeners, made, replyTo, waiters, closed, opened, status>>
        /\ \A k \in Listener : receiver[k] = "none" => receiver'[k] = "none"
    BY <1>6 DEF CloseStep, CloseReceiver, ReceiverClosed, ReceiverCloseFails, SubscriptionClosed,
       routerVars, TypeOK
  <2> QED BY <2>1 DEF Routing, InUseIsOpen, ListenerInUse, NotMadeYet, WaitersWait,
             WaitingIsListenedTo
<1>7. ASSUME NEW l \in Listener, ReceiveError(l) PROVE Routing'
  <2>1. {l} \in SUBSET (1 .. made) /\ \A k \in {l} : ~closed[k]
    BY <1>7 DEF ReceiveError, Routing, NotMadeYet, TypeOK, Listener
  <2>2. \A k \in Listener : k > made => opened'[k] = "none" /\ receiver'[k] = "none"
    BY <1>7 DEF ReceiveError, Routing, NotMadeYet
  <2> QED BY <1>7, <2>1, <2>2, FailAllRouting DEF ReceiveError
<1>8. ASSUME NEW m \in Reply, SendReply(m) \/ SettleStep(m) \/ OtherClient(m) PROVE Routing'
  BY <1>8, <1>u DEF SendReply, SettleStep, OtherClient, Completed, Abandoned, DeadLettered,
     CompletionUnconfirmed, Redeliver, routerVars, listenerVars
<1>9. ASSUME NEW l \in Listener, NEW m \in Reply, ProcessMessage(l, m) PROVE Routing'
  BY <1>9, <1>u DEF ProcessMessage, routerVars, listenerVars
<1>10. CASE UNCHANGED vars
  BY <1>10, <1>u DEF vars, routerVars, listenerVars
<1> QED BY <1>1, <1>2, <1>3, <1>4, <1>5, <1>6, <1>7, <1>8, <1>9, <1>10 DEF Next

-----------------------------------------------------------------------------
(* Replies *)

\* A step of the requests keeps the replies where they belong if it removes a
\* request from a listener only together with its wait.
LEMMA RepliesKept ==
  ASSUME TypeOK, Replies, UNCHANGED <<reply, holder>>,
         \A r \in Request : status'[r] = "new" => status[r] = "new",
         \A r \in Request : status'[r] = "waiting" =>
           \/ status[r] = "new"
           \/ /\ status[r] = "waiting"
              /\ \A l \in Listener : r \in waiters[l] => r \in waiters'[l]
  PROVE  Replies'
<1>1. ReplyReachesItsRequest'
  <2> SUFFICES ASSUME NEW m \in Reply, reply[m] \in Held, CorrelationId[m] \in Request,
                      status'[CorrelationId[m]] = "waiting"
               PROVE  reply[m] = "completing" /\ CorrelationId[m] \in waiters'[holder[m]]
    BY DEF ReplyReachesItsRequest
  <2>1. status[CorrelationId[m]] # "new"
    BY DEF Replies, Held
  <2>2. status[CorrelationId[m]] = "waiting" /\ holder[m] \in Listener
    BY <2>1 DEF Replies
  <2> QED BY <2>1, <2>2 DEF Replies, ReplyReachesItsRequest
<1> QED BY <1>1 DEF Replies

\* failAll() keeps the replies where they belong: a request that is removed
\* from its listener does not wait any more.
LEMMA FailAllReplies ==
  ASSUME TypeOK, Routing, Replies, NEW S \in SUBSET (1 .. made), \A l \in S : ~closed[l],
         FailAll(S), UNCHANGED <<reply, holder>>
  PROVE  Replies'
<1>1. /\ waiters' = [l \in Listener |-> IF l \in S THEN {} ELSE waiters[l]]
      /\ status' = [r \in Request |-> IF \E l \in S : r \in waiters[l]
                                      THEN "failed" ELSE status[r]]
  BY FailAllEffect
<1>2. \A r \in Request : status'[r] = "new" => status[r] = "new"
  BY <1>1
<1>3. \A r \in Request : status'[r] = "waiting" =>
        /\ status[r] = "waiting"
        /\ \A l \in Listener : r \in waiters[l] => r \in waiters'[l]
  BY <1>1
<1> QED BY <1>2, <1>3, RepliesKept

\* Every step of the router keeps the replies where they belong.
LEMMA NextReplies == TypeOK /\ Routing /\ Replies /\ [Next]_vars => Replies'
<1> SUFFICES ASSUME TypeOK, Routing, Replies, [Next]_vars PROVE Replies'
  OBVIOUS
<1> USE DEF replyVars, routerVars, listenerVars
<1>1. ASSUME NEW r \in Request, Join(r) \/ Open(r) PROVE Replies'
  <2>1. /\ UNCHANGED <<reply, holder>>
        /\ status[r] = "new"
        /\ status' = [status EXCEPT ![r] = "waiting"]
    BY <1>1 DEF Join, Open, PreviousOf
  <2>2. \A x \in Request, l \in Listener : x \in waiters[l] => x \in waiters'[l]
    <3>1. CASE Join(r)
      BY <3>1 DEF Join, TypeOK
    <3>2. CASE Open(r)
      <4>1. made + 1 > made /\ \A l \in Listener : l > made => waiters[l] = {}
        BY DEF Routing, NotMadeYet, TypeOK
      <4> QED BY <3>2, <4>1 DEF Open, PreviousOf, TypeOK
    <3> QED BY <1>1, <3>1, <3>2
  <2>3. \A x \in Request : x # r => status'[x] = status[x]
    BY <2>1 DEF TypeOK
  <2>4. status'[r] = "waiting"
    BY <2>1 DEF TypeOK
  <2> QED BY <2>1, <2>2, <2>3, <2>4, RepliesKept
<1>2. ASSUME NEW r \in Request, StopWaiting(r) PROVE Replies'
  <2>1. PICK l \in Listener :
          /\ waiters' = [waiters EXCEPT ![l] = @ \ {r}]
          /\ status' = [status EXCEPT ![r] = "stopped"]
          /\ UNCHANGED <<reply, holder>>
    BY <1>2 DEF StopWaiting, LastOne
  <2>2. \A x \in Request : x # r => status'[x] = status[x]
    BY <2>1 DEF TypeOK
  <2>3. status'[r] = "stopped"
    BY <2>1 DEF TypeOK
  <2>4. \A x \in Request : x # r =>
          \A k \in Listener : x \in waiters[k] => x \in waiters'[k]
    BY <2>1 DEF TypeOK
  <2> QED BY <2>1, <2>2, <2>3, <2>4, RepliesKept
<1>3. CASE Close
  BY <1>3, CurrentListeners, FailAllReplies DEF Close
<1>4. ASSUME NEW l \in Listener, ~closed[l], opened[l] # "none", FailAll({l}),
             UNCHANGED <<reply, holder>>
      PROVE  Replies'
  <2>1. {l} \in SUBSET (1 .. made) /\ \A k \in {l} : ~closed[k]
    BY <1>4 DEF Routing, NotMadeYet, TypeOK, Listener
  <2> QED BY <1>4, <2>1, FailAllReplies
<1>5. ASSUME UNCHANGED <<waiters, status, reply, holder>> PROVE Replies'
  BY <1>5, RepliesKept
<1>6. ASSUME NEW l \in Listener, OpenStep(l) \/ ReceiveError(l) PROVE Replies'
  <2>1. CASE OpenSkipped(l) \/ AcceptSession(l) \/ Opened(l)
    BY <2>1, <1>5 DEF OpenSkipped, AcceptSession, Opened
  <2>2. CASE OpenFails(l)
    BY <2>2, <1>4, <1>5 DEF OpenFails, Opening
  <2>3. CASE SubscribeFails(l)
    BY <2>3, <1>4 DEF SubscribeFails, Opening
  <2>4. CASE ReceiveError(l)
    BY <2>4, <1>4 DEF ReceiveError
  <2> QED BY <1>6, <2>1, <2>2, <2>3, <2>4 DEF OpenStep
<1>7. ASSUME NEW l \in Listener, CloseStep(l) PROVE Replies'
  BY <1>5, <1>7 DEF CloseStep, CloseReceiver, ReceiverClosed, ReceiverCloseFails,
     SubscriptionClosed
<1>8. ASSUME NEW m \in Reply, SendReply(m) \/ SettleStep(m) \/ OtherClient(m) PROVE Replies'
  <2>1. /\ UNCHANGED <<waiters, status>>
        /\ reply[m] = "unsent" => (CorrelationId[m] \in Request => status[CorrelationId[m]] # "new")
        /\ \A n \in Reply : n # m => reply'[n] = reply[n] /\ holder'[n] = holder[n]
        /\ reply'[m] \notin Held
    BY <1>8 DEF SendReply, SettleStep, OtherClient, Completed, Abandoned, DeadLettered,
       CompletionUnconfirmed, Redeliver, TypeOK, Held
  <2> QED BY <2>1 DEF Replies, ReplyReachesItsRequest
<1>9. ASSUME NEW l \in Listener, NEW m \in Reply, ProcessMessage(l, m) PROVE Replies'
  <2> DEFINE id == CorrelationId[m]
  <2>1. /\ UNCHANGED <<waiters, status>>
        /\ \A n \in Reply : n # m => reply'[n] = reply[n] /\ holder'[n] = holder[n]
        /\ reply[m] = "queued" /\ holder'[m] = l
        /\ ReplyQueue[m] = replyTo[l] /\ opened[l] = "settled" /\ ~closed[l]
        /\ IsOwn(l, id) => reply'[m] = "completing"
    BY <1>9 DEF ProcessMessage, TypeOK
  <2>2. ASSUME id \in Request, status[id] = "waiting"
        PROVE  reply'[m] = "completing" /\ id \in waiters[l]
    <3>1. l \in 1 .. made
      BY <2>1 DEF Routing, NotMadeYet, TypeOK, Listener
    <3>2. listeners[RequestQueue[id]] = l
      BY <2>1, <2>2, <3>1, ReplyAssumption DEF Routing, ListenerInUse
    <3>3. id \in waiters[l]
      BY <2>2, <3>2 DEF Routing, WaitingIsListenedTo
    <3> QED BY <2>1, <3>3 DEF IsOwn
  <2>3. ReplyReachesItsRequest'
    BY <2>1, <2>2 DEF Replies, ReplyReachesItsRequest
  <2> QED BY <2>1, <2>3 DEF Replies
<1>10. CASE UNCHANGED vars
  BY <1>10, <1>5 DEF vars
<1> QED BY <1>1, <1>2, <1>3, <1>6, <1>7, <1>8, <1>9, <1>10 DEF Next

-----------------------------------------------------------------------------
(* The ids that are remembered *)

\* The ids remembered are of requests that stopped waiting, each once; those
\* forgotten made room for others.
Remembers ==
  /\ \A i, j \in 1 .. Len(finished) : finished[i] = finished[j] => i = j
  /\ \A i \in 1 .. Len(finished) : finished[i] \in Done
  /\ \A r \in Done :
       Len(finished) = FinishedLimit \/ \E i \in 1 .. Len(finished) : finished[i] = r

\* RecentIds.add() remembers the ids of requests that just stopped waiting, and
\* forgets others only when there is no room.
LEMMA AddFinishedRemembers ==
  ASSUME TypeOK, Remembers, NEW ids \in Seq(Request), AddFinished(ids),
         \A i, j \in 1 .. Len(ids) : ids[i] = ids[j] => i = j,
         \A i \in 1 .. Len(ids) : ids[i] \notin Done,
         Done' = Done \union {ids[i] : i \in 1 .. Len(ids)}
  PROVE  Remembers'
<1> DEFINE n == Len(finished)
           k == Len(ids)
           all == finished \o ids
<1>1. n \in Nat /\ k \in Nat /\ n <= FinishedLimit /\ FinishedLimit \in Nat \ {0}
  BY BoundsAssumption DEF TypeOK
<1>2. /\ Len(all) = n + k /\ all \in Seq(Request)
      /\ \A i \in 1 .. n + k : all[i] = IF i <= n THEN finished[i] ELSE ids[i - n]
  BY DEF TypeOK
<1>3. \A i \in 1 .. n + k : \/ i \in 1 .. n /\ all[i] = finished[i]
                            \/ i - n \in 1 .. k /\ all[i] = ids[i - n] /\ ~(i <= n)
  BY <1>1, <1>2
<1>4. /\ \A i \in 1 .. n : i \in 1 .. n + k /\ all[i] = finished[i]
      /\ \A i \in 1 .. k : n + i \in 1 .. n + k /\ all[n + i] = ids[i]
  BY <1>1, <1>2
<1>5. finished' = IF Len(all) > FinishedLimit
                  THEN SubSeq(all, Len(all) - FinishedLimit + 1, Len(all)) ELSE all
  BY DEF AddFinished
<1>6. \A i, j \in 1 .. n + k : all[i] = all[j] => i = j
  <2> SUFFICES ASSUME NEW i \in 1 .. n + k, NEW j \in 1 .. n + k, all[i] = all[j] PROVE i = j
    OBVIOUS
  <2> HIDE DEF n, k, all
  <2>1. CASE i <= n /\ j <= n
    BY <1>3, <2>1 DEF Remembers, n
  <2>2. CASE ~(i <= n) /\ ~(j <= n)
    <3>1. i - n \in 1 .. k /\ j - n \in 1 .. k /\ ids[i - n] = ids[j - n]
      BY <1>1, <1>3, <2>2
    <3>2. i - n = j - n
      BY <3>1 DEF k
    <3> QED BY <1>1, <3>2
  <2>3. CASE i <= n /\ ~(j <= n)
    BY <1>1, <1>3, <2>3 DEF Remembers, n, k
  <2>4. CASE ~(i <= n) /\ j <= n
    BY <1>1, <1>3, <2>4 DEF Remembers, n, k
  <2> QED BY <2>1, <2>2, <2>3, <2>4
<1>7. \A i \in 1 .. n + k : all[i] \in Done'
  BY <1>3 DEF Remembers
<1>8. \A r \in Done' : n = FinishedLimit \/ \E i \in 1 .. n + k : all[i] = r
  BY <1>4 DEF Remembers
<1>9. CASE Len(all) > FinishedLimit
  <2> DEFINE d == Len(all) - FinishedLimit
  <2>1. /\ Len(finished') = FinishedLimit /\ d \in Nat
        /\ \A i \in 1 .. FinishedLimit : i + d \in 1 .. n + k /\ finished'[i] = all[i + d]
    <3>1. finished' = SubSeq(all, d + 1, Len(all))
      BY <1>5, <1>9, Zenon
    <3>2. /\ Len(all) \in Nat /\ d \in Nat /\ d + FinishedLimit = Len(all)
          /\ d + 1 \in 1 .. Len(all) /\ Len(all) \in 1 .. Len(all)
      BY <1>1, <1>2, <1>9
    <3>3. \A i \in 1 .. FinishedLimit : i + d \in 1 .. n + k
      BY <1>1, <1>2, <3>2
    <3> HIDE DEF n, k, all, d
    <3>4. Len(finished') = FinishedLimit
      BY <1>1, <1>2, <3>1, <3>2
    <3>5. \A i \in 1 .. FinishedLimit : finished'[i] = all[i + d]
      BY <1>1, <1>2, <3>1, <3>2
    <3> QED BY <3>2, <3>3, <3>4, <3>5
  <2> HIDE DEF n, k, all, d
  <2>2. ASSUME NEW i \in 1 .. FinishedLimit, NEW j \in 1 .. FinishedLimit, finished'[i] = finished'[j]
        PROVE  i = j
    <3>1. i + d \in 1 .. n + k /\ j + d \in 1 .. n + k /\ all[i + d] = all[j + d]
      BY <2>1, <2>2
    <3>2. i + d = j + d
      BY <1>6, <3>1, Zenon
    <3> QED BY <1>1, <2>1, <3>2
  <2>3. \A i \in 1 .. FinishedLimit : finished'[i] \in Done'
    BY <1>7, <2>1
  <2>4. FinishedLimit' = FinishedLimit
    OBVIOUS
  <2> QED BY <2>1, <2>2, <2>3, <2>4 DEF Remembers
<1>10. CASE ~(Len(all) > FinishedLimit)
  <2>1. finished' = all /\ Len(finished') = n + k
    BY <1>2, <1>5, <1>10
  <2>2. n = FinishedLimit => n + k = FinishedLimit
    BY <1>1, <1>2, <1>10
  <2> HIDE DEF n, k, all
  <2> QED BY <1>6, <1>7, <1>8, <2>1, <2>2 DEF Remembers
<1> QED BY <1>9, <1>10

\* The ids of a finite set, in any order, are all of them, each once.
LEMMA SetToSeqsIsBijective ==
  ASSUME NEW S, IsFiniteSet(S), NEW ids \in SetToSeqs(S)
  PROVE  /\ \A i, j \in 1 .. Len(ids) : ids[i] = ids[j] => i = j
         /\ {ids[i] : i \in 1 .. Len(ids)} = S
<1> DEFINE k == Cardinality(S)
<1>1. k \in Nat
  BY FS_CardinalityType
<1>2. ids \in [1 .. k -> S] /\ \A i, j \in 1 .. k : ids[i] = ids[j] => i = j
  BY DEF SetToSeqs
<1>3. Len(ids) = k
  BY <1>1, <1>2
<1>4. ids \in Injection(1 .. k, S)
  BY <1>2 DEF Injection, IsInjective
<1>5. Cardinality(1 .. k) = k
  BY <1>1, FS_Interval
<1>6. ids \in Surjection(1 .. k, S)
  BY <1>4, <1>5, FS_Injection
<1> HIDE DEF k
<1> QED BY <1>2, <1>3, <1>6 DEF Surjection

\* failAll() of listeners in use remembers the requests it tells.
LEMMA FailAllRemembers ==
  ASSUME TypeOK, Routing, Remembers, NEW S \in SUBSET Listener, FailAll(S)
  PROVE  Remembers'
<1> DEFINE failing == UNION {waiters[l] : l \in S}
<1>1. failing \in SUBSET Request /\ IsFiniteSet(failing)
  <2>1. failing \in SUBSET Request
    BY DEF TypeOK
  <2> QED BY <2>1, RequestAssumption, FS_Subset
<1>2. PICK ids \in SetToSeqs(failing) : AddFinished(ids)
  BY DEF FailAll
<1>3. status' = [r \in Request |-> IF r \in failing THEN "failed" ELSE status[r]]
  BY DEF FailAll
<1>4. \A r \in failing : r \notin Done
  BY DEF Routing, WaitersWait, Done
<1> HIDE DEF failing
<1>5. /\ ids \in Seq(failing)
      /\ \A i, j \in 1 .. Len(ids) : ids[i] = ids[j] => i = j
      /\ {ids[i] : i \in 1 .. Len(ids)} = failing
  BY <1>1, <1>2, SetToSeqsType, SetToSeqsIsBijective
<1>6. ids \in Seq(Request) /\ \A i \in 1 .. Len(ids) : ids[i] \in failing
  BY <1>1, <1>5
<1>7. Done' = Done \union failing
  BY <1>1, <1>3 DEF Done
<1> QED BY <1>2, <1>4, <1>5, <1>6, <1>7, AddFinishedRemembers

\* Every step of the router remembers who stopped waiting.
LEMMA NextRemembers == TypeOK /\ Routing /\ Remembers /\ [Next]_vars => Remembers'
<1> SUFFICES ASSUME TypeOK, Routing, Remembers, [Next]_vars PROVE Remembers'
  OBVIOUS
<1> USE DEF replyVars, routerVars, listenerVars
<1>1. ASSUME finished' = finished, Done' = Done PROVE Remembers'
  BY <1>1 DEF Remembers
<1>2. ASSUME UNCHANGED <<finished, status>> PROVE Remembers'
  BY <1>1, <1>2 DEF Done
<1>3. ASSUME NEW r \in Request, Join(r) \/ Open(r) PROVE Remembers'
  <2>1. finished' = finished /\ status[r] = "new" /\ status' = [status EXCEPT ![r] = "waiting"]
    BY <1>3 DEF Join, Open, PreviousOf
  <2>2. Done' = Done
    BY <2>1 DEF Done, TypeOK
  <2> QED BY <1>1, <2>1, <2>2
<1>4. ASSUME NEW r \in Request, StopWaiting(r) PROVE Remembers'
  <2>1. /\ status[r] = "waiting" /\ status' = [status EXCEPT ![r] = "stopped"]
        /\ AddFinished(<<r>>)
    BY <1>4 DEF StopWaiting, LastOne, Routing, WaitersWait
  <2>2. r \notin Done /\ Done' = Done \union {r}
    BY <2>1 DEF Done, TypeOK
  <2>3. <<r>> \in Seq(Request) /\ Len(<<r>>) = 1 /\ <<r>>[1] = r
    OBVIOUS
  <2>4. {<<r>>[i] : i \in 1 .. 1} = {r} /\ \A i, j \in 1 .. 1 : i = j
    OBVIOUS
  <2> QED BY <2>1, <2>2, <2>3, <2>4, AddFinishedRemembers
<1>5. CASE Close
  <2>1. {listeners[q] : q \in Queue} \ {NoListener} \in SUBSET Listener
    BY DEF TypeOK
  <2> QED BY <1>5, <2>1, FailAllRemembers DEF Close
<1>6. ASSUME NEW l \in Listener, FailAll({l}) PROVE Remembers'
  <2>1. {l} \in SUBSET Listener
    OBVIOUS
  <2> QED BY <1>6, <2>1, FailAllRemembers
<1>7. ASSUME NEW l \in Listener, OpenStep(l) \/ ReceiveError(l) PROVE Remembers'
  <2>1. CASE OpenSkipped(l) \/ AcceptSession(l) \/ Opened(l)
    BY <2>1, <1>2 DEF OpenSkipped, AcceptSession, Opened
  <2>2. CASE OpenFails(l)
    BY <2>2, <1>2, <1>6 DEF OpenFails
  <2>3. CASE SubscribeFails(l) \/ ReceiveError(l)
    BY <2>3, <1>6 DEF SubscribeFails, ReceiveError
  <2> QED BY <1>7, <2>1, <2>2, <2>3 DEF OpenStep
<1>8. ASSUME NEW l \in Listener, CloseStep(l) PROVE Remembers'
  BY <1>2, <1>8 DEF CloseStep, CloseReceiver, ReceiverClosed, ReceiverCloseFails,
     SubscriptionClosed
<1>9. ASSUME NEW m \in Reply, SendReply(m) \/ SettleStep(m) \/ OtherClient(m) PROVE Remembers'
  BY <1>2, <1>9 DEF SendReply, SettleStep, OtherClient, Completed, Abandoned, DeadLettered,
     CompletionUnconfirmed, Redeliver
<1>10. ASSUME NEW l \in Listener, NEW m \in Reply, ProcessMessage(l, m) PROVE Remembers'
  BY <1>2, <1>10 DEF ProcessMessage
<1>11. CASE UNCHANGED vars
  BY <1>2, <1>11 DEF vars
<1> QED BY <1>3, <1>4, <1>5, <1>7, <1>8, <1>9, <1>10, <1>11 DEF Next

\* A request that stopped waiting never waits again.
LEMMA DoneGrows == TypeOK /\ Routing /\ [Next]_vars => Done \subseteq Done'
<1> SUFFICES ASSUME TypeOK, Routing, [Next]_vars PROVE Done \subseteq Done'
  OBVIOUS
<1> USE DEF Done, replyVars, routerVars, listenerVars
<1>1. ASSUME NEW r \in Request, Join(r) \/ Open(r) PROVE Done \subseteq Done'
  <2>1. status[r] = "new" /\ status' = [status EXCEPT ![r] = "waiting"]
    BY <1>1 DEF Join, Open, PreviousOf
  <2> QED BY <2>1 DEF TypeOK
<1>2. ASSUME NEW r \in Request, StopWaiting(r) PROVE Done \subseteq Done'
  BY <1>2 DEF StopWaiting, TypeOK
<1>3. ASSUME NEW S, FailAll(S) PROVE Done \subseteq Done'
  BY <1>3 DEF FailAll, TypeOK
<1>4. CASE Close
  BY <1>3, <1>4 DEF Close
<1>5. ASSUME NEW l \in Listener, OpenStep(l) \/ ReceiveError(l) PROVE Done \subseteq Done'
  <2>1. CASE OpenSkipped(l) \/ AcceptSession(l) \/ Opened(l)
    BY <2>1 DEF OpenSkipped, AcceptSession, Opened
  <2>2. CASE OpenFails(l)
    BY <2>2, <1>3 DEF OpenFails
  <2>3. CASE SubscribeFails(l) \/ ReceiveError(l)
    BY <2>3, <1>3 DEF SubscribeFails, ReceiveError
  <2> QED BY <1>5, <2>1, <2>2, <2>3 DEF OpenStep
<1>6. ASSUME NEW l \in Listener, CloseStep(l) PROVE Done \subseteq Done'
  BY <1>6 DEF CloseStep, CloseReceiver, ReceiverClosed, ReceiverCloseFails, SubscriptionClosed
<1>7. ASSUME NEW m \in Reply, SendReply(m) \/ SettleStep(m) \/ OtherClient(m)
      PROVE  Done \subseteq Done'
  BY <1>7 DEF SendReply, SettleStep, OtherClient, Completed, Abandoned, DeadLettered,
     CompletionUnconfirmed, Redeliver
<1>8. ASSUME NEW l \in Listener, NEW m \in Reply, ProcessMessage(l, m) PROVE Done \subseteq Done'
  BY <1>8 DEF ProcessMessage
<1>9. CASE UNCHANGED vars
  BY <1>9 DEF vars
<1> QED BY <1>1, <1>2, <1>4, <1>5, <1>6, <1>7, <1>8, <1>9 DEF Next

\* When the id of a request that stopped waiting is forgotten, as many others
\* are remembered as there is room for.
LEMMA ForgottenMeansFull ==
  ASSUME TypeOK, Remembers, NEW r \in Done, r \notin ToSet(finished)
  PROVE  Cardinality(Done) > FinishedLimit
<1>1. FinishedLimit \in Nat \ {0}
  BY BoundsAssumption
<1>2. Len(finished) = FinishedLimit /\ DOMAIN finished = 1 .. FinishedLimit
  BY DEF Remembers, ToSet, TypeOK
<1>3. finished \in [1 .. FinishedLimit -> Done \ {r}]
  <2>1. \A i \in 1 .. FinishedLimit : finished[i] \in Done \ {r}
    BY <1>2 DEF Remembers, ToSet
  <2>2. finished = [i \in 1 .. FinishedLimit |-> finished[i]]
    BY <1>2 DEF TypeOK
  <2> QED BY <2>1, <2>2
<1>4. finished \in Injection(1 .. FinishedLimit, Done \ {r})
  BY <1>2, <1>3 DEF Remembers, Injection, IsInjective
<1>5. IsFiniteSet(Done) /\ Cardinality(Done) \in Nat
  <2>1. Done \in SUBSET Request
    BY DEF Done
  <2> QED BY <2>1, RequestAssumption, FS_Subset, FS_CardinalityType
<1>6. IsFiniteSet(Done \ {r}) /\ Cardinality(Done \ {r}) = Cardinality(Done) - 1
  BY <1>5, FS_RemoveElement
<1>7. Cardinality(1 .. FinishedLimit) = FinishedLimit
  BY <1>1, FS_Interval
<1>8. FinishedLimit <= Cardinality(Done) - 1
  BY <1>4, <1>6, <1>7, FS_Injection
<1> QED BY <1>1, <1>5, <1>8

\* Every step of the router keeps LateReplyIsOwn: processMessage bounces no
\* reply to a request that waits, and those that stopped waiting are remembered.
LEMMA NextLate ==
  TypeOK /\ Routing /\ Replies /\ Remembers /\ LateReplyIsOwn /\ [Next]_vars => LateReplyIsOwn'
<1> SUFFICES ASSUME TypeOK, Routing, Replies, Remembers, LateReplyIsOwn, [Next]_vars,
                    NEW m \in Reply, reply'[m] \in {"abandoning", "deadLettering"},
                    CorrelationId[m] \in Request
             PROVE  Cardinality(Done') > FinishedLimit
  BY DEF LateReplyIsOwn
<1> DEFINE id == CorrelationId[m]
<1>1. ASSUME Cardinality(Done) > FinishedLimit PROVE Cardinality(Done') > FinishedLimit
  <2>1. Done' \in SUBSET Request /\ Done \in SUBSET Done'
    BY DoneGrows DEF Done
  <2>2. IsFiniteSet(Done') /\ IsFiniteSet(Done)
    BY <2>1, RequestAssumption, FS_Subset
  <2>3. Cardinality(Done) <= Cardinality(Done')
    BY <2>1, <2>2, FS_Subset
  <2>4. Cardinality(Done) \in Nat /\ Cardinality(Done') \in Nat /\ FinishedLimit \in Nat
    BY <2>2, FS_CardinalityType, BoundsAssumption
  <2> QED BY <1>1, <2>3, <2>4
<1>2. CASE reply[m] \in {"abandoning", "deadLettering"}
  BY <1>1, <1>2 DEF LateReplyIsOwn
<1>3. CASE \E l \in Listener : ProcessMessage(l, m)
  <2>1. PICK l \in Listener : ProcessMessage(l, m)
    BY <1>3
  <2>2. /\ reply[m] = "queued" /\ ~IsOwn(l, id) /\ opened[l] = "settled" /\ ~closed[l]
        /\ ReplyQueue[m] = replyTo[l]
    BY <2>1 DEF ProcessMessage, TypeOK
  <2>3. status[id] # "new"
    BY <2>2 DEF Replies
  <2>4. status[id] # "waiting"
    <3>1. l \in 1 .. made
      BY <2>2 DEF Routing, NotMadeYet, TypeOK, Listener
    <3>2. listeners[RequestQueue[id]] = l
      BY <2>2, <3>1, ReplyAssumption DEF Routing, ListenerInUse
    <3> QED BY <2>2, <3>2 DEF Routing, WaitingIsListenedTo, IsOwn
  <2>5. id \in Done /\ id \notin ToSet(finished)
    BY <2>2, <2>3, <2>4 DEF Done, TypeOK, IsOwn
  <2> QED BY <1>1, <2>5, ForgottenMeansFull
<1>4. ASSUME UNCHANGED reply PROVE Cardinality(Done') > FinishedLimit
  BY <1>2, <1>4
<1>5. ASSUME NEW r \in Request, Join(r) \/ Open(r) \/ StopWaiting(r) PROVE UNCHANGED reply
  BY <1>5 DEF Join, Open, StopWaiting, replyVars
<1>6. CASE Close
  BY <1>4, <1>6 DEF Close, replyVars
<1>7. ASSUME NEW l \in Listener, OpenStep(l) \/ CloseStep(l) \/ ReceiveError(l)
      PROVE  UNCHANGED reply
  BY <1>7 DEF OpenStep, OpenSkipped, AcceptSession, Opened, OpenFails, SubscribeFails, CloseStep,
     CloseReceiver, ReceiverClosed, ReceiverCloseFails, SubscriptionClosed, ReceiveError, replyVars
<1>8. ASSUME NEW n \in Reply, SendReply(n) \/ SettleStep(n) \/ OtherClient(n)
      PROVE  reply'[m] \in {"abandoning", "deadLettering"} => reply'[m] = reply[m]
  BY <1>8 DEF SendReply, SettleStep, OtherClient, Completed, Abandoned, DeadLettered,
     CompletionUnconfirmed, Redeliver, TypeOK
<1>9. ASSUME NEW l \in Listener, NEW n \in Reply, ProcessMessage(l, n), n # m
      PROVE  reply'[m] = reply[m]
  BY <1>9 DEF ProcessMessage, TypeOK
<1>10. CASE UNCHANGED vars
  BY <1>4, <1>10 DEF vars, replyVars
<1> QED BY <1>2, <1>3, <1>4, <1>5, <1>6, <1>7, <1>8, <1>9, <1>10 DEF Next

-----------------------------------------------------------------------------
(* The phases of a listener, and the chain of its sessions *)

\* The listeners of S start closing, in the variables that Phases and
\* SessionChain are about.
Starts(S) ==
  /\ \A k \in Listener : closed'[k] <=> closed[k] \/ k \in S
  /\ \A k \in Listener : closeStep'[k] = IF k \in S THEN "opened" ELSE closeStep[k]
  /\ \A q \in Queue : closing'[q] = IF listeners[q] \in S THEN listeners[q] ELSE closing[q]

\* The steps that neither make a listener nor belong to a closing.
OtherNext ==
  \/ \E r \in Request : Join(r) \/ StopWaiting(r)
  \/ Close
  \/ \E l \in Listener : OpenStep(l) \/ ReceiveError(l)
  \/ \E m \in Reply : SendReply(m) \/ SettleStep(m) \/ OtherClient(m)
  \/ \E l \in Listener, m \in Reply : ProcessMessage(l, m)

\* Whatever an operation of the requests, an opening or an error closes is a
\* set of listeners in use (none of them, for most).
LEMMA NextStarts ==
  ASSUME TypeOK, Routing, OtherNext
  PROVE  \E S \in SUBSET (1 .. made) : (\A k \in S : ~closed[k]) /\ Starts(S)
<1> DEFINE Goal == \E S \in SUBSET (1 .. made) : (\A k \in S : ~closed[k]) /\ Starts(S)
<1>1. ASSUME NEW S \in SUBSET (1 .. made), \A k \in S : ~closed[k], CloseListeners(S)
      PROVE  Goal
  <2>1. /\ closed' = [l \in Listener |-> closed[l] \/ l \in S]
        /\ closeStep' = [l \in Listener |-> IF l \in S THEN "opened" ELSE closeStep[l]]
        /\ closing' = [q \in Queue |-> IF listeners[q] \in S THEN listeners[q] ELSE closing[q]]
    BY <1>1, CloseListenersEffect
  <2>2. Starts(S)
    BY <2>1 DEF Starts
  <2> QED BY <1>1, <2>2
<1>2. ASSUME UNCHANGED <<closed, closeStep, closing>> PROVE Goal
  <2>1. Starts({})
    BY <1>2 DEF Starts
  <2> QED BY <2>1
<1>3. ASSUME NEW l \in Listener, ~closed[l], opened[l] # "none" \/ waiters[l] # {},
             CloseListeners({l})
      PROVE  Goal
  <2>1. {l} \in SUBSET (1 .. made) /\ \A k \in {l} : ~closed[k]
    BY <1>3, BoundsAssumption DEF Routing, NotMadeYet, TypeOK, Listener
  <2> QED BY <1>1, <1>3, <2>1
<1> USE DEF routerVars, listenerVars, FailAll
<1>4. ASSUME NEW r \in Request, Join(r) \/ StopWaiting(r) PROVE Goal
  <2>1. CASE Join(r)
    BY <1>2, <2>1 DEF Join
  <2>2. CASE StopWaiting(r)
    <3>1. PICK l \in Listener :
            /\ r \in waiters[l]
            /\ IF waiters'[l] = {}
               THEN CloseListeners({l})
               ELSE UNCHANGED <<listeners, closing, closed, closeStep, aborted>>
      BY <2>2 DEF StopWaiting, LastOne
    <3>2. ~closed[l] /\ waiters[l] # {}
      BY <3>1 DEF Routing, WaitersWait
    <3> QED BY <1>2, <1>3, <3>1, <3>2
  <2> QED BY <1>4, <2>1, <2>2
<1>5. CASE Close
  BY <1>1, <1>5, CurrentListeners DEF Close
<1>6. ASSUME NEW l \in Listener, OpenStep(l) \/ ReceiveError(l) PROVE Goal
  <2>1. CASE OpenSkipped(l) \/ AcceptSession(l) \/ Opened(l)
    BY <2>1, <1>2 DEF OpenSkipped, AcceptSession, Opened
  <2>2. CASE OpenFails(l)
    BY <2>2, <1>2, <1>3 DEF OpenFails, Opening
  <2>3. CASE SubscribeFails(l)
    BY <2>3, <1>3 DEF SubscribeFails, Opening
  <2>4. CASE ReceiveError(l)
    BY <2>4, <1>3 DEF ReceiveError
  <2> QED BY <1>6, <2>1, <2>2, <2>3, <2>4 DEF OpenStep
<1>7. ASSUME NEW m \in Reply, SendReply(m) \/ SettleStep(m) \/ OtherClient(m) PROVE Goal
  BY <1>7, <1>2 DEF SendReply, SettleStep, OtherClient, Completed, Abandoned, DeadLettered,
     CompletionUnconfirmed, Redeliver
<1>8. ASSUME NEW l \in Listener, NEW m \in Reply, ProcessMessage(l, m) PROVE Goal
  BY <1>8, <1>2 DEF ProcessMessage
<1> QED BY <1>4, <1>5, <1>6, <1>7, <1>8 DEF OtherNext

\* How a step that is not part of a closing moves an opening: not at all, or
\* on from a listener that was opening, behind the previous receiver.
OpeningMoves(l) ==
  \/ opened'[l] = opened[l] /\ receiver'[l] = receiver[l]
  \/ /\ \/ opened[l] = "previous" /\ PreviousSettled(l)
        \/ opened[l] = "accepting"
     /\ opened'[l] = "accepting" => receiver'[l] = receiver[l]
     /\ receiver'[l] \in {receiver[l], "open"}
     /\ opened'[l] \in {"accepting", "settled"}

\* A step that neither makes a listener nor belongs to a closing moves an
\* opening only as OpeningMoves says.
LEMMA NextOpening ==
  ASSUME TypeOK, OtherNext, NEW l \in Listener
  PROVE  /\ UNCHANGED <<made, replyTo, previous>>
         /\ OpeningMoves(l)
<1> DEFINE Goal == UNCHANGED <<made, replyTo, previous>> /\ OpeningMoves(l)
<1> USE DEF routerVars, listenerVars
<1>1. ASSUME UNCHANGED <<made, replyTo, previous, opened, receiver>> PROVE Goal
  BY <1>1 DEF OpeningMoves
<1>2. ASSUME NEW r \in Request, Join(r) \/ StopWaiting(r) PROVE Goal
  BY <1>1, <1>2 DEF Join, StopWaiting, LastOne
<1>3. CASE Close
  BY <1>1, <1>3 DEF Close
<1>4. ASSUME NEW k \in Listener, ReceiveError(k) PROVE Goal
  BY <1>1, <1>4 DEF ReceiveError
<1>5. ASSUME NEW k \in Listener, OpenStep(k) PROVE Goal
  <2>1. UNCHANGED <<made, replyTo, previous>>
    BY <1>5 DEF OpenStep, OpenSkipped, AcceptSession, Opened, OpenFails, SubscribeFails
  <2>2. CASE k # l
    <3>1. opened'[l] = opened[l] /\ receiver'[l] = receiver[l]
      BY <1>5, <2>2 DEF OpenStep, OpenSkipped, AcceptSession, Opened, OpenFails,
         SubscribeFails, TypeOK
    <3> QED BY <2>1, <3>1 DEF OpeningMoves
  <2>3. CASE k = l
    BY <1>5, <2>1, <2>3 DEF OpenStep, OpenSkipped, AcceptSession, Opened, OpenFails,
         SubscribeFails, TypeOK, Opening, OpeningMoves
  <2> QED BY <2>2, <2>3
<1>6. ASSUME NEW m \in Reply, SendReply(m) \/ SettleStep(m) \/ OtherClient(m) PROVE Goal
  BY <1>1, <1>6 DEF SendReply, SettleStep, OtherClient, Completed, Abandoned, DeadLettered,
     CompletionUnconfirmed, Redeliver
<1>7. ASSUME NEW k \in Listener, NEW m \in Reply, ProcessMessage(k, m) PROVE Goal
  BY <1>1, <1>7 DEF ProcessMessage
<1> QED BY <1>2, <1>3, <1>4, <1>5, <1>6, <1>7 DEF OtherNext

\* Every step keeps the opening, the receiver and the closing of a listener
\* in phase.
LEMMA NextPhases == TypeOK /\ Routing /\ Phases /\ [Next]_vars => Phases'
<1> SUFFICES ASSUME TypeOK, Routing, Phases, [Next]_vars PROVE Phases'
  OBVIOUS
<1>1. ASSUME OtherNext PROVE Phases'
  <2>1. PICK S \in SUBSET (1 .. made) : (\A k \in S : ~closed[k]) /\ Starts(S)
    BY <1>1, NextStarts
  <2> SUFFICES ASSUME NEW l \in Listener
               PROVE  /\ closeStep'[l] = "none" <=> ~closed'[l]
                      /\ closeStep'[l] \in {"receiver", "subscription", "settled"} => opened'[l] = "settled"
                      /\ closeStep'[l] \in {"receiver", "subscription", "settled"} => receiver'[l] # "open"
                      /\ closeStep'[l] \in {"subscription", "settled"} => receiver'[l] # "closing"
                      /\ closeStep'[l] \in {"none", "opened"} => receiver'[l] \in {"none", "open"}
                      /\ receiver'[l] # "none" => opened'[l] = "settled"
    BY DEF Phases
  <2>2. OpeningMoves(l)
    BY <1>1, NextOpening
  <2>3. closeStep[l] \in {"none", "opened", "receiver", "subscription", "settled"}
    BY DEF TypeOK
  <2>4. /\ closed'[l] <=> closed[l] \/ l \in S
        /\ closeStep'[l] = IF l \in S THEN "opened" ELSE closeStep[l]
        /\ l \in S => ~closed[l]
    BY <2>1 DEF Starts
  <2> QED BY <2>2, <2>3, <2>4 DEF Phases, OpeningMoves
<1>2. ASSUME NEW r \in Request, Open(r) PROVE Phases'
  <2>1. made + 1 \in Listener /\ opened[made + 1] = "none" /\ receiver[made + 1] = "none"
        /\ ~closed[made + 1]
    BY <1>2, BoundsAssumption DEF Open, PreviousOf, Routing, NotMadeYet, TypeOK, Listener
  <2> QED BY <1>2, <2>1 DEF Open, PreviousOf, Phases, TypeOK
<1>3. ASSUME NEW l \in Listener, CloseStep(l) PROVE Phases'
  <2>1. CASE CloseReceiver(l)
    BY <2>1 DEF CloseReceiver, Phases, TypeOK
  <2>2. CASE ReceiverClosed(l)
    BY <2>2 DEF ReceiverClosed, Phases, TypeOK
  <2>3. CASE ReceiverCloseFails(l)
    BY <2>3 DEF ReceiverCloseFails, Phases, TypeOK
  <2>4. CASE SubscriptionClosed(l)
    BY <2>4 DEF SubscriptionClosed, Phases, TypeOK
  <2> QED BY <1>3, <2>1, <2>2, <2>3, <2>4 DEF CloseStep
<1>4. CASE UNCHANGED vars
  BY <1>4 DEF vars, listenerVars, Phases
<1> QED BY <1>1, <1>2, <1>3, <1>4 DEF Next, OtherNext

\* A listener whose previous closing is over comes after all the others of
\* its queue: that closing was the latest, and waited for those before it.
LEMMA PreviousStandsForAll ==
  ASSUME TypeOK, Phases, SessionChain,
         NEW l \in 1 .. made, PreviousSettled(l), NEW j \in 1 .. made, Before(j, l)
  PROVE  Over(j)
<1>1. CASE previous[l] = NoListener
  BY <1>1 DEF SessionChain, PreviousIsLatest
<1>2. CASE previous[l] # NoListener
  <2> DEFINE p == previous[l]
  <2>1. p \in 1 .. made /\ Before(p, l) /\ j <= p /\ p \in Listener
    BY <1>2, BoundsAssumption DEF SessionChain, PreviousIsLatest, TypeOK, Listener
  <2>2. Over(p)
    BY <1>2 DEF PreviousSettled, Over
  <2>3. opened[p] = "settled"
    BY <2>1, <2>2 DEF Phases, Over
  <2>4. CASE j = p
    BY <2>2, <2>4
  <2>5. CASE j # p
    <3>1. Before(j, p)
      BY <2>1, <2>5 DEF Before
    <3> QED BY <2>1, <2>3, <3>1 DEF SessionChain, OpensAfterEarlier
  <2> QED BY <2>4, <2>5
<1> QED BY <1>1, <1>2

\* With a session, every step keeps the chain of closings: only the latest
\* listener of a queue is not over or waits for the ones before it.
LEMMA NextChain ==
  Sessions /\ TypeOK /\ Routing /\ Phases /\ SessionChain /\ [Next]_vars => SessionChain'
<1> SUFFICES ASSUME Sessions, TypeOK, Routing, Phases, SessionChain, [Next]_vars
             PROVE  SessionChain'
  OBVIOUS
<1>l. \A k \in 1 .. made : k \in Listener
  BY BoundsAssumption DEF TypeOK, Listener
<1>1. ASSUME OtherNext PROVE SessionChain'
  <2>1. PICK S \in SUBSET (1 .. made) : (\A k \in S : ~closed[k]) /\ Starts(S)
    BY <1>1, NextStarts
  <2>2. UNCHANGED <<made, replyTo, previous>>
    <3>1. 1 \in Listener
      BY BoundsAssumption DEF Listener
    <3> QED BY <1>1, <3>1, NextOpening
  <2>3. \A k \in 1 .. made : /\ closed'[k] <=> closed[k] \/ k \in S
                             /\ closeStep'[k] = IF k \in S THEN "opened" ELSE closeStep[k]
    BY <1>l, <2>1 DEF Starts
  <2>4. \A k \in S : k \in 1 .. made /\ listeners[replyTo[k]] = k
    BY <2>1 DEF Routing, ListenerInUse
  <2>5. \A k \in 1 .. made : Over(k) => closed[k] /\ Over(k)'
    BY <1>l, <2>1, <2>3 DEF Over, Phases
  <2>6. EarlierIsClosed'
    BY <2>2, <2>3 DEF SessionChain, EarlierIsClosed, Before
  <2>7. PreviousIsLatest'
    BY <2>2, <2>5 DEF SessionChain, PreviousIsLatest, Before
  <2>8. ClosingIsLatest'
    <3> SUFFICES ASSUME NEW q \in Queue, closing'[q] # NoListener
                 PROVE  /\ closing'[q] \in 1 .. made
                        /\ replyTo[closing'[q]] = q
                        /\ closed'[closing'[q]]
                        /\ \A j \in 1 .. made : replyTo[j] = q /\ closed'[j] => j <= closing'[q]
      BY <2>2 DEF ClosingIsLatest
    <3>1. CASE listeners[q] \in S
      <4> DEFINE c == listeners[q]
      <4>1. closing'[q] = c /\ c \in 1 .. made /\ replyTo[c] = q /\ ~closed[c] /\ closed'[c]
        <5>1. closing'[q] = c /\ c \in 1 .. made /\ ~closed[c]
          BY <2>1, <3>1 DEF Starts
        <5>2. c # NoListener
          BY <5>1 DEF NoListener
        <5> QED BY <2>3, <3>1, <5>1, <5>2 DEF Routing, InUseIsOpen
      <4>2. ASSUME NEW j \in 1 .. made, replyTo[j] = q, closed'[j], c < j PROVE FALSE
        <5>1. closed[c]
          BY <4>1, <4>2 DEF SessionChain, EarlierIsClosed, Before
        <5> QED BY <4>1, <5>1
      <4> HIDE DEF c
      <4> QED BY <4>1, <4>2
    <3>2. CASE listeners[q] \notin S
      <4>1. closing'[q] = closing[q]
        BY <2>1, <3>2 DEF Starts
      <4>2. \A j \in 1 .. made : replyTo[j] = q /\ closed'[j] => closed[j]
        BY <2>3, <2>4, <3>2
      <4> QED BY <2>3, <4>1, <4>2 DEF SessionChain, ClosingIsLatest
    <3> QED BY <3>1, <3>2
  <2>9. OpensAfterEarlier'
    <3> SUFFICES ASSUME NEW j \in 1 .. made, NEW l \in 1 .. made, Before(j, l),
                        opened'[l] \in {"accepting", "settled"}
                 PROVE  Over(j)
      BY <2>2, <2>5 DEF OpensAfterEarlier, Before
    <3>1. OpeningMoves(l)
      BY <1>1, <1>l, NextOpening
    <3>2. CASE opened[l] \in {"accepting", "settled"}
      BY <3>2 DEF SessionChain, OpensAfterEarlier
    <3>3. CASE PreviousSettled(l)
      BY <3>3, PreviousStandsForAll
    <3> QED BY <3>1, <3>2, <3>3 DEF OpeningMoves
  <2>10. ClosingIsRemembered'
    <3> SUFFICES ASSUME NEW l \in 1 .. made, closed'[l], closing'[replyTo[l]] = NoListener
                 PROVE  Over(l)'
      BY <2>2 DEF ClosingIsRemembered, Over
    <3>1. replyTo[l] \in Queue
      BY <1>l DEF TypeOK
    <3>2. l \notin S /\ closing[replyTo[l]] = NoListener
      <4>1. listeners[replyTo[l]] \in S => listeners[replyTo[l]] # NoListener
        BY <2>4 DEF NoListener
      <4> QED BY <2>1, <2>4, <3>1, <4>1 DEF Starts
    <3> QED BY <2>3, <2>5, <3>2 DEF SessionChain, ClosingIsRemembered, Over
  <2> QED BY <2>6, <2>7, <2>8, <2>9, <2>10 DEF SessionChain
<1>2. ASSUME NEW r \in Request, Open(r) PROVE SessionChain'
  <2>0. made \in Nat /\ made + 1 \in Listener
    BY <1>2, BoundsAssumption DEF Open, PreviousOf, TypeOK, Listener
  <2> DEFINE q == RequestQueue[r]
  <2>1. PICK l \in Listener : l = made + 1
    BY <2>0
  <2>q. q \in Queue
    BY RequestAssumption
  <2>2. /\ listeners[q] = NoListener
        /\ made' = l
        /\ UNCHANGED <<closing, closed, closeStep>>
        /\ \A k \in 1 .. made : /\ replyTo'[k] = replyTo[k]
                                /\ previous'[k] = previous[k]
                                /\ opened'[k] = opened[k]
        /\ replyTo'[l] = q /\ previous'[l] = closing[q] /\ opened'[l] = "previous"
    BY <1>2, <1>l, <2>0, <2>1 DEF Open, PreviousOf, TypeOK
  <2>3. /\ \A k \in 1 .. l : k \in 1 .. made \/ k = l
        /\ \A k \in 1 .. made : k \in 1 .. l /\ k < l
    BY <2>0, <2>1
  <2>4. \A k \in 1 .. made : replyTo[k] = q => closed[k]
    BY <2>2 DEF Routing, ListenerInUse, NoListener
  <2>5. ~closed[l]
    BY <2>0, <2>1 DEF Routing, NotMadeYet
  <2> DEFINE B(j, k) == j < k /\ replyTo'[j] = replyTo'[k]
  <2> HIDE DEF q
  <2>6. \A j, k \in 1 .. made : B(j, k) <=> Before(j, k)
    BY <2>2 DEF Before
  <2>7. \A j \in 1 .. made : B(j, l) <=> replyTo[j] = q
    BY <2>2, <2>3
  <2>8. \A k \in 1 .. l : ~B(l, k)
    BY <2>0, <2>1
  <2> HIDE DEF B
  <2>10. EarlierIsClosed'
    <3>1. \A j, k \in 1 .. l : B(j, k) => closed[j]
      BY <2>3, <2>4, <2>6, <2>7, <2>8 DEF SessionChain, EarlierIsClosed
    <3> QED BY <2>2, <3>1 DEF EarlierIsClosed, Before, B
  <2>11. PreviousIsLatest'
    <3>1. ASSUME NEW k \in 1 .. made
          PROVE  /\ previous[k] = NoListener =>
                      \A j \in 1 .. l : B(j, k) => Over(j)
                 /\ previous[k] # NoListener =>
                      /\ previous[k] \in 1 .. l
                      /\ B(previous[k], k)
                      /\ \A j \in 1 .. l : B(j, k) => j <= previous[k]
      <4>1. \A j \in 1 .. l : B(j, k) => j \in 1 .. made /\ Before(j, k)
        BY <2>3, <2>6, <2>8
      <4> QED BY <2>3, <2>6, <4>1 DEF SessionChain, PreviousIsLatest
    <3>2. ASSUME closing[q] = NoListener, NEW j \in 1 .. l, B(j, l) PROVE Over(j)
      <4>1. j \in 1 .. made /\ replyTo[j] = q
        BY <2>3, <2>7, <2>8, <3>2
      <4> QED BY <2>4, <3>2, <4>1 DEF SessionChain, ClosingIsRemembered, Over
    <3>3. ASSUME closing[q] # NoListener
          PROVE  /\ closing[q] \in 1 .. l
                 /\ B(closing[q], l)
                 /\ \A j \in 1 .. l : B(j, l) => j <= closing[q]
      <4>1. /\ closing[q] \in 1 .. made
            /\ replyTo[closing[q]] = q
            /\ \A j \in 1 .. made : replyTo[j] = q /\ closed[j] => j <= closing[q]
        BY <2>q, <3>3 DEF SessionChain, ClosingIsLatest
      <4>2. \A j \in 1 .. l : B(j, l) => j \in 1 .. made /\ replyTo[j] = q
        BY <2>3, <2>7, <2>8
      <4> QED BY <2>3, <2>4, <2>7, <4>1, <4>2
    <3>4. ASSUME NEW k \in 1 .. l
          PROVE  /\ previous'[k] = NoListener => \A j \in 1 .. l : B(j, k) => Over(j)
                 /\ previous'[k] # NoListener =>
                      /\ previous'[k] \in 1 .. l
                      /\ B(previous'[k], k)
                      /\ \A j \in 1 .. l : B(j, k) => j <= previous'[k]
      <4>1. CASE k \in 1 .. made
        BY <2>2, <3>1, <4>1
      <4>2. CASE k = l
        BY <2>2, <3>2, <3>3, <4>2
      <4> QED BY <2>3, <4>1, <4>2
    <3> QED BY <2>2, <3>4 DEF PreviousIsLatest, Before, Over, B
  <2>12. ClosingIsLatest'
    <3>1. ASSUME NEW x \in Queue, closing[x] # NoListener
          PROVE  /\ closing[x] \in 1 .. made
                 /\ replyTo[closing[x]] = x
                 /\ closed[closing[x]]
                 /\ \A j \in 1 .. made : replyTo[j] = x /\ closed[j] => j <= closing[x]
      BY <3>1 DEF SessionChain, ClosingIsLatest
    <3> QED BY <2>2, <2>3, <2>5, <3>1 DEF ClosingIsLatest
  <2>13. OpensAfterEarlier'
    <3>1. ASSUME NEW j \in 1 .. l, NEW k \in 1 .. l, B(j, k), opened'[k] \in {"accepting", "settled"}
          PROVE  Over(j)
      <4>1. k \in 1 .. made /\ j \in 1 .. made
        BY <2>2, <2>3, <2>8, <3>1
      <4> QED BY <2>2, <2>6, <3>1, <4>1 DEF SessionChain, OpensAfterEarlier
    <3> QED BY <2>2, <3>1 DEF OpensAfterEarlier, Before, Over, B
  <2>14. ClosingIsRemembered'
    BY <2>2, <2>3, <2>5 DEF SessionChain, ClosingIsRemembered
  <2> QED BY <2>10, <2>11, <2>12, <2>13, <2>14 DEF SessionChain
<1>3. ASSUME NEW l \in Listener, CloseStep(l) PROVE SessionChain'
  <2>1. /\ UNCHANGED <<made, replyTo, closed, previous, opened>>
        /\ \A k \in Listener : k # l => closeStep'[k] = closeStep[k]
        /\ ~Over(l)
        /\ closed[l] /\ l \in 1 .. made
    BY <1>3, BoundsAssumption DEF CloseStep, CloseReceiver, ReceiverClosed, ReceiverCloseFails,
       SubscriptionClosed, Over, TypeOK, Phases, Routing, NotMadeYet, Listener
  <2>2. \/ closing' = closing
        \/ /\ closing' = [closing EXCEPT ![replyTo[l]] = IF @ = l THEN NoListener ELSE @]
           /\ closeStep'[l] = "settled" /\ opened[l] = "settled"
    BY <1>3 DEF CloseStep, CloseReceiver, ReceiverClosed, ReceiverCloseFails,
       SubscriptionClosed, ForgetClosing, Phases, TypeOK, routerVars
  <2>3. \A k \in 1 .. made : Over(k) => Over(k)'
    BY <1>l, <2>1 DEF Over
  <2>4. EarlierIsClosed' /\ PreviousIsLatest' /\ OpensAfterEarlier'
    BY <2>1, <2>3 DEF SessionChain, EarlierIsClosed, PreviousIsLatest, OpensAfterEarlier, Before
  <2>5. \A x \in Queue : closing'[x] # NoListener => closing'[x] = closing[x]
    BY <2>2 DEF TypeOK
  <2>6. ClosingIsLatest'
    BY <2>1, <2>5 DEF SessionChain, ClosingIsLatest
  <2>7. ClosingIsRemembered'
    <3> SUFFICES ASSUME NEW k \in 1 .. made, closed[k], closing'[replyTo[k]] = NoListener
                 PROVE  Over(k)'
      BY <2>1 DEF ClosingIsRemembered, Over
    <3>0. replyTo[k] \in Queue
      BY <1>l DEF TypeOK
    <3>1. CASE closing[replyTo[k]] = NoListener
      BY <2>3, <3>1 DEF SessionChain, ClosingIsRemembered, Over
    <3>2. CASE closing[replyTo[k]] # NoListener
      <4>1. /\ closing[replyTo[k]] = l /\ replyTo[k] = replyTo[l]
            /\ closeStep'[l] = "settled" /\ opened[l] = "settled"
        BY <2>2, <3>0, <3>2 DEF TypeOK
      <4>2. k <= l
        BY <3>0, <3>2, <4>1 DEF SessionChain, ClosingIsLatest
      <4>3. CASE k = l
        BY <4>1, <4>3 DEF Over
      <4>4. CASE k # l
        <5>1. Before(k, l)
          BY <2>1, <4>1, <4>2, <4>4 DEF Before
        <5>2. Over(k)
          BY <2>1, <4>1, <5>1 DEF SessionChain, OpensAfterEarlier
        <5> QED BY <2>3, <5>2
      <4> QED BY <4>3, <4>4
    <3> QED BY <3>1, <3>2
  <2> QED BY <2>4, <2>6, <2>7 DEF SessionChain
<1>4. CASE UNCHANGED vars
  BY <1>4 DEF vars, routerVars, listenerVars, SessionChain, EarlierIsClosed, PreviousIsLatest,
     ClosingIsLatest, OpensAfterEarlier, ClosingIsRemembered, Before, Over
<1> QED BY <1>1, <1>2, <1>3, <1>4 DEF Next, OtherNext

-----------------------------------------------------------------------------
(* The inductive invariant *)

\* The inductive invariant holds initially.
LEMMA InitInv == Init => RouterInv
<1> SUFFICES ASSUME Init PROVE RouterInv
  OBVIOUS
<1>1. Replies
  BY DEF Init, Replies, ReplyReachesItsRequest, Held
<1>2. Phases
  BY DEF Init, Phases
<1>3. SessionChain
  BY DEF Init, SessionChain, EarlierIsClosed, PreviousIsLatest, ClosingIsLatest,
     OpensAfterEarlier, ClosingIsRemembered, NoListener
<1> QED BY <1>1, <1>2, <1>3, InitTyped, InitRouting DEF RouterInv

\* Every step preserves the inductive invariant.
LEMMA NextInv == RouterInv /\ [Next]_vars => RouterInv'
  BY NextTyped, NextRouting, NextReplies, NextPhases, NextChain DEF RouterInv

-----------------------------------------------------------------------------
(* What a client relies on *)

\* A step takes listeners out of use, or puts a new one to use.
LEMMA NextInUse ==
  ASSUME TypeOK, [Next]_vars
  PROVE  /\ made' \in {made, made + 1}
         /\ \A q \in Queue : \/ listeners'[q] \in {listeners[q], NoListener}
                             \/ made' = made + 1 /\ listeners'[q] = made'
<1> DEFINE Left == \A q \in Queue : listeners'[q] \in {listeners[q], NoListener}
           Goal == /\ made' \in {made, made + 1}
                   /\ \A q \in Queue : \/ listeners'[q] \in {listeners[q], NoListener}
                                       \/ made' = made + 1 /\ listeners'[q] = made'
<1>1. ASSUME made' = made, Left PROVE Goal
  BY <1>1
<1>2. ASSUME NEW S, CloseListeners(S) PROVE Left
  BY <1>2 DEF CloseListeners, TypeOK
<1>3. ASSUME NEW S, FailAll(S) PROVE Left
  BY <1>2, <1>3 DEF FailAll
<1>4. ASSUME listeners' = listeners PROVE Left
  BY <1>4
<1> HIDE DEF Left
<1> USE DEF routerVars, listenerVars
<1>5. ASSUME NEW r \in Request, Join(r) \/ StopWaiting(r) PROVE Goal
  BY <1>1, <1>2, <1>4, <1>5 DEF Join, StopWaiting
<1>6. ASSUME NEW r \in Request, Open(r) PROVE Goal
  BY <1>6 DEF Open, TypeOK
<1>7. ASSUME NEW l \in Listener, OpenStep(l) \/ ReceiveError(l) PROVE Goal
  <2>1. CASE OpenSkipped(l) \/ AcceptSession(l) \/ Opened(l)
    BY <1>1, <1>4, <2>1 DEF OpenSkipped, AcceptSession, Opened
  <2>2. CASE OpenFails(l) \/ SubscribeFails(l)
    BY <1>1, <1>3, <1>4, <2>2 DEF OpenFails, SubscribeFails
  <2>3. CASE ReceiveError(l)
    BY <1>1, <1>3, <2>3 DEF ReceiveError
  <2> QED BY <1>7, <2>1, <2>2, <2>3 DEF OpenStep
<1>8. ASSUME NEW l \in Listener, CloseStep(l) PROVE Goal
  BY <1>1, <1>4, <1>8 DEF CloseStep, CloseReceiver, ReceiverClosed, ReceiverCloseFails,
     SubscriptionClosed
<1>9. ASSUME NEW m \in Reply, SendReply(m) \/ SettleStep(m) \/ OtherClient(m) PROVE Goal
  BY <1>1, <1>4, <1>9 DEF SendReply, SettleStep, OtherClient, Completed, Abandoned,
     DeadLettered, CompletionUnconfirmed, Redeliver
<1>10. ASSUME NEW l \in Listener, NEW m \in Reply, ProcessMessage(l, m) PROVE Goal
  BY <1>1, <1>4, <1>10 DEF ProcessMessage
<1>11. CASE UNCHANGED vars
  BY <1>1, <1>4, <1>11 DEF vars
<1>12. CASE Close
  BY <1>1, <1>3, <1>12 DEF Close
<1> QED BY <1>5, <1>6, <1>7, <1>8, <1>9, <1>10, <1>11, <1>12 DEF Next

\* A closing that is over stays so.
LEMMA NextSettled ==
  ASSUME RouterInv, [Next]_vars, NEW l \in Listener, closeStep[l] = "settled"
  PROVE  closeStep'[l] = "settled"
<1> USE DEF RouterInv
<1>1. CASE OtherNext
  <2>1. PICK S \in SUBSET (1 .. made) : (\A k \in S : ~closed[k]) /\ Starts(S)
    BY <1>1, NextStarts
  <2>2. l \notin S
    BY <2>1 DEF Phases
  <2> QED BY <2>1, <2>2 DEF Starts
<1>2. ASSUME NEW r \in Request, Open(r) PROVE closeStep'[l] = "settled"
  BY <1>2 DEF Open
<1>3. ASSUME NEW k \in Listener, CloseStep(k) PROVE closeStep'[l] = "settled"
  BY <1>3 DEF CloseStep, CloseReceiver, ReceiverClosed, ReceiverCloseFails,
     SubscriptionClosed, TypeOK
<1>4. CASE UNCHANGED vars
  BY <1>4 DEF vars, listenerVars
<1> QED BY <1>1, <1>2, <1>3, <1>4 DEF Next, OtherNext

-----------------------------------------------------------------------------
(* The theorems *)

\* RouterInv is an invariant of the router.
THEOREM RouterInvariant == Spec => []RouterInv
<1> QED BY InitInv, NextInv, PTL DEF Spec

\* Every variable of the router keeps its type; at most FinishedLimit finished
\* ids are remembered (RecentIds).
THEOREM TypeCorrect == Spec => []TypeOK
<1>1. RouterInv => TypeOK
  BY DEF RouterInv
<1> QED BY <1>1, RouterInvariant, PTL

\* No request is stranded: while a send() waits, the listener in use on its
\* queue did not start closing and knows the request (wait(), failAll(),
\* closeListener()).
THEOREM NoRequestStranded == Spec => []WaitingIsListenedTo
<1>1. RouterInv => WaitingIsListenedTo
  BY DEF RouterInv, Routing
<1> QED BY <1>1, RouterInvariant, PTL

\* No receiver is leaked: a listener that nobody waits on, or that another one
\* replaced, started closing (stopWaiting(), failAll()).
THEOREM NoReceiverLeaked == Spec => []ListenerInUse
<1>1. RouterInv => ListenerInUse
  BY DEF RouterInv, Routing
<1> QED BY <1>1, RouterInvariant, PTL

\* processMessage never bounces nor drops the reply of a request that waits.
THEOREM RepliesReachRequests == Spec => []ReplyReachesItsRequest
<1>1. RouterInv => ReplyReachesItsRequest
  BY DEF RouterInv, Replies
<1> QED BY <1>1, RouterInvariant, PTL

\* The router recognises a late reply to one of its requests, until it had to
\* forget the request for others (RecentIds, processMessage).
THEOREM LateRepliesAreKnown == Spec => []LateReplyIsOwn
<1>1. Init => Remembers /\ LateReplyIsOwn
  <2> SUFFICES ASSUME Init PROVE Remembers /\ LateReplyIsOwn
    OBVIOUS
  <2>1. Done = {} /\ Len(finished) = 0
    BY DEF Init, Done
  <2> QED BY <2>1 DEF Init, Remembers, LateReplyIsOwn
<1>2. RouterInv /\ Remembers /\ LateReplyIsOwn /\ [Next]_vars => Remembers' /\ LateReplyIsOwn'
  BY NextRemembers, NextLate DEF RouterInv
<1> QED BY <1>1, <1>2, RouterInvariant, PTL DEF Spec

\* With replySessions, two listeners of a queue never ask for or hold the
\* session at the same time, however long the chain of closings is (open()).
THEOREM OneSessionReceiver == Spec => []SessionExclusive
<1>1. RouterInv => SessionExclusive
  <2> SUFFICES ASSUME RouterInv, Sessions PROVE SessionExclusive
    BY DEF SessionExclusive
  <2>1. ASSUME NEW j \in 1 .. made, NEW l \in 1 .. made, Before(j, l), HasSession(j), HasSession(l)
        PROVE  FALSE
    <3>1. j \in Listener /\ l \in Listener
      BY BoundsAssumption DEF RouterInv, TypeOK, Listener
    <3>2. opened[l] \in {"accepting", "settled"}
      <4>1. receiver[l] \in {"open", "closing"} => opened[l] = "settled"
        BY <3>1 DEF RouterInv, Phases
      <4> QED BY <2>1, <4>1 DEF HasSession
    <3>3. Over(j)
      BY <2>1, <3>2 DEF RouterInv, SessionChain, OpensAfterEarlier
    <3>4. opened[j] = "settled" /\ receiver[j] \notin {"open", "closing"}
      BY <3>1, <3>3 DEF RouterInv, Phases, Over
    <3> QED BY <2>1, <3>4 DEF HasSession
  <2>2. \A k, l \in 1 .. made : k # l => k < l \/ l < k
    BY DEF RouterInv, TypeOK
  <2> QED BY <2>1, <2>2 DEF SessionExclusive, Before
<1> QED BY <1>1, RouterInvariant, PTL

\* With replySessions, the closing remembered for a queue stands for all the
\* closings in progress there (the .finally() of closeListener()).
THEOREM ClosingsRemembered == Spec => []ClosingIsRemembered
<1>1. RouterInv => ClosingIsRemembered
  BY DEF RouterInv, SessionChain, ClosingIsRemembered
<1> QED BY <1>1, RouterInvariant, PTL

\* The abort signal of a listener is never raised under an open or closing
\* receiver (closeListener()).
THEOREM NoAbortUnderLink == Spec => AbortsOnlyWithoutLink
<1> DEFINE Safe == \A l \in Listener :
                     ~aborted[l] /\ aborted'[l] => receiver'[l] \in {"none", "closed"}
<1>1. RouterInv /\ [Next]_vars => [Safe]_vars
  <2> SUFFICES ASSUME RouterInv, Next PROVE Safe
    OBVIOUS
  <2> USE DEF RouterInv, routerVars, listenerVars
  <2>1. ASSUME NEW S, CloseListeners(S) PROVE Safe
    BY <2>1 DEF CloseListeners, StillOpening
  <2>2. ASSUME UNCHANGED aborted PROVE Safe
    BY <2>2
  <2>3. ASSUME NEW r \in Request, Join(r) \/ Open(r) \/ StopWaiting(r) PROVE Safe
    BY <2>1, <2>2, <2>3 DEF Join, Open, PreviousOf, StopWaiting, LastOne
  <2>4. CASE Close
    BY <2>1, <2>4 DEF Close, FailAll
  <2>5. ASSUME NEW l \in Listener, OpenStep(l) \/ ReceiveError(l) PROVE Safe
    BY <2>1, <2>2, <2>5 DEF OpenStep, OpenSkipped, AcceptSession, Opened, OpenFails,
       SubscribeFails, ReceiveError, FailAll
  <2>6. ASSUME NEW l \in Listener, CloseStep(l) PROVE Safe
    <3>1. CASE CloseReceiver(l) \/ SubscriptionClosed(l)
      BY <2>2, <3>1 DEF CloseReceiver, SubscriptionClosed
    <3>2. CASE ReceiverClosed(l) \/ ReceiverCloseFails(l)
      <4>1. receiver'[l] \in {"none", "closed"}
        BY <3>2 DEF ReceiverClosed, ReceiverCloseFails, Phases, TypeOK
      <4>2. \A k \in Listener : k # l => aborted'[k] = aborted[k]
        BY <3>2 DEF ReceiverClosed, ReceiverCloseFails, TypeOK
      <4> QED BY <4>1, <4>2
    <3> QED BY <2>6, <3>1, <3>2 DEF CloseStep
  <2>7. ASSUME NEW m \in Reply, SendReply(m) \/ SettleStep(m) \/ OtherClient(m) PROVE Safe
    BY <2>2, <2>7 DEF SendReply, SettleStep, OtherClient, Completed, Abandoned, DeadLettered,
       CompletionUnconfirmed, Redeliver
  <2>8. ASSUME NEW l \in Listener, NEW m \in Reply, ProcessMessage(l, m) PROVE Safe
    BY <2>2, <2>8 DEF ProcessMessage
  <2> QED BY <2>3, <2>4, <2>5, <2>6, <2>7, <2>8 DEF Next
<1> QED BY <1>1, RouterInvariant, PTL DEF Spec, AbortsOnlyWithoutLink
=============================================================================
