-------------------------------- MODULE Server --------------------------------
(***************************************************************************)
(* The life of the server (lib/server/azure-service-bus.server.ts):        *)
(* listen() binds a receiver per handler pattern, each message is handled  *)
(* and settled, close() stops receiving, waits for what is in flight,      *)
(* gives it up after closeTimeoutInMs, closes the receivers, cancels the   *)
(* replies left and closes the connection.                                 *)
(*                                                                         *)
(* A response is kept to what close() can tell: whether the request still  *)
(* waits for its first reply, whether a reply is being sent, whether the   *)
(* Observable is followed.  ReplyStream has the rest.  A message that is   *)
(* delivered again is another member of Delivery.                          *)
(*                                                                         *)
(* External: the handlers, the deserializer, the SDK and the broker.  An   *)
(* SDK receiver calls processMessage until its close() is called (stopping *)
(* the subscription drains what the link was granted); every SDK promise   *)
(* settles; closing the connection ends its links.                         *)
(***************************************************************************)
EXTENDS Integers, FiniteSets, Patterns

CONSTANTS
  Pattern,        \* handler patterns registered on the server
  Declarations,   \* a set of [Pattern -> Declaration]: the applications
  Delivery,       \* deliveries of messages
  PatternOf,      \* [Delivery -> Pattern]
  Kind,           \* [Delivery -> {"event", "request", "notAllowed"}]
  PeekLock,       \* the patterns in peekLock mode; the others receiveAndDelete
  AutoComplete,   \* the patterns with autoCompleteMessages
  CloseHasLimit,  \* closeTimeoutInMs is not Infinity
  AsyncDeserializer, \* the deserializer of the options returns promises
  MayOverlap,     \* the application may call close() before listen() is done
  MaxReceivers,   \* bound: how many receivers are made
  MaxCloses       \* bound: how many times close() does its work

ASSUME ServerAssumption ==
  /\ IsFiniteSet(Pattern) /\ Pattern # {}
  /\ Declarations \subseteq [Pattern -> Declaration]
  /\ PatternOf \in [Delivery -> Pattern]
  /\ Kind \in [Delivery -> {"event", "request", "notAllowed"}]
  /\ PeekLock \subseteq Pattern /\ AutoComplete \subseteq Pattern
  /\ CloseHasLimit \in BOOLEAN /\ AsyncDeserializer \in BOOLEAN /\ MayOverlap \in BOOLEAN
  /\ MaxReceivers \in Nat /\ MaxCloses \in Nat

Receiver == 1 .. MaxReceivers
NoReceiver == 0

VARIABLES
  declared,     \* [Pattern -> its Declaration]
  \* listen()
  listenStep,   \* "idle", "awaiting" (the closing found), "failing" (its own close())
  awaited,      \* the closing that listen() waits for (0: none)
  \* the connection and the receivers
  connected,    \* sbClient is set
  receivers,    \* [Pattern -> its ActiveReceiver, or NoReceiver]
  made,         \* how many receivers were made
  patternOf,    \* [Receiver -> the pattern it was made for]
  link,         \* [Receiver -> "none", "receiving", "stopping", "stopped", "closing", "closed"]
  \* close()
  closeStep,    \* "none", "stopping", "draining", "closing", "replies", "connection"
  closes,       \* how many closings started: the number of the last
  active,       \* the receivers that this closing closes
  repliesStep,  \* settleReplies(): "none", "waiting", "cancelled", "done"
  replyAbort,   \* the replies being sent were cancelled
  generation,
  \* messages
  phase,        \* [Delivery -> where its handling is]
  from,         \* [Delivery -> the receiver that delivered it]
  settler,      \* [Delivery -> the receiver processMessage found in the map]
  context,      \* [Delivery -> the receiver its handler gets in the context]
  startedIn,    \* [Delivery -> the generation its handler started in]
  bySelf,       \* the deliveries the handler settled itself
  inFlight,     \* the deliveries close() waits for
  following,    \* the deliveries whose Observable is followed
  cut,          \* the deliveries whose Observable close() stopped
  sending,      \* the requests of which a reply is being sent
  failing       \* the requests of which a reply failed: an error reply is being sent

listenVars == <<declared, listenStep, awaited>>
linkVars == <<connected, receivers, made, patternOf, link>>
closeVars == <<closeStep, closes, active, repliesStep, replyAbort, generation>>
deliveryVars == <<from, settler, context, startedIn, bySelf>>
messageVars == <<phase, deliveryVars, inFlight, following, cut, sending, failing>>
vars == <<listenVars, linkVars, closeVars, messageVars>>

Init ==
  /\ declared \in Declarations
  /\ listenStep = "idle" /\ awaited = 0
  /\ connected = FALSE
  /\ receivers = [p \in Pattern |-> NoReceiver]
  /\ made = 0
  /\ patternOf = [r \in Receiver |-> CHOOSE p \in Pattern : TRUE]
  /\ link = [r \in Receiver |-> "none"]
  /\ closeStep = "none" /\ closes = 0 /\ active = {}
  /\ repliesStep = "none" /\ replyAbort = FALSE
  /\ generation = 0
  /\ phase = [m \in Delivery |-> "queued"]
  /\ from = [m \in Delivery |-> NoReceiver]
  /\ settler = [m \in Delivery |-> NoReceiver]
  /\ context = [m \in Delivery |-> NoReceiver]
  /\ startedIn = [m \in Delivery |-> 0]
  /\ bySelf = {} /\ inFlight = {} /\ following = {} /\ cut = {}
  /\ sending = {} /\ failing = {}

-----------------------------------------------------------------------------
(* close(), up to its first await *)

\* closeAll() starts on the receivers `bound`: their subscriptions stop.
StartClose(bound, links) ==
  /\ closes < MaxCloses
  /\ closeStep' = "stopping"
  /\ closes' = closes + 1
  /\ active' = {bound[p] : p \in Pattern} \ {NoReceiver}
  /\ link' = [r \in Receiver |-> IF r \in active' /\ links[r] = "receiving"
                                 THEN "stopping" ELSE links[r]]
  /\ UNCHANGED <<repliesStep, replyAbort, generation>>

\* A call while a closing is in progress shares it (no step), and there is
\* nothing to do for a server that does not listen.
Close ==
  /\ closeStep = "none"
  /\ connected \/ listenStep = "awaiting"
  /\ MayOverlap \/ listenStep = "idle"
  /\ StartClose(receivers, link)
  /\ UNCHANGED <<listenVars, connected, receivers, made, patternOf, messageVars>>

-----------------------------------------------------------------------------
(* listen() *)

Listen ==
  /\ listenStep = "idle"
  /\ listenStep' = "awaiting"
  /\ awaited' = IF closeStep = "none" THEN 0 ELSE closes
  /\ UNCHANGED <<declared, linkVars, closeVars, messageVars>>

\* Mutant: listen() does not wait for a closing in progress.
AwaitsNothing == TRUE

AwaitedIsOver == awaited = 0 \/ awaited < closes \/ closeStep = "none"

\* What is left for bindEvents(): the handlers of other transports are ignored.
Unbound == {p \in Pattern : receivers[p] = NoReceiver /\ Binding(declared[p]) # "ignored"}

\* Those whose options can be used.
Usable == {p \in Unbound : Binding(declared[p]) # "error"}

\* The order in which bindEvents() goes through the patterns of B.
Order(B) ==
  CHOOSE f \in [B -> 1 .. Cardinality(B)] : \A p, q \in B : f[p] = f[q] => p = q

\* bindEvents() opens a receiver for each pattern of B.
Bind(B) ==
  LET new == [p \in B |-> made + Order(B)[p]]
  IN  /\ made + Cardinality(B) <= MaxReceivers
      /\ made' = made + Cardinality(B)
      /\ receivers' = [p \in Pattern |-> IF p \in B THEN new[p] ELSE receivers[p]]
      /\ patternOf' = [r \in Receiver |-> IF \E p \in B : new[p] = r
                                          THEN CHOOSE p \in B : new[p] = r
                                          ELSE patternOf[r]]

Bound(r) == IF r \in made + 1 .. made' THEN "receiving" ELSE link[r]

\* The closing that listen() found is over: connect, bind and call back.
ListenBinds ==
  /\ listenStep = "awaiting"
  /\ AwaitedIsOver
  /\ connected' = TRUE
  /\ Unbound = Usable
  /\ Bind(Usable)
  /\ link' = [r \in Receiver |-> Bound(r)]
  /\ listenStep' = "idle"
  /\ UNCHANGED <<declared, awaited, closeVars, messageVars>>

\* There is no client (its options), or a pattern cannot be bound (its options,
\* or the SDK refuses), or the callback throws: what was opened is closed again,
\* and the callback gets the error once that is done.
ListenFails ==
  /\ listenStep = "awaiting"
  /\ AwaitedIsOver
  /\ \/ ~connected /\ UNCHANGED <<connected, receivers, made, patternOf>>
     \/ connected' = TRUE /\ \E B \in SUBSET Usable : Bind(B)
  /\ listenStep' = "failing"
  /\ IF closeStep = "none"
     THEN /\ StartClose(receivers', [r \in Receiver |-> Bound(r)])
          /\ awaited' = closes + 1
     ELSE /\ link' = [r \in Receiver |-> Bound(r)]
          /\ awaited' = closes
          /\ UNCHANGED closeVars
  /\ UNCHANGED <<declared, messageVars>>

ListenReports ==
  /\ listenStep = "failing"
  /\ AwaitedIsOver
  /\ listenStep' = "idle"
  /\ UNCHANGED <<declared, awaited, linkVars, closeVars, messageVars>>

-----------------------------------------------------------------------------
(* Messages *)

Over == {"completed", "abandoned", "deadLettered", "left"}

\* Mutant: a handler cancelled by close() is taken for one that failed.
CancelledIsFailed(m, how) ==
  LET free == settler[m] # NoReceiver /\ PatternOf[m] \in PeekLock /\ m \notin bySelf
  IN  CASE how # "ok" /\ free -> "abandoning"
        [] how = "ok" /\ free /\ PatternOf[m] \in AutoComplete -> "completing"
        [] OTHER -> "left"

\* How processMessage ends for m: what it does with the message once its
\* handler succeeded, failed or was cancelled by close().
Settlement(m, how) ==
  LET peekLock == settler[m] # NoReceiver /\ PatternOf[m] \in PeekLock
      free == peekLock /\ m \notin bySelf
  IN  CASE how = "cancelled" -> "left"
        [] how = "failed" /\ free -> "abandoning"
        [] how = "ok" /\ free /\ PatternOf[m] \in AutoComplete -> "completing"
        [] OTHER -> "left"

\* The handling of m goes to phase p; inFlight forgets it when it is over.
Goes(m, p) ==
  /\ phase' = [phase EXCEPT ![m] = p]
  /\ inFlight' = IF p \in Over THEN inFlight \ {m} ELSE inFlight

\* Mutant: handleMessage() reads the generation after the deserializer too.
LateGeneration(m) ==
  /\ context' = [context EXCEPT ![m] = receivers[PatternOf[m]]]
  /\ startedIn' = [startedIn EXCEPT ![m] = generation]

\* The handler of m is called: handleMessage() after the deserializer.  Its
\* context has the receiver that the map has now; handleEvent() reads the
\* generation now, handleMessage() read it before.
CallHandler(m) ==
  /\ context' = [context EXCEPT ![m] = receivers[PatternOf[m]]]
  /\ startedIn' = [startedIn EXCEPT ![m] = IF Kind[m] = "event" \/ phase[m] = "queued"
                                           THEN generation ELSE @]

\* processMessage, up to the deserializer or the handler (or to the
\* dead-lettering of a request whose replyTo is not allowed).
Receive(r, m) ==
  LET p == PatternOf[m]
      peekLock == receivers[p] # NoReceiver /\ p \in PeekLock
  IN  /\ link[r] \in {"receiving", "stopping"}
      /\ phase[m] = "queued"
      /\ patternOf[r] = p
      /\ from' = [from EXCEPT ![m] = r]
      /\ settler' = [settler EXCEPT ![m] = receivers[p]]
      /\ phase' = [phase EXCEPT ![m] =
                     CASE Kind[m] = "notAllowed" -> IF peekLock THEN "deadLettering" ELSE "left"
                       [] OTHER -> IF AsyncDeserializer THEN "deserializing" ELSE "handling"]
      /\ inFlight' = IF phase'[m] = "left" THEN inFlight ELSE inFlight \union {m}
      /\ IF AsyncDeserializer
         THEN startedIn' = [startedIn EXCEPT ![m] = generation] /\ UNCHANGED context
         ELSE CallHandler(m)
      /\ UNCHANGED <<listenVars, linkVars, closeVars, bySelf, following, cut, sending, failing>>

Deserialized(m) ==
  /\ phase[m] = "deserializing"
  /\ Goes(m, "handling")
  /\ CallHandler(m)
  /\ UNCHANGED <<listenVars, linkVars, closeVars, from, settler, bySelf, following, cut,
                 sending, failing>>

DeserializeFails(m) ==
  /\ phase[m] = "deserializing"
  /\ Goes(m, Settlement(m, "failed"))
  /\ UNCHANGED <<listenVars, linkVars, closeVars, deliveryVars, following, cut, sending, failing>>

LinkUsable(r) == r # NoReceiver /\ link[r] \in {"receiving", "stopping", "stopped", "closing"}

\* The handler settles its message with the receiver of its context.
HandlerSettles(m) ==
  /\ phase[m] = "handling"
  /\ PatternOf[m] \in PeekLock
  /\ m \notin bySelf
  /\ context[m] = from[m]
  /\ LinkUsable(context[m])
  /\ bySelf' = bySelf \union {m}
  /\ UNCHANGED <<listenVars, linkVars, closeVars, phase, from, settler, context, startedIn,
                 inFlight, following, cut, sending, failing>>

\* handleEvent(): the handler returned a value or threw.
EventHandled(m) ==
  /\ phase[m] = "handling"
  /\ Kind[m] = "event"
  /\ \E how \in {"ok", "failed"} : Goes(m, Settlement(m, how))
  /\ UNCHANGED <<listenVars, linkVars, closeVars, deliveryVars, following, cut, sending, failing>>

\* Mutant: an Observable that a handler returns late is followed.
NeverGivenUp(m) == FALSE

\* close() gave up on the handler of m since it started.
GivenUp(m) == startedIn[m] # generation

\* The handler returned an Observable (the response, for a request): it is
\* followed, unless close() gave up on the handler before.
Follows(m) ==
  /\ phase[m] = "handling"
  /\ IF GivenUp(m)
     THEN Goes(m, Settlement(m, "cancelled")) /\ UNCHANGED following
     ELSE /\ Goes(m, IF Kind[m] = "event" THEN "following" ELSE "replying")
          /\ following' = following \union {m}
  /\ UNCHANGED <<listenVars, linkVars, closeVars, deliveryVars, cut, sending, failing>>

\* followToEnd(): the Observable of an event handler completed or errored.
EventObservableEnds(m) ==
  /\ phase[m] = "following"
  /\ m \in following
  /\ following' = following \ {m}
  /\ \E how \in {"ok", "failed"} : Goes(m, Settlement(m, how))
  /\ UNCHANGED <<listenVars, linkVars, closeVars, deliveryVars, cut, sending, failing>>

\* A reply of the response starts being sent.
ReplyStarts(m) ==
  /\ Kind[m] = "request"
  /\ m \in following
  /\ m \notin sending \union failing
  /\ sending' = sending \union {m}
  /\ UNCHANGED <<listenVars, linkVars, closeVars, phase, deliveryVars, inFlight, following,
                 cut, failing>>

\* It could not be sent and close() did not cut the response: the response is
\* stopped, and an error reply is sent in its place.
ReplyFails(m) ==
  /\ m \in sending
  /\ m \notin cut \union failing
  /\ failing' = failing \union {m}
  /\ UNCHANGED <<listenVars, linkVars, closeVars, phase, deliveryVars, inFlight, following,
                 cut, sending>>

\* The reply (or the error reply) was sent, or could not be: after the first
\* one the request is settled, unless close() cut the response and the reply
\* did not get through.
ReplySettles(m, sent) ==
  /\ m \in sending
  /\ sending' = sending \ {m}
  /\ IF phase[m] = "replying"
     THEN Goes(m, Settlement(m, IF m \in cut /\ ~sent THEN "cancelled" ELSE "ok"))
     ELSE UNCHANGED <<phase, inFlight>>
  /\ UNCHANGED <<listenVars, linkVars, closeVars, deliveryVars, following, cut, failing>>

\* The response ended and its last reply was sent.
ResponseEnds(m) ==
  /\ Kind[m] = "request"
  /\ m \in following
  /\ phase[m] # "replying"
  /\ m \notin sending
  /\ following' = following \ {m}
  /\ UNCHANGED <<listenVars, linkVars, closeVars, phase, deliveryVars, inFlight, cut,
                 sending, failing>>

\* The SDK settled the message, or could not (its lock expires).
Settled(m) ==
  /\ phase[m] \in {"completing", "abandoning", "deadLettering"}
  /\ \/ /\ LinkUsable(settler[m])
        /\ Goes(m, CASE phase[m] = "completing" -> "completed"
                     [] phase[m] = "abandoning" -> "abandoned"
                     [] OTHER -> "deadLettered")
     \/ Goes(m, "left")
  /\ UNCHANGED <<listenVars, linkVars, closeVars, deliveryVars, following, cut, sending, failing>>

-----------------------------------------------------------------------------
(* The rest of closeAll() *)

SubscriptionStopped(r) ==
  /\ link[r] = "stopping"
  /\ link' = [link EXCEPT ![r] = "stopped"]
  /\ UNCHANGED <<listenVars, connected, receivers, made, patternOf, closeVars, messageVars>>

\* Mutant: the map is cleared before the messages in flight are done.
ClearsTooEarly ==
  /\ closeStep = "stopping"
  /\ ~(listenStep = "awaiting" /\ AwaitedIsOver)
  /\ closeStep' = "draining"
  /\ receivers' = [p \in Pattern |-> NoReceiver]
  /\ UNCHANGED <<listenVars, connected, made, patternOf, link, closes, active, repliesStep,
                 replyAbort, generation, messageVars>>

\* The subscriptions stopped, or STOP_RECEIVING_WAIT_MS passed.  (A listen()
\* that has nothing to wait for goes on first: that is one microtask.)
StopWaited ==
  /\ closeStep = "stopping"
  /\ ~(listenStep = "awaiting" /\ AwaitedIsOver)
  /\ closeStep' = "draining"
  /\ UNCHANGED <<listenVars, linkVars, closes, active, repliesStep, replyAbort, generation,
                 messageVars>>

\* Steps 3 and 4 start together: settleReplies() and receiver.close().
StartClosing(left) ==
  /\ closeStep' = "closing"
  /\ repliesStep' = IF left = {} THEN "done" ELSE "waiting"
  /\ link' = [r \in Receiver |-> IF r \in active /\ link[r] # "closed" THEN "closing" ELSE link[r]]

\* waitForInFlight(): nothing is in flight.
Drained ==
  /\ closeStep = "draining"
  /\ inFlight = {} /\ following = {}
  /\ StartClosing(sending)
  /\ UNCHANGED <<listenVars, connected, receivers, made, patternOf, closes, active, replyAbort,
                 generation, messageVars>>

\* Mutant: the generation is bumped once per Observable.
BumpPerStream == generation + Cardinality(following)

NextGeneration == generation + 1

\* waitForInFlight(): closeTimeoutInMs passed.  giveUpOnInFlight() stops the
\* Observables; a handler that waits for one is cancelled, unless its first
\* reply is being sent.
GiveUp ==
  /\ CloseHasLimit
  /\ closeStep = "draining"
  /\ inFlight # {} \/ following # {}
  /\ generation' = NextGeneration
  /\ cut' = cut \union (following \ failing)
  /\ phase' = [m \in Delivery |->
                 IF m \in following /\ m \notin sending /\ phase[m] \in {"following", "replying"}
                 THEN Settlement(m, "cancelled") ELSE phase[m]]
  /\ following' = {}
  /\ inFlight' = {}
  /\ StartClosing(sending)
  /\ UNCHANGED <<listenVars, connected, receivers, made, patternOf, closes, active, replyAbort,
                 deliveryVars, sending, failing>>

\* Mutant: the replies are waited for without a limit.
RepliesWithoutLimit ==
  /\ repliesStep \in {"waiting", "cancelled"}
  /\ sending = {}
  /\ repliesStep' = "done"
  /\ UNCHANGED <<listenVars, linkVars, closeStep, closes, active, replyAbort, generation, messageVars>>

\* settleReplies(): the replies settled, or REPLY_CANCEL_WAIT_MS passed and
\* they are cancelled; then they settled, or it passed once more.
RepliesSettle ==
  /\ repliesStep \in {"waiting", "cancelled"}
  /\ repliesStep' = IF sending = {} \/ repliesStep = "cancelled" THEN "done" ELSE "cancelled"
  /\ replyAbort' = (replyAbort \/ repliesStep' = "cancelled")
  /\ UNCHANGED <<listenVars, linkVars, closeStep, closes, active, generation, messageVars>>

ReceiverCloses(r) ==
  /\ link[r] = "closing"
  /\ link' = [link EXCEPT ![r] = "closed"]
  /\ UNCHANGED <<listenVars, connected, receivers, made, patternOf, closeVars, messageVars>>

\* The receivers are closed (or failed to), and so are the subscriptions, which
\* end with their receiver: the map is cleared.
ReceiversClosed ==
  /\ closeStep = "closing"
  /\ \A r \in active : link[r] = "closed"
  /\ receivers' = [p \in Pattern |-> NoReceiver]
  /\ closeStep' = "replies"
  /\ UNCHANGED <<listenVars, connected, made, patternOf, link, closes, active, repliesStep,
                 replyAbort, generation, messageVars>>

\* The replies are settled or given up: close the connection.
CloseConnection ==
  /\ closeStep = "replies"
  /\ repliesStep = "done"
  /\ connected' = FALSE
  /\ closeStep' = "connection"
  /\ UNCHANGED <<listenVars, receivers, made, patternOf, link, closes, active, repliesStep,
                 replyAbort, generation, messageVars>>

\* client.close() settled.
ConnectionClosed ==
  /\ closeStep = "connection"
  /\ link' = [r \in Receiver |-> IF link[r] = "none" THEN "none" ELSE "closed"]
  /\ closeStep' = "none"
  /\ repliesStep' = "none"
  /\ replyAbort' = FALSE
  /\ active' = {}
  /\ UNCHANGED <<listenVars, connected, receivers, made, patternOf, closes, generation, messageVars>>

-----------------------------------------------------------------------------

CloseGoesOn ==
  \/ StopWaited \/ Drained \/ GiveUp \/ RepliesSettle \/ ReceiversClosed
  \/ CloseConnection \/ ConnectionClosed
  \/ \E r \in Receiver : ReceiverCloses(r)

Next ==
  \/ Listen \/ ListenBinds \/ ListenFails \/ ListenReports \/ Close
  \/ CloseGoesOn
  \/ \E r \in Receiver : SubscriptionStopped(r)
  \/ \E r \in Receiver, m \in Delivery : Receive(r, m)
  \/ \E m \in Delivery :
       \/ Deserialized(m) \/ DeserializeFails(m) \/ HandlerSettles(m) \/ EventHandled(m) \/ Follows(m) \/ EventObservableEnds(m)
       \/ ReplyStarts(m) \/ ReplyFails(m) \/ ResponseEnds(m) \/ Settled(m)
       \/ \E sent \in BOOLEAN : ReplySettles(m, sent)

\* The timers of close() fire, the SDK's promises settle and a listen() that
\* has nothing left to wait for goes on.  Nothing is assumed of the handlers.
Fairness == WF_vars(CloseGoesOn) /\ WF_vars(ListenBinds \/ ListenFails)

Spec == Init /\ [][Next]_vars

FairSpec == Spec /\ Fairness

-----------------------------------------------------------------------------
(* Properties *)

\* Every variable of the server has its type; the generation is bumped at most
\* once per closing (giveUpOnInFlight()).
TypeOK ==
  /\ declared \in Declarations
  /\ listenStep \in {"idle", "awaiting", "failing"} /\ awaited \in 0 .. MaxCloses
  /\ connected \in BOOLEAN
  /\ receivers \in [Pattern -> Receiver \union {NoReceiver}]
  /\ made \in 0 .. MaxReceivers
  /\ patternOf \in [Receiver -> Pattern]
  /\ link \in [Receiver -> {"none", "receiving", "stopping", "stopped", "closing", "closed"}]
  /\ closeStep \in {"none", "stopping", "draining", "closing", "replies", "connection"}
  /\ closes \in 0 .. MaxCloses
  /\ active \subseteq Receiver
  /\ repliesStep \in {"none", "waiting", "cancelled", "done"}
  /\ replyAbort \in BOOLEAN
  /\ generation \in 0 .. closes
  /\ phase \in [Delivery -> Over \union {"queued", "deserializing", "handling", "following",
                                         "replying", "completing", "abandoning", "deadLettering"}]
  /\ from \in [Delivery -> Receiver \union {NoReceiver}]
  /\ settler \in [Delivery -> Receiver \union {NoReceiver}]
  /\ context \in [Delivery -> Receiver \union {NoReceiver}]
  /\ startedIn \in [Delivery -> 0 .. generation]
  /\ bySelf \subseteq Delivery /\ inFlight \subseteq Delivery /\ following \subseteq Delivery
  /\ cut \subseteq Delivery /\ sending \subseteq Delivery /\ failing \subseteq Delivery

\* No receiver is forgotten: one that is open is in the map, or the closing in
\* progress closes it (closeAll() keeps the map until its receivers closed,
\* and clears it whole).
ReceiversAreKnown ==
  \A r \in Receiver :
    link[r] \in {"receiving", "stopping", "stopped", "closing"} =>
      r \in active \/ receivers[patternOf[r]] = r

\* When close() is done and nothing listens again, nothing goes on: no
\* Observable is followed ("nothing would cancel it"), no message is waited for.
ClosedIsQuiet ==
  closeStep = "none" /\ ~connected => following = {} /\ inFlight = {}

\* processMessage finds the receiver that delivered the message, and so can
\* settle it: also a message that arrives while close() drains, or one that
\* outlives its receiver when a close() and another listen() replaced it.
SettledWhereReceived ==
  \A m \in Delivery : phase[m] # "queued" => settler[m] = from[m]

\* A server that listens receives for every handler declared for this
\* transport ("A handler of this transport whose options cannot be used still
\* fails"), and the handlers of the other transports never get a receiver.
HandlersAreServed ==
  connected /\ closeStep = "none" /\ listenStep = "idle" =>
    \A p \in Pattern :
      IF declared[p].declaredHere \/ HasOptions(declared[p])
      THEN receivers[p] # NoReceiver /\ link[receivers[p]] = "receiving"
      ELSE receivers[p] = NoReceiver

\* The message of a handler whose Observable close() stopped is left to its
\* lock: never abandoned, and completed only if the first reply of its
\* request was already being sent.
CutIsLeftUnsettled ==
  [][\A m \in Delivery :
       m \in cut' /\ phase[m] \notin {"abandoning", "completing"} =>
         /\ phase'[m] # "abandoning"
         /\ phase'[m] = "completing" => phase[m] = "replying" /\ m \in sending]_vars

\* The connection is closed under no reply that close() did not cancel ("the
\* connection is not closed under them"), whenever the reply started.
NotClosedUnderReplies ==
  [][connected /\ ~connected' => sending = {} \/ replyAbort]_vars

\* close() ends when it has a time limit, whatever the handlers do.
CloseEnds == (closeStep # "none") ~> (closeStep = "none")
=============================================================================
