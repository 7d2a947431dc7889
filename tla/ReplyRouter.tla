----------------------------- MODULE ReplyRouter -----------------------------
(***************************************************************************)
(* The client's reply router (lib/client/reply-router.ts): it shares one   *)
(* receiver ("listener") per reply queue between the send() calls waiting  *)
(* there, opens it with the first of them, closes it with the last, and    *)
(* hands every reply to the request whose id is its correlationId.         *)
(*                                                                         *)
(* The program is single threaded.  A step of this specification is a      *)
(* piece of code that runs without an await of something outside the       *)
(* program: a call of wait() or of the function it returned, a callback of *)
(* the SDK, the code after the settling of an SDK promise.                 *)
(*                                                                         *)
(* The SDK and the broker are external.  Assumed of them: every promise    *)
(* of the SDK settles, with either outcome; processMessage is not called   *)
(* for a receiver once its close() was called; a receiver holds the        *)
(* session from acceptSession() until its close() settles; a message whose *)
(* settlement failed is delivered again, MaxDeliveryCount times at most.   *)
(***************************************************************************)
EXTENDS Integers, Sequences, SequencesExt, FiniteSets

CONSTANTS
  Request,          \* the ids of this client's send() calls
  Queue,            \* reply queues
  RequestQueue,     \* [Request -> Queue]: the queue a request waits on
  Reply,            \* reply messages, this client's and others'
  CorrelationId,    \* [Reply -> ids]: a request of this client, of another, or InvalidId
  ReplyQueue,       \* [Reply -> Queue]: where the reply is sent
  InvalidId,        \* a correlationId that has not the shape of a request id
  Sessions,         \* the client has a reply session (options.replySessions)
  FinishedLimit,    \* FINISHED_IDS_LIMIT
  MaxDeliveryCount, \* the broker's limit for a message of the reply queues
  MaxListeners      \* bound: how many listeners a behaviour may open

ASSUME RequestAssumption ==
  /\ IsFiniteSet(Request)
  /\ RequestQueue \in [Request -> Queue]
  /\ InvalidId \notin Request
  /\ Queue # {}

\* A server sends the reply to the replyTo of the request; a session is only
\* known to the servers that got a request of this client.
ASSUME ReplyAssumption ==
  /\ ReplyQueue \in [Reply -> Queue]
  /\ \A m \in Reply : CorrelationId[m] \in Request
                        => ReplyQueue[m] = RequestQueue[CorrelationId[m]]
  /\ Sessions \in BOOLEAN
  /\ Sessions => \A m \in Reply : CorrelationId[m] \in Request

ASSUME BoundsAssumption ==
  /\ FinishedLimit \in Nat \ {0}
  /\ MaxDeliveryCount \in Nat \ {0}
  /\ MaxListeners \in Nat \ {0}

\* Listeners are numbered in the order in which they are made.
Listener == 1 .. MaxListeners
NoListener == 0

VARIABLES
  \* the router
  listeners,  \* [Queue -> the listener in use, or NoListener]
  closing,    \* [Queue -> the listener whose closing is remembered, or NoListener]
  finished,   \* the last FinishedLimit ids that stopped waiting, oldest first
  \* the listeners
  made,       \* how many were made
  replyTo,    \* [1..made -> Queue]
  waiters,    \* [Listener -> the requests waiting on it]
  closed,     \* [Listener -> it started closing]
  previous,   \* [Listener -> the closing that its opening waits for]
  opened,     \* [Listener -> how far its opening is]
  receiver,   \* [Listener -> the state of its SDK receiver]
  closeStep,  \* [Listener -> how far its closing is]
  aborted,    \* [Listener -> its abortController was aborted]
  \* the requests, as the callers of send() see them
  status,     \* [Request -> "new", "waiting", "stopped" or "failed"]
  \* the replies
  reply,      \* [Reply -> where it is]
  holder,     \* [Reply -> the listener whose handler has it, or NoListener]
  deliveries  \* [Reply -> how many deliveries failed]

routerVars == <<listeners, closing, finished>>
listenerVars == <<made, replyTo, waiters, closed, previous, opened, receiver,
                  closeStep, aborted>>
replyVars == <<reply, holder, deliveries>>
vars == <<routerVars, listenerVars, status, replyVars>>

Held == {"completing", "abandoning", "deadLettering"}

Init ==
  /\ listeners = [q \in Queue |-> NoListener]
  /\ closing = [q \in Queue |-> NoListener]
  /\ finished = <<>>
  /\ made = 0
  /\ replyTo = [l \in Listener |-> CHOOSE q \in Queue : TRUE]
  /\ waiters = [l \in Listener |-> {}]
  /\ closed = [l \in Listener |-> FALSE]
  /\ previous = [l \in Listener |-> NoListener]
  /\ opened = [l \in Listener |-> "none"]
  /\ receiver = [l \in Listener |-> "none"]
  /\ closeStep = [l \in Listener |-> "none"]
  /\ aborted = [l \in Listener |-> FALSE]
  /\ status = [r \in Request |-> "new"]
  /\ reply = [m \in Reply |-> "unsent"]
  /\ holder = [m \in Reply |-> NoListener]
  /\ deliveries = [m \in Reply |-> 0]

-----------------------------------------------------------------------------
(* Parts of the actions *)

\* Mutant: no id is ever forgotten.
KeepAll(ids) == finished' = finished \o ids

\* RecentIds.add() of several ids: the oldest are forgotten.
AddFinished(ids) ==
  LET all == finished \o ids
  IN  finished' = IF Len(all) > FinishedLimit
                  THEN SubSeq(all, Len(all) - FinishedLimit + 1, Len(all))
                  ELSE all

\* Mutant: the SDK's retries are cancelled before the receiver is closed.
AbortsAtOnce(l) == TRUE

\* Without a receiver the opening is cancelled.
StillOpening(l) == receiver'[l] = "none"

\* closeListener() of each listener of S.  Its first await is on `opened`.
CloseListeners(S) ==
  LET now == {l \in S : ~closed[l]}
  IN  /\ listeners' = [q \in Queue |-> IF listeners[q] \in S THEN NoListener
                                                           ELSE listeners[q]]
      /\ closed' = [l \in Listener |-> closed[l] \/ l \in now]
      /\ aborted' = [l \in Listener |-> aborted[l] \/ (l \in now /\ StillOpening(l))]
      /\ closeStep' = [l \in Listener |-> IF l \in now THEN "opened" ELSE closeStep[l]]
      /\ closing' = [q \in Queue |-> IF \E l \in now : replyTo[l] = q
                                     THEN CHOOSE l \in now : replyTo[l] = q
                                     ELSE closing[q]]

\* failAll() of each listener of S: the requests are told, then it closes.
FailAll(S) ==
  LET failing == UNION {waiters[l] : l \in S}
  IN  /\ waiters' = [l \in Listener |-> IF l \in S THEN {} ELSE waiters[l]]
      /\ status' = [r \in Request |-> IF r \in failing THEN "failed" ELSE status[r]]
      /\ \E ids \in SetToSeqs(failing) : AddFinished(ids)
      /\ CloseListeners(S)

\* Mutant: the end of a closing forgets a later one of the same queue.
ForgetAny(l) == closing' = [closing EXCEPT ![replyTo[l]] = NoListener]

\* The .finally() of a closing: forget it, unless a later one replaced it.
ForgetClosing(l) ==
  closing' = [closing EXCEPT ![replyTo[l]] = IF @ = l THEN NoListener ELSE @]

-----------------------------------------------------------------------------
(* Requests: wait() and the function it returns *)

\* wait() on a queue that has a listener.
Join(r) ==
  LET l == listeners[RequestQueue[r]]
  IN  /\ status[r] = "new"
      /\ l # NoListener
      /\ waiters' = [waiters EXCEPT ![l] = @ \union {r}]
      /\ status' = [status EXCEPT ![r] = "waiting"]
      /\ UNCHANGED <<routerVars, replyVars, made, replyTo, closed, previous,
                     opened, receiver, closeStep, aborted>>

\* Mutant: a listener opens at once.
WaitsForNone(q) == NoListener

\* A session can only be locked once the previous receiver released it.
PreviousOf(q) == IF Sessions THEN closing[q] ELSE NoListener

\* wait() on a queue that has none: open() makes one.
Open(r) ==
  LET q == RequestQueue[r]
      l == made + 1
  IN  /\ status[r] = "new"
      /\ listeners[q] = NoListener
      /\ made < MaxListeners
      /\ made' = l
      /\ listeners' = [listeners EXCEPT ![q] = l]
      /\ replyTo' = [replyTo EXCEPT ![l] = q]
      /\ waiters' = [waiters EXCEPT ![l] = {r}]
      /\ previous' = [previous EXCEPT ![l] = PreviousOf(q)]
      /\ opened' = [opened EXCEPT ![l] = "previous"]
      /\ status' = [status EXCEPT ![r] = "waiting"]
      /\ UNCHANGED <<closing, finished, closed, receiver, closeStep, aborted, replyVars>>

\* Mutants: a listener that nobody waits on stays, or closes under the others.
NeverLast(l) == FALSE
AlwaysLast(l) == TRUE

LastOne(l) == waiters'[l] = {}

\* The request ended, timed out, was unsubscribed or could not be sent; the
\* last one of a listener closes it.
StopWaiting(r) ==
  \E l \in Listener :
    /\ r \in waiters[l]
    /\ waiters' = [waiters EXCEPT ![l] = @ \ {r}]
    /\ status' = [status EXCEPT ![r] = "stopped"]
    /\ AddFinished(<<r>>)
    /\ UNCHANGED <<made, replyTo, previous, opened, receiver, replyVars>>
    /\ IF LastOne(l)
       THEN CloseListeners({l})
       ELSE UNCHANGED <<listeners, closing, closed, closeStep, aborted>>

\* close() of the router: the client is closing.
Close ==
  /\ \E q \in Queue : listeners[q] # NoListener
  /\ UNCHANGED <<made, replyTo, previous, opened, receiver, replyVars>>
  /\ FailAll({listeners[q] : q \in Queue} \ {NoListener})

-----------------------------------------------------------------------------
(* The opening of a listener: the async function of open() *)

PreviousSettled(l) ==
  previous[l] # NoListener => closeStep[previous[l]] = "settled"

Opening(l, step) == opened[l] = step /\ (step = "previous" => PreviousSettled(l))

\* It was closed while it waited for the previous receiver.
OpenSkipped(l) ==
  /\ Opening(l, "previous")
  /\ closed[l]
  /\ opened' = [opened EXCEPT ![l] = "settled"]
  /\ UNCHANGED <<routerVars, made, replyTo, waiters, closed, previous, receiver,
                 closeStep, aborted, status, replyVars>>

\* acceptSession() is called.
AcceptSession(l) ==
  /\ Sessions
  /\ Opening(l, "previous")
  /\ ~closed[l]
  /\ opened' = [opened EXCEPT ![l] = "accepting"]
  /\ UNCHANGED <<routerVars, made, replyTo, waiters, closed, previous, receiver,
                 closeStep, aborted, status, replyVars>>

\* The receiver is there: createReceiver() returned, or acceptSession()
\* resolved (it can even after the abort).  It is subscribed unless the
\* listener closed meanwhile, and then closeListener() closes it.
Opened(l) ==
  /\ IF Sessions THEN Opening(l, "accepting")
                 ELSE Opening(l, "previous") /\ ~closed[l]
  /\ receiver' = [receiver EXCEPT ![l] = "open"]
  /\ opened' = [opened EXCEPT ![l] = "settled"]
  /\ UNCHANGED <<routerVars, made, replyTo, waiters, closed, previous,
                 closeStep, aborted, status, replyVars>>

\* There is no client, createReceiver() throws or acceptSession() rejects.
OpenFails(l) ==
  /\ \/ Opening(l, "previous") /\ ~closed[l]
     \/ Opening(l, "accepting")
  /\ opened' = [opened EXCEPT ![l] = "settled"]
  /\ UNCHANGED <<made, replyTo, previous, receiver, replyVars>>
  /\ IF closed[l]
     THEN UNCHANGED <<routerVars, waiters, closed, closeStep, aborted, status>>
     ELSE FailAll({l})

\* The receiver is there but subscribe() throws.
SubscribeFails(l) ==
  /\ Opening(l, IF Sessions THEN "accepting" ELSE "previous")
  /\ ~closed[l]
  /\ receiver' = [receiver EXCEPT ![l] = "open"]
  /\ opened' = [opened EXCEPT ![l] = "settled"]
  /\ UNCHANGED <<made, replyTo, previous, replyVars>>
  /\ FailAll({l})

\* processError with an error of the receive link that a retry does not fix.
\* (Every other error, and every error while closing, is only logged.)
ReceiveError(l) ==
  /\ opened[l] = "settled"
  /\ receiver[l] = "open"
  /\ ~closed[l]
  /\ UNCHANGED <<made, replyTo, previous, opened, receiver, replyVars>>
  /\ FailAll({l})

-----------------------------------------------------------------------------
(* The closing of a listener: the async function of closeListener() *)

\* Mutant: the closing of a listener that got no receiver is never done.
ClosesOnlyAReceiver(l) ==
  /\ closeStep[l] = "opened"
  /\ receiver[l] = "open"
  /\ closeStep' = [closeStep EXCEPT ![l] = "receiver"]
  /\ receiver' = [receiver EXCEPT ![l] = "closing"]
  /\ UNCHANGED <<routerVars, made, replyTo, waiters, closed, previous, opened,
                 aborted, status, replyVars>>

\* `opened` settled: receiver.close() is called, if there is a receiver.
CloseReceiver(l) ==
  /\ closeStep[l] = "opened"
  /\ opened[l] = "settled"
  /\ closeStep' = [closeStep EXCEPT ![l] = "receiver"]
  /\ receiver' = [receiver EXCEPT ![l] = IF @ = "open" THEN "closing" ELSE @]
  /\ UNCHANGED <<routerVars, made, replyTo, waiters, closed, previous, opened,
                 aborted, status, replyVars>>

\* receiver.close() resolved: cancel the SDK's retries, and close the subscription.
ReceiverClosed(l) ==
  /\ closeStep[l] = "receiver"
  /\ receiver' = [receiver EXCEPT ![l] = IF @ = "closing" THEN "closed" ELSE @]
  /\ aborted' = [aborted EXCEPT ![l] = TRUE]
  /\ closeStep' = [closeStep EXCEPT ![l] = "subscription"]
  /\ UNCHANGED <<routerVars, made, replyTo, waiters, closed, previous, opened,
                 status, replyVars>>

\* receiver.close() rejected: cancel the SDK's retries; the closing is over.
ReceiverCloseFails(l) ==
  /\ closeStep[l] = "receiver"
  /\ receiver[l] = "closing"
  /\ receiver' = [receiver EXCEPT ![l] = "closed"]
  /\ aborted' = [aborted EXCEPT ![l] = TRUE]
  /\ closeStep' = [closeStep EXCEPT ![l] = "settled"]
  /\ ForgetClosing(l)
  /\ UNCHANGED <<listeners, finished, made, replyTo, waiters, closed, previous,
                 opened, status, replyVars>>

\* subscription.close() settled: the closing is over.
SubscriptionClosed(l) ==
  /\ closeStep[l] = "subscription"
  /\ closeStep' = [closeStep EXCEPT ![l] = "settled"]
  /\ ForgetClosing(l)
  /\ UNCHANGED <<listeners, finished, made, replyTo, waiters, closed, previous,
                 opened, receiver, aborted, status, replyVars>>

-----------------------------------------------------------------------------
(* Replies: the broker, and processMessage *)

\* A server sends a reply: a request is sent once its client waits for it.
SendReply(m) ==
  /\ reply[m] = "unsent"
  /\ CorrelationId[m] \in Request => status[CorrelationId[m]] # "new"
  /\ reply' = [reply EXCEPT ![m] = "queued"]
  /\ UNCHANGED <<routerVars, listenerVars, status, holder, deliveries>>

\* Mutant: only the ids that stopped waiting count.
IsFinished(l, id) == id \in ToSet(finished)

\* Mutant: the ids that stopped waiting do not count.
IsWaiting(l, id) == Sessions \/ id \in waiters[l]

\* A reply to a request of this client.
IsOwn(l, id) ==
  \/ Sessions
  \/ id \in waiters[l]
  \/ id \in ToSet(finished)

\* processMessage, up to the settlement it calls and waits for.
ProcessMessage(l, m) ==
  LET id == CorrelationId[m]
  IN  /\ reply[m] = "queued"
      /\ ReplyQueue[m] = replyTo[l]
      /\ opened[l] = "settled" /\ receiver[l] = "open" /\ ~closed[l]
      /\ holder' = [holder EXCEPT ![m] = l]
      /\ reply' = [reply EXCEPT ![m] = IF IsOwn(l, id) THEN "completing"
                                       ELSE IF id = InvalidId THEN "deadLettering"
                                       ELSE "abandoning"]
      /\ UNCHANGED <<routerVars, listenerVars, status, deliveries>>

\* completeMessage() resolved: the request gets the reply, if it still waits.
Completed(m) ==
  /\ reply[m] = "completing"
  /\ reply' = [reply EXCEPT ![m] = IF CorrelationId[m] \in waiters[holder[m]]
                                   THEN "handed" ELSE "dropped"]
  /\ UNCHANGED <<routerVars, listenerVars, status, holder, deliveries>>

\* A delivery that was not settled: the broker delivers the message again.
Redeliver(m) ==
  /\ deliveries' = [deliveries EXCEPT ![m] = @ + 1]
  /\ reply' = [reply EXCEPT ![m] = IF deliveries'[m] >= MaxDeliveryCount
                                   THEN "deadLettered" ELSE "queued"]
  /\ holder' = [holder EXCEPT ![m] = NoListener]
  /\ UNCHANGED <<routerVars, listenerVars, status>>

\* abandonMessage() resolved, or a settlement failed (the lock was lost, the
\* link is closed).
Abandoned(m) ==
  /\ reply[m] \in Held
  /\ Redeliver(m)

DeadLettered(m) ==
  /\ reply[m] = "deadLettering"
  /\ reply' = [reply EXCEPT ![m] = "deadLettered"]
  /\ UNCHANGED <<routerVars, listenerVars, status, holder, deliveries>>

\* completeMessage() rejected although the broker completed the message.
CompletionUnconfirmed(m) ==
  /\ reply[m] = "completing"
  /\ reply' = [reply EXCEPT ![m] = "lost"]
  /\ UNCHANGED <<routerVars, listenerVars, status, holder, deliveries>>

\* Another client receives from the shared queue: it completes its own
\* replies and abandons the ones to this client.
OtherClient(m) ==
  /\ ~Sessions
  /\ reply[m] = "queued"
  /\ IF CorrelationId[m] \in Request
     THEN Redeliver(m)
     ELSE /\ reply' = [reply EXCEPT ![m] = IF CorrelationId[m] = InvalidId
                                            THEN "deadLettered" ELSE "elsewhere"]
          /\ UNCHANGED <<routerVars, listenerVars, status, holder, deliveries>>

-----------------------------------------------------------------------------

OpenStep(l) ==
  OpenSkipped(l) \/ AcceptSession(l) \/ Opened(l) \/ OpenFails(l) \/ SubscribeFails(l)

CloseStep(l) ==
  CloseReceiver(l) \/ ReceiverClosed(l) \/ ReceiverCloseFails(l) \/ SubscriptionClosed(l)

SettleStep(m) ==
  Completed(m) \/ Abandoned(m) \/ DeadLettered(m) \/ CompletionUnconfirmed(m)

Next ==
  \/ \E r \in Request : Join(r) \/ Open(r) \/ StopWaiting(r)
  \/ Close
  \/ \E l \in Listener : OpenStep(l) \/ CloseStep(l) \/ ReceiveError(l)
  \/ \E m \in Reply : SendReply(m) \/ SettleStep(m) \/ OtherClient(m)
  \/ \E l \in Listener, m \in Reply : ProcessMessage(l, m)

\* The SDK's promises settle, and the broker delivers to an open receiver.
Fairness ==
  /\ \A l \in Listener : WF_vars(OpenStep(l)) /\ WF_vars(CloseStep(l))
  /\ \A m \in Reply : /\ WF_vars(SettleStep(m))
                      /\ WF_vars(\E l \in Listener : ProcessMessage(l, m))

Spec == Init /\ [][Next]_vars

FairSpec == Spec /\ Fairness

-----------------------------------------------------------------------------
(* Properties *)

\* Every variable of the router has its type, and RecentIds remembers no more
\* than FINISHED_IDS_LIMIT ids.
TypeOK ==
  /\ listeners \in [Queue -> Listener \union {NoListener}]
  /\ closing \in [Queue -> Listener \union {NoListener}]
  /\ finished \in Seq(Request) /\ Len(finished) <= FinishedLimit
  /\ made \in 0 .. MaxListeners
  /\ replyTo \in [Listener -> Queue]
  /\ waiters \in [Listener -> SUBSET Request]
  /\ closed \in [Listener -> BOOLEAN]
  /\ previous \in [Listener -> Listener \union {NoListener}]
  /\ opened \in [Listener -> {"none", "previous", "accepting", "settled"}]
  /\ receiver \in [Listener -> {"none", "open", "closing", "closed"}]
  /\ closeStep \in [Listener -> {"none", "opened", "receiver", "subscription", "settled"}]
  /\ aborted \in [Listener -> BOOLEAN]
  /\ status \in [Request -> {"new", "waiting", "stopped", "failed"}]
  /\ reply \in [Reply -> Held \union {"unsent", "queued", "handed", "dropped",
                                      "deadLettered", "lost", "elsewhere"}]
  /\ holder \in [Reply -> Listener \union {NoListener}]
  /\ deliveries \in [Reply -> Nat]

\* A send() that is still waiting has a listener that is open or opening on
\* its queue and will route its replies: no interleaving of wait(), the end
\* of other requests, failures and close() strands it (wait(), failAll(),
\* closeListener()).
WaitingIsListenedTo ==
  \A r \in Request :
    status[r] = "waiting" =>
      LET l == listeners[RequestQueue[r]]
      IN  l # NoListener /\ ~closed[l] /\ r \in waiters[l]

\* No receiver is leaked: a listener that did not start closing is the one in
\* use on its queue, and a request waits on it (stopWaiting(), failAll()).
ListenerInUse ==
  \A l \in 1 .. made :
    ~closed[l] => listeners[replyTo[l]] = l /\ waiters[l] # {}

\* A reply that processMessage holds while its request still waits is being
\* completed, by the listener the request waits on: it is neither bounced as
\* another client's nor completed and dropped by an older listener.
ReplyReachesItsRequest ==
  \A m \in Reply :
    /\ reply[m] \in Held
    /\ CorrelationId[m] \in Request
    /\ status[CorrelationId[m]] = "waiting"
    => reply[m] = "completing" /\ CorrelationId[m] \in waiters[holder[m]]

\* The requests that stopped waiting.
Done == {r \in Request : status[r] \in {"stopped", "failed"}}

\* "Replies to this client's own finished requests (late, or after a timeout)
\* are completed and dropped": one is given back to the queue, as another
\* client's, only when more requests stopped waiting than RecentIds remembers.
LateReplyIsOwn ==
  \A m \in Reply :
    reply[m] \in {"abandoning", "deadLettering"} /\ CorrelationId[m] \in Request
      => Cardinality(Done) > FinishedLimit

HasSession(l) == opened[l] = "accepting" \/ receiver[l] \in {"open", "closing"}

\* With replySessions, at most one listener of a queue asks for or holds the
\* session: "a session can only be locked once the previous receiver released
\* it" (the chain of `previous` in open()).
SessionExclusive ==
  Sessions =>
    \A k, l \in 1 .. made :
      k # l /\ replyTo[k] = replyTo[l] => ~(HasSession(k) /\ HasSession(l))

\* With replySessions, the closing remembered for a queue stands for every
\* closing in progress there: when none is remembered (which is when the next
\* listener opens at once and router.close() returns), all are over.
ClosingIsRemembered ==
  Sessions =>
    \A l \in 1 .. made :
      closed[l] /\ closing[replyTo[l]] = NoListener => closeStep[l] = "settled"

\* The SDK's retries are cancelled only while there is no receiver or once it
\* is closed: aborting while the SDK attaches a link of an open receiver ends
\* the process (the comment in closeListener()).
AbortsOnlyWithoutLink ==
  [][\A l \in Listener : ~aborted[l] /\ aborted'[l] => receiver'[l] \in {"none", "closed"}]_vars

\* A listener that starts closing finishes, even behind a chain of others, and
\* leaves no receiver open.
ClosingEnds ==
  \A l \in Listener :
    closed[l] ~> (closeStep[l] = "settled" /\ receiver[l] \in {"none", "closed"})

\* A reply in the queue of a request that waits reaches it, unless the request
\* stops waiting first or the broker gives the message up or loses its
\* settlement.
ReplyArrives ==
  \A m \in Reply :
    CorrelationId[m] \in Request =>
      ((reply[m] = "queued" /\ status[CorrelationId[m]] = "waiting")
         ~> (\/ reply[m] \in {"handed", "deadLettered", "lost"}
             \/ status[CorrelationId[m]] # "waiting"))
=============================================================================
