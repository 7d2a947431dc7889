----------------------------- MODULE ServerProofs -----------------------------
(***************************************************************************)
(* Theorems about Server, for all handlers, messages and options.          *)
(*                                                                         *)
(* MessagesInv holds however listen() and close() overlap.  ClosingInv     *)
(* holds when the application does not call close() before listen() is     *)
(* done, as NestJS does not: ServerOverlap.cfg shows what happens else.    *)
(***************************************************************************)
EXTENDS Server, FiniteSetTheorems, TLAPS

(***************************************************************************)
(* What holds whenever close() is called.                                  *)
(***************************************************************************)

\* The types of TypeOK, of what listen() and close() own ...
LinkTypes ==
  /\ declared \in Declarations
  /\ listenStep \in {"idle", "awaiting", "failing"} /\ awaited \in 0 .. MaxCloses
  /\ connected \in BOOLEAN
  /\ receivers \in [Pattern -> Receiver \union {NoReceiver}]
  /\ made \in 0 .. MaxReceivers
  /\ patternOf \in [Receiver -> Pattern]
  /\ link \in [Receiver -> {"none", "receiving", "stopping", "stopped", "closing", "closed"}]
  /\ closeStep \in {"none", "stopping", "draining", "closing", "replies", "connection"}
  /\ closes \in 0 .. MaxCloses
  /\ active \subseteq Receiver
  /\ repliesStep \in {"none", "waiting", "cancelled", "done"}
  /\ replyAbort \in BOOLEAN
  /\ generation \in 0 .. closes

Phase == Over \union {"queued", "deserializing", "handling", "following", "replying",
                       "completing", "abandoning", "deadLettering"}

\* ... and of the messages.
MessageTypes ==
  /\ phase \in [Delivery -> Phase]
  /\ from \in [Delivery -> Receiver \union {NoReceiver}]
  /\ settler \in [Delivery -> Receiver \union {NoReceiver}]
  /\ context \in [Delivery -> Receiver \union {NoReceiver}]
  /\ startedIn \in [Delivery -> 0 .. generation]
  /\ bySelf \subseteq Delivery /\ inFlight \subseteq Delivery /\ following \subseteq Delivery
  /\ cut \subseteq Delivery /\ sending \subseteq Delivery /\ failing \subseteq Delivery

\* This closing did not give up on the handlers yet.
NotGivenUp == closeStep \in {"stopping", "draining"} => generation < closes

\* What is followed left its handler, and what close() cut is over for the
\* handler too, unless its first reply was being sent.
Followed ==
  /\ \A m \in following : phase[m] \notin {"queued", "deserializing", "handling"}
  /\ \A m \in Delivery : phase[m] = "following" => Kind[m] = "event"
  /\ \A m \in sending : Kind[m] # "event"
  /\ \A m \in cut : \/ phase[m] \in Over \union {"completing", "abandoning", "deadLettering"}
                    \/ phase[m] = "replying" /\ m \in sending

MessagesInv ==
  /\ LinkTypes
  /\ MessageTypes
  /\ NotGivenUp
  /\ Followed

(***************************************************************************)
(* What holds when close() is only called while listen() is not running.   *)
(***************************************************************************)

\* listen() goes on when no closing is in progress.
ListensAlone ==
  /\ closeStep # "none" => closes > 0
  /\ listenStep = "awaiting" /\ closeStep # "none" => awaited = closes
  /\ listenStep = "failing" /\ closeStep = "none" => ~connected
  /\ closeStep = "connection" => ~connected

\* A receiver that is open is in the map, and a closing closes it, as it does
\* only with receivers of the map; the state of its link says how far it is.
OpenIsKnown ==
  \A r \in Receiver :
    /\ r > made => link[r] = "none"
    /\ r \in active /\ closeStep \in {"stopping", "draining", "closing"} =>
         r <= made /\ receivers[patternOf[r]] = r
    /\ link[r] \in {"receiving", "stopping", "stopped", "closing"} =>
         /\ receivers[patternOf[r]] = r
         /\ closeStep # "none" => r \in active
    /\ link[r] = "receiving" => closeStep = "none"
    /\ link[r] \in {"stopping", "stopped"} => closeStep \in {"stopping", "draining"}
    /\ link[r] = "closing" => closeStep = "closing"

\* The map has a receiver that was opened for the pattern, on the connection,
\* and while no closing is in progress it receives; the map is empty once the
\* receivers closed.
MapIsRight ==
  \A p \in Pattern :
    /\ receivers[p] # NoReceiver =>
         /\ receivers[p] \in 1 .. made /\ patternOf[receivers[p]] = p
         /\ Binding(declared[p]) \notin {"ignored", "error"}
         /\ closeStep \in {"none", "stopping", "draining", "closing"}
         /\ connected
         /\ closeStep = "none" => link[receivers[p]] = "receiving"
    /\ connected /\ closeStep = "none" => p \notin Unbound

\* A handler that close() gave up on started in an earlier generation.  (The
\* event of an asynchronous deserializer reads the generation too late.)
Counted(m) == Kind[m] = "request" \/ ~AsyncDeserializer

GivenUpIsOld ==
  \A m \in Delivery :
    /\ phase[m] = "deserializing" => AsyncDeserializer
    /\ phase[m] \in {"deserializing", "handling"} /\ Counted(m) =>
         m \in inFlight \/ startedIn[m] < generation

\* Once the messages in flight are done or given up, nothing starts.
QuietAfterWait ==
  closeStep \in {"closing", "replies", "connection"} \/ (closeStep = "none" /\ ~connected) =>
    inFlight = {} /\ \A m \in following : ~Counted(m)

\* The replies that settleReplies() does not wait for any more are cancelled.
RepliesAreSettled ==
  /\ closeStep \in {"closing", "replies"} /\ repliesStep = "cancelled" => replyAbort
  /\ closeStep \in {"closing", "replies"} /\ repliesStep = "done" => sending = {} \/ replyAbort

ClosingInv ==
  /\ MessagesInv
  /\ ListensAlone
  /\ OpenIsKnown
  /\ MapIsRight
  /\ GivenUpIsOld
  /\ QuietAfterWait
  /\ RepliesAreSettled
  /\ SettledWhereReceived

(***************************************************************************)
(* The steps: those of the messages, and those of listen() and close().    *)
(***************************************************************************)

MessageStep(m) ==
  \/ \E r \in Receiver : Receive(r, m)
  \/ Deserialized(m) \/ DeserializeFails(m) \/ HandlerSettles(m) \/ EventHandled(m)
  \/ Follows(m) \/ EventObservableEnds(m)
  \/ ReplyStarts(m) \/ ReplyFails(m) \/ ResponseEnds(m) \/ Settled(m)
  \/ \E sent \in BOOLEAN : ReplySettles(m, sent)

\* Of these, giving up is the only one that does something with a message.
LinkStep ==
  \/ Listen \/ ListenBinds \/ ListenFails \/ ListenReports \/ Close
  \/ StopWaited \/ Drained \/ RepliesSettle \/ ReceiversClosed
  \/ CloseConnection \/ ConnectionClosed
  \/ \E r \in Receiver : ReceiverCloses(r) \/ SubscriptionStopped(r)

\* A step of the server is of one of these kinds.
LEMMA StepShape ==
  ASSUME [Next]_vars
  PROVE  LinkStep \/ GiveUp \/ (\E m \in Delivery : MessageStep(m)) \/ UNCHANGED vars
BY Zenon DEF Next, CloseGoesOn, LinkStep, MessageStep

\* Messages do not disturb listen(), the receivers and close().
LEMMA MessageFrame ==
  ASSUME NEW m \in Delivery, MessageStep(m)
  PROVE  UNCHANGED <<listenVars, linkVars, closeVars>>
<1>1. ASSUME NEW r \in Receiver, Receive(r, m)
      PROVE  UNCHANGED <<listenVars, linkVars, closeVars>>
  BY <1>1 DEF Receive
<1>2. ASSUME NEW sent \in BOOLEAN, ReplySettles(m, sent)
      PROVE  UNCHANGED <<listenVars, linkVars, closeVars>>
  BY <1>2 DEF ReplySettles
<1>3. CASE \/ Deserialized(m) \/ DeserializeFails(m) \/ HandlerSettles(m) \/ EventHandled(m)
           \/ Follows(m) \/ EventObservableEnds(m)
  BY <1>3 DEF Deserialized, DeserializeFails, HandlerSettles, EventHandled, Follows,
              EventObservableEnds
<1>4. CASE ReplyStarts(m) \/ ReplyFails(m) \/ ResponseEnds(m) \/ Settled(m)
  BY <1>4 DEF ReplyStarts, ReplyFails, ResponseEnds, Settled
<1> QED
  BY <1>1, <1>2, <1>3, <1>4, Zenon DEF MessageStep

\* listen() and close() do nothing with the messages, and count no generation,
\* unless close() gives up.
LEMMA LinkFrame ==
  ASSUME LinkStep
  PROVE  UNCHANGED messageVars /\ UNCHANGED generation
<1>1. CASE Listen \/ ListenBinds \/ ListenReports \/ Close
  BY <1>1 DEF Listen, ListenBinds, ListenReports, Close, StartClose, closeVars
<1>2. CASE ListenFails
  BY <1>2 DEF ListenFails, StartClose, closeVars
<1>3. CASE StopWaited \/ Drained \/ RepliesSettle \/ ReceiversClosed
  BY <1>3 DEF StopWaited, Drained, RepliesSettle, ReceiversClosed, StartClosing
<1>4. CASE CloseConnection \/ ConnectionClosed
  BY <1>4 DEF CloseConnection, ConnectionClosed
<1>5. ASSUME NEW r \in Receiver, ReceiverCloses(r) \/ SubscriptionStopped(r)
      PROVE  UNCHANGED messageVars /\ UNCHANGED generation
  BY <1>5 DEF ReceiverCloses, SubscriptionStopped, closeVars
<1> QED
  BY <1>1, <1>2, <1>3, <1>4, <1>5, Zenon DEF LinkStep

(***************************************************************************)
(* The operators.                                                          *)
(***************************************************************************)

\* A handler that ended leaves its message to the lock, or settles it; one that
\* close() cancelled leaves it.
LEMMA Settlements ==
  ASSUME NEW m, NEW how \in {"ok", "failed", "cancelled"}
  PROVE  /\ Settlement(m, how) \in {"left", "abandoning", "completing"}
         /\ how = "cancelled" => Settlement(m, how) = "left"
         /\ how = "ok" => Settlement(m, how) # "abandoning"
<1>1. CASE how = "cancelled"
  BY <1>1, Zenon DEF Settlement
<1>2. CASE how = "failed"
  BY <1>2 DEF Settlement
<1>3. CASE how = "ok"
  BY <1>3 DEF Settlement
<1> QED
  BY <1>1, <1>2, <1>3, Zenon

\* bindEvents() opens one receiver per pattern: the next ones.
LEMMA Binds ==
  ASSUME LinkTypes, NEW B \in SUBSET Pattern, Bind(B)
  PROVE  /\ made' \in made .. MaxReceivers
         /\ receivers' \in [Pattern -> Receiver \union {NoReceiver}]
         /\ patternOf' \in [Receiver -> Pattern]
         /\ \A p \in B : receivers'[p] \in made + 1 .. made' /\ patternOf'[receivers'[p]] = p
         /\ \A p \in Pattern \ B : receivers'[p] = receivers[p]
         /\ \A r \in Receiver \ (made + 1 .. made') : patternOf'[r] = patternOf[r]
         /\ \A r \in made + 1 .. made' : receivers'[patternOf'[r]] = r
<1> DEFINE n == Cardinality(B)
           f == Order(B)
           new == [p \in B |-> made + f[p]]
<1>1. IsFiniteSet(B) /\ n \in Nat
  BY ServerAssumption, FS_Subset, FS_CardinalityType
<1>2. PICK g \in Bijection(1 .. n, B) : TRUE
  BY <1>1, FS_CardinalityType, Zenon DEF ExistsBijection
<1>3. IsFiniteSet(1 .. n) /\ Cardinality(1 .. n) = n
  BY <1>1, FS_Interval
<1>4. ExistsBijection(B, 1 .. n)
  BY <1>1, <1>3, FS_SameCardinalityBij
<1>5. PICK h \in Bijection(B, 1 .. n) : TRUE
  BY <1>4, Zenon DEF ExistsBijection
<1>6. h \in [B -> 1 .. n] /\ \A p, q \in B : h[p] = h[q] => p = q
  BY <1>5 DEF Bijection, Injection, IsInjective
<1>7. f \in [B -> 1 .. n] /\ \A p, q \in B : f[p] = f[q] => p = q
  BY <1>6, Zenon DEF Order
<1>8. f \in Injection(B, 1 .. n)
  BY <1>7 DEF Injection, IsInjective
<1>9. f \in Surjection(B, 1 .. n)
  BY <1>8, <1>3, FS_Injection
<1>10. \A k \in 1 .. n : \E p \in B : f[p] = k
  BY <1>9 DEF Surjection
<1>11. made \in Nat /\ MaxReceivers \in Nat
  BY ServerAssumption DEF LinkTypes
<1> HIDE DEF n, f
<1>12. /\ made + n <= MaxReceivers
       /\ made' = made + n
       /\ receivers' = [p \in Pattern |-> IF p \in B THEN new[p] ELSE receivers[p]]
       /\ patternOf' = [r \in Receiver |-> IF \E p \in B : new[p] = r
                                           THEN CHOOSE p \in B : new[p] = r
                                           ELSE patternOf[r]]
  BY DEF Bind, n, f
<1>13. /\ \A p \in B : new[p] \in made + 1 .. made'
       /\ \A p, q \in B : new[p] = new[q] => p = q
       /\ \A r \in made + 1 .. made' : \E p \in B : new[p] = r
  <2>1. \A p \in B : f[p] \in 1 .. n /\ new[p] = made + f[p]
    BY <1>7
  <2>2. ASSUME NEW p \in B PROVE new[p] \in made + 1 .. made'
    BY <2>1, <1>12, <1>11, <1>1
  <2>3. ASSUME NEW p \in B, NEW q \in B, new[p] = new[q] PROVE p = q
    <3>1. f[p] = f[q]
      BY <2>1, <2>3, <1>11
    <3> QED
      BY <3>1, <1>7
  <2>4. ASSUME NEW r \in made + 1 .. made' PROVE \E p \in B : new[p] = r
    <3>1. r - made \in 1 .. n
      BY <1>11, <1>12, <1>1
    <3>2. PICK p \in B : f[p] = r - made
      BY <3>1, <1>10
    <3>3. new[p] = r
      BY <3>2, <2>1, <1>11
    <3> QED
      BY <3>3
  <2> QED
    BY <2>2, <2>3, <2>4, Zenon
<1> HIDE DEF new
<1>14. made' \in made .. MaxReceivers /\ made + 1 .. made' \subseteq Receiver
  BY <1>11, <1>12, <1>1 DEF Receiver
<1>15. receivers' \in [Pattern -> Receiver \union {NoReceiver}]
  <2>1. \A p \in Pattern : (IF p \in B THEN new[p] ELSE receivers[p]) \in Receiver \union {NoReceiver}
    BY <1>13, <1>14 DEF LinkTypes
  <2> QED
    BY <2>1, <1>12
<1>16. \A r \in Receiver :
         \/ r \in made + 1 .. made' /\ patternOf'[r] \in B /\ new[patternOf'[r]] = r
         \/ r \notin made + 1 .. made' /\ patternOf'[r] = patternOf[r]
  <2> TAKE r \in Receiver
  <2>1. CASE \E p \in B : new[p] = r
    <3>1. patternOf'[r] = CHOOSE p \in B : new[p] = r
      BY <2>1, <1>12
    <3>2. patternOf'[r] \in B /\ new[patternOf'[r]] = r
      BY <2>1, <3>1, Zenon
    <3> QED
      BY <3>2, <1>13
  <2>2. CASE ~\E p \in B : new[p] = r
    BY <2>2, <1>12, <1>13
  <2> QED
    BY <2>1, <2>2
<1>17. patternOf' \in [Receiver -> Pattern]
  BY <1>16, <1>12 DEF LinkTypes
<1>18. \A p \in B : receivers'[p] \in made + 1 .. made' /\ patternOf'[receivers'[p]] = p
  <2> TAKE p \in B
  <2>1. receivers'[p] = new[p] /\ new[p] \in made + 1 .. made'
    BY <1>12, <1>13
  <2>2. patternOf'[new[p]] \in B /\ new[patternOf'[new[p]]] = new[p]
    BY <2>1, <1>16, <1>14
  <2> QED
    BY <2>1, <2>2, <1>13
<1>19. \A p \in Pattern \ B : receivers'[p] = receivers[p]
  BY <1>12
<1>20. ASSUME NEW r \in made + 1 .. made' PROVE receivers'[patternOf'[r]] = r
  <2>1. patternOf'[r] \in B /\ new[patternOf'[r]] = r
    BY <1>16, <1>14
  <2> QED
    BY <2>1, <1>12
<1> QED
  BY <1>14, <1>15, <1>16, <1>17, <1>18, <1>19, <1>20
(***************************************************************************)
(* LinkTypes.                                                              *)
(***************************************************************************)

\* The closing that starts closes the receivers of the map.
LEMMA StartCloseTypes ==
  ASSUME NEW bound \in [Pattern -> Receiver \union {NoReceiver}],
         NEW links \in [Receiver -> {"none", "receiving", "stopping", "stopped", "closing", "closed"}],
         LinkTypes, StartClose(bound, links)
  PROVE  /\ closes' = closes + 1 /\ closes' \in 0 .. MaxCloses
         /\ active' \subseteq Receiver
         /\ link' \in [Receiver -> {"none", "receiving", "stopping", "stopped", "closing", "closed"}]
         /\ closeStep' = "stopping"
         /\ UNCHANGED <<repliesStep, replyAbort, generation>>
<1>1. closes \in Nat /\ MaxCloses \in Nat /\ closes < MaxCloses /\ closes' = closes + 1
  BY ServerAssumption DEF LinkTypes, StartClose
<1>2. active' \subseteq Receiver
  <2>1. active' = {bound[p] : p \in Pattern} \ {NoReceiver}
    BY DEF StartClose
  <2> QED
    BY <2>1
<1>3. link' \in [Receiver -> {"none", "receiving", "stopping", "stopped", "closing", "closed"}]
  <2>1. link' = [r \in Receiver |-> IF r \in active' /\ links[r] = "receiving"
                                    THEN "stopping" ELSE links[r]]
    BY DEF StartClose
  <2> QED
    BY <2>1
<1> QED
  BY <1>1, <1>2, <1>3 DEF StartClose

\* A receiver that bindEvents() opened receives.
LEMMA BoundTypes ==
  ASSUME LinkTypes
  PROVE  [r \in Receiver |-> Bound(r)] \in
           [Receiver -> {"none", "receiving", "stopping", "stopped", "closing", "closed"}]
BY DEF LinkTypes, Bound

\* Steps keep the types of what listen() and close() own.
LEMMA LinkTypesInv ==
  ASSUME LinkTypes, NotGivenUp, [Next]_vars
  PROVE  LinkTypes'
<1> USE DEF LinkTypes
<1>0. closes \in Nat /\ MaxCloses \in Nat /\ generation \in Nat /\ MaxReceivers \in Nat
  BY ServerAssumption
<1>1. CASE Listen
  BY <1>1, <1>0 DEF Listen, linkVars, closeVars
<1>2. CASE ListenBinds
  <2>1. Usable \in SUBSET Pattern
    BY DEF Usable, Unbound
  <2>2. Bind(Usable)
    BY <1>2 DEF ListenBinds
  <2>3. /\ made' \in 0 .. MaxReceivers
        /\ receivers' \in [Pattern -> Receiver \union {NoReceiver}]
        /\ patternOf' \in [Receiver -> Pattern]
    BY <2>1, <2>2, Binds, <1>0
  <2> QED
    BY <1>2, <2>3, BoundTypes DEF ListenBinds, closeVars
<1>3. CASE ListenFails
  <2>1. \A B \in SUBSET Usable : B \in SUBSET Pattern
    BY DEF Usable, Unbound
  <2>2. \/ UNCHANGED <<connected, receivers, made, patternOf>>
        \/ connected' = TRUE /\ \E B \in SUBSET Usable : Bind(B)
    BY <1>3 DEF ListenFails
  <2>3. /\ made' \in 0 .. MaxReceivers
        /\ receivers' \in [Pattern -> Receiver \union {NoReceiver}]
        /\ patternOf' \in [Receiver -> Pattern]
    BY <2>1, <2>2, Binds, <1>0
  <2>4. listenStep' = "failing" /\ connected' \in BOOLEAN /\ UNCHANGED declared
    BY <1>3, <2>2 DEF ListenFails
  <2>5. CASE closeStep = "none"
    <3>1. StartClose(receivers', [r \in Receiver |-> Bound(r)]) /\ awaited' = closes + 1
      BY <1>3, <2>5 DEF ListenFails
    <3>2. /\ closes' = closes + 1 /\ closes' \in 0 .. MaxCloses
          /\ active' \subseteq Receiver
          /\ link' \in [Receiver -> {"none", "receiving", "stopping", "stopped", "closing", "closed"}]
          /\ closeStep' = "stopping"
          /\ UNCHANGED <<repliesStep, replyAbort, generation>>
      BY <3>1, <2>3, BoundTypes, StartCloseTypes
    <3> QED
      BY <3>1, <3>2, <2>3, <2>4, <1>0
  <2>6. CASE closeStep # "none"
    BY <1>3, <2>6, <2>3, <2>4, <1>0, BoundTypes DEF ListenFails, closeVars
  <2> QED
    BY <2>5, <2>6
<1>4. CASE ListenReports
  BY <1>4 DEF ListenReports, linkVars, closeVars
<1>5. CASE Close
  <2>1. /\ closes' = closes + 1 /\ closes' \in 0 .. MaxCloses
        /\ active' \subseteq Receiver
        /\ link' \in [Receiver -> {"none", "receiving", "stopping", "stopped", "closing", "closed"}]
        /\ closeStep' = "stopping"
        /\ UNCHANGED <<repliesStep, replyAbort, generation>>
    BY <1>5, StartCloseTypes DEF Close
  <2> QED
    BY <2>1, <1>5, <1>0 DEF Close, listenVars
<1>6. CASE StopWaited
  BY <1>6 DEF StopWaited, listenVars, linkVars
<1>7. CASE Drained
  BY <1>7 DEF Drained, StartClosing, listenVars
<1>8. CASE GiveUp
  <2>1. generation' \in 0 .. closes'
    BY <1>8, <1>0 DEF GiveUp, NextGeneration, NotGivenUp
  <2> QED
    BY <1>8, <2>1 DEF GiveUp, StartClosing, listenVars
<1>9. CASE RepliesSettle
  <2>1. repliesStep' \in {"none", "waiting", "cancelled", "done"}
    BY <1>9 DEF RepliesSettle
  <2>2. replyAbort' \in BOOLEAN
    BY <1>9, Zenon DEF RepliesSettle
  <2> QED
    BY <1>9, <2>1, <2>2 DEF RepliesSettle, listenVars, linkVars
<1>10. CASE ReceiversClosed
  BY <1>10 DEF ReceiversClosed, listenVars
<1>11. CASE CloseConnection
  BY <1>11 DEF CloseConnection, listenVars
<1>12. CASE ConnectionClosed
  BY <1>12 DEF ConnectionClosed, listenVars
<1>13. ASSUME NEW r \in Receiver, ReceiverCloses(r) PROVE LinkTypes'
  BY <1>13 DEF ReceiverCloses, listenVars, closeVars
<1>14. ASSUME NEW r \in Receiver, SubscriptionStopped(r) PROVE LinkTypes'
  BY <1>14 DEF SubscriptionStopped, listenVars, closeVars
<1>15. ASSUME NEW m \in Delivery, MessageStep(m) PROVE LinkTypes'
  BY <1>15, MessageFrame DEF listenVars, linkVars, closeVars
<1>16. CASE UNCHANGED vars
  BY <1>16 DEF vars, listenVars, linkVars, closeVars
<1> QED
  BY <1>1, <1>2, <1>3, <1>4, <1>5, <1>6, <1>7, <1>8, <1>9, <1>10, <1>11, <1>12, <1>13, <1>14,
     <1>15, <1>16, StepShape, Zenon DEF LinkStep
(***************************************************************************)
(* NotGivenUp: a closing gives up at most once.                            *)
(***************************************************************************)

LEMMA NotGivenUpInv ==
  ASSUME LinkTypes, NotGivenUp, [Next]_vars
  PROVE  NotGivenUp'
<1> USE DEF NotGivenUp
<1>0. closes \in Nat /\ generation \in 0 .. closes
  BY DEF LinkTypes
<1>1. ASSUME closes' = closes + 1, UNCHANGED generation PROVE NotGivenUp'
  BY <1>0, <1>1
<1>2. ASSUME UNCHANGED <<closes, generation>>,
             \/ UNCHANGED closeStep
             \/ closeStep \in {"stopping", "draining"}
             \/ closeStep' \notin {"stopping", "draining"}
      PROVE  NotGivenUp'
  BY <1>2
<1>3. CASE Listen \/ ListenBinds \/ ListenReports
  BY <1>3, <1>2 DEF Listen, ListenBinds, ListenReports, closeVars
<1>4. CASE ListenFails
  BY <1>4, <1>1, <1>2 DEF ListenFails, StartClose, closeVars
<1>5. CASE Close
  BY <1>5, <1>1 DEF Close, StartClose
<1>6. CASE StopWaited \/ Drained
  BY <1>6, <1>2 DEF StopWaited, Drained, StartClosing
<1>7. CASE GiveUp
  BY <1>7 DEF GiveUp, StartClosing
<1>8. CASE RepliesSettle \/ ReceiversClosed \/ CloseConnection \/ ConnectionClosed
  BY <1>8, <1>2 DEF RepliesSettle, ReceiversClosed, CloseConnection, ConnectionClosed
<1>9. ASSUME NEW r \in Receiver, ReceiverCloses(r) \/ SubscriptionStopped(r) PROVE NotGivenUp'
  BY <1>9, <1>2 DEF ReceiverCloses, SubscriptionStopped, closeVars
<1>10. ASSUME NEW m \in Delivery, MessageStep(m) PROVE NotGivenUp'
  BY <1>10, <1>2, MessageFrame DEF closeVars
<1>11. CASE UNCHANGED vars
  BY <1>11, <1>2 DEF vars, closeVars
<1> QED
  BY <1>3, <1>4, <1>5, <1>6, <1>7, <1>8, <1>9, <1>10, <1>11, StepShape, Zenon DEF LinkStep

(***************************************************************************)
(* MessageTypes.                                                           *)
(***************************************************************************)

\* The handling of a message goes on, and inFlight forgets it at most.
LEMMA GoesTypes ==
  ASSUME MessageTypes, NEW m \in Delivery, NEW p \in Phase, Goes(m, p)
  PROVE  /\ phase' = [phase EXCEPT ![m] = p]
         /\ phase' \in [Delivery -> Phase]
         /\ inFlight' \subseteq inFlight
         /\ p \notin Over => inFlight' = inFlight
         /\ \A n \in inFlight : n \in inFlight' \/ n = m
<1>1. phase' = [phase EXCEPT ![m] = p]
  BY DEF Goes
<1>2. phase \in [Delivery -> Phase]
  BY DEF MessageTypes
<1>3. inFlight' = IF p \in Over THEN inFlight \ {m} ELSE inFlight
  BY DEF Goes
<1>4. phase' \in [Delivery -> Phase]
  BY <1>1, <1>2
<1> QED
  BY <1>1, <1>3, <1>4

\* The handler gets a receiver and a generation.
LEMMA CallTypes ==
  ASSUME LinkTypes, MessageTypes, NEW m \in Delivery, CallHandler(m)
  PROVE  /\ context' \in [Delivery -> Receiver \union {NoReceiver}]
         /\ startedIn' \in [Delivery -> 0 .. generation]
         /\ \A n \in Delivery \ {m} : startedIn'[n] = startedIn[n]
         /\ Kind[m] = "event" \/ phase[m] = "queued" => startedIn'[m] = generation
         /\ ~(Kind[m] = "event" \/ phase[m] = "queued") => startedIn'[m] = startedIn[m]
<1>1. receivers[PatternOf[m]] \in Receiver \union {NoReceiver}
  BY ServerAssumption DEF LinkTypes
<1>2. context' = [context EXCEPT ![m] = receivers[PatternOf[m]]]
  BY DEF CallHandler
<1>3. startedIn' = [startedIn EXCEPT ![m] = IF Kind[m] = "event" \/ phase[m] = "queued"
                                            THEN generation ELSE startedIn[m]]
  BY DEF CallHandler
<1>4. generation \in 0 .. generation
  BY DEF LinkTypes
<1>5. context \in [Delivery -> Receiver \union {NoReceiver}] /\ startedIn \in [Delivery -> 0 .. generation]
  BY DEF MessageTypes
<1>6. startedIn' \in [Delivery -> 0 .. generation]
  BY <1>3, <1>4, <1>5
<1>7. context' \in [Delivery -> Receiver \union {NoReceiver}]
  BY <1>1, <1>2, <1>5
<1> QED
  BY <1>3, <1>5, <1>6, <1>7

\* What processMessage makes of a message that arrived.
LEMMA Received ==
  ASSUME LinkTypes, MessageTypes, NEW r \in Receiver, NEW m \in Delivery, Receive(r, m)
  PROVE  /\ phase' = [phase EXCEPT ![m] = phase'[m]]
         /\ phase'[m] \in {"deadLettering", "left", "deserializing", "handling"}
         /\ Kind[m] = "notAllowed" => phase'[m] \in {"deadLettering", "left"}
         /\ phase'[m] \in {"deserializing", "handling"} => m \in inFlight'
         /\ phase'[m] = "deserializing" => AsyncDeserializer
         /\ inFlight \subseteq inFlight' /\ inFlight' \subseteq inFlight \union {m}
<1> DEFINE peekLock == receivers[PatternOf[m]] # NoReceiver /\ PatternOf[m] \in PeekLock
           next == CASE Kind[m] = "notAllowed" -> IF peekLock THEN "deadLettering" ELSE "left"
                     [] OTHER -> IF AsyncDeserializer THEN "deserializing" ELSE "handling"
<1>1. /\ Kind[m] = "notAllowed" => next \in {"deadLettering", "left"}
      /\ Kind[m] # "notAllowed" /\ AsyncDeserializer => next = "deserializing"
      /\ Kind[m] # "notAllowed" /\ ~AsyncDeserializer => next = "handling"
  <2> HIDE DEF peekLock
  <2>1. CASE Kind[m] = "notAllowed"
    <3>1. next = IF peekLock THEN "deadLettering" ELSE "left"
      BY <2>1, Zenon
    <3> HIDE DEF next
    <3> QED
      BY <2>1, <3>1, Zenon
  <2>2. CASE Kind[m] # "notAllowed"
    <3>1. next = IF AsyncDeserializer THEN "deserializing" ELSE "handling"
      BY <2>2, Zenon
    <3> HIDE DEF next
    <3> QED
      BY <2>2, <3>1, Zenon
  <2> QED
    BY <2>1, <2>2, Zenon
<1>2. phase' = [phase EXCEPT ![m] = next]
  BY Zenon DEF Receive
<1>3. inFlight' = IF phase'[m] = "left" THEN inFlight ELSE inFlight \union {m}
  BY Zenon DEF Receive
<1> HIDE DEF next
<1>4. phase'[m] = next
  BY <1>2 DEF MessageTypes
<1> QED
  BY <1>1, <1>2, <1>3, <1>4

\* Steps keep the types of what the messages own.
LEMMA MessageTypesInv ==
  ASSUME LinkTypes, MessageTypes, [Next]_vars
  PROVE  MessageTypes'
<1> USE DEF MessageTypes
<1>0. {"left", "abandoning", "completing", "deadLettering", "deserializing", "handling",
       "following", "replying", "completed", "abandoned", "deadLettered"} \subseteq Phase
  BY DEF Phase, Over
<1>1. ASSUME NEW r \in Receiver, NEW m \in Delivery, Receive(r, m) PROVE MessageTypes'
  <2>1. phase' \in [Delivery -> Phase] /\ inFlight' \subseteq Delivery
    BY <1>1, <1>0, Received
  <2>2. receivers[PatternOf[m]] \in Receiver \union {NoReceiver} /\ generation \in 0 .. generation
    BY ServerAssumption DEF LinkTypes
  <2>3. from' = [from EXCEPT ![m] = r] /\ settler' = [settler EXCEPT ![m] = receivers[PatternOf[m]]]
    BY <1>1, Zenon DEF Receive
  <2>4. from' \in [Delivery -> Receiver \union {NoReceiver}]
        /\ settler' \in [Delivery -> Receiver \union {NoReceiver}]
    BY <2>2, <2>3
  <2>5. /\ context' \in [Delivery -> Receiver \union {NoReceiver}]
        /\ startedIn' \in [Delivery -> 0 .. generation]
    <3>1. CASE AsyncDeserializer
      <4>1. startedIn' = [startedIn EXCEPT ![m] = generation] /\ UNCHANGED context
        BY <3>1, <1>1, Zenon DEF Receive
      <4> QED
        BY <4>1, <2>2
    <3>2. CASE ~AsyncDeserializer
      <4>1. CallHandler(m)
        BY <3>2, <1>1, Zenon DEF Receive
      <4> QED
        BY <4>1, CallTypes
    <3> QED
      BY <3>1, <3>2, Zenon
  <2>6. UNCHANGED <<closeVars, bySelf, following, cut, sending, failing>>
    BY <1>1, Zenon DEF Receive
  <2> QED
    BY <2>1, <2>4, <2>5, <2>6 DEF closeVars
<1>2. ASSUME NEW m \in Delivery, Deserialized(m) PROVE MessageTypes'
  <2>1. Goes(m, "handling") /\ CallHandler(m)
    BY <1>2 DEF Deserialized
  <2> QED
    BY <1>2, <2>1, <1>0, GoesTypes, CallTypes DEF Deserialized, closeVars
<1>3. ASSUME NEW m \in Delivery, NEW p \in Phase, Goes(m, p),
             UNCHANGED <<closeVars, deliveryVars, cut, sending, failing>>,
             following' \subseteq Delivery
      PROVE  MessageTypes'
  BY <1>3, GoesTypes DEF closeVars, deliveryVars
<1>4. ASSUME NEW m \in Delivery, DeserializeFails(m) PROVE MessageTypes'
  BY <1>4, <1>3, <1>0, Settlements DEF DeserializeFails
<1>5. ASSUME NEW m \in Delivery, HandlerSettles(m) PROVE MessageTypes'
  BY <1>5 DEF HandlerSettles, closeVars
<1>6. ASSUME NEW m \in Delivery, EventHandled(m) PROVE MessageTypes'
  BY <1>6, <1>3, <1>0, Settlements DEF EventHandled
<1>7. ASSUME NEW m \in Delivery, Follows(m) PROVE MessageTypes'
  <2>1. CASE GivenUp(m)
    BY <2>1, <1>7, <1>3, <1>0, Settlements DEF Follows
  <2>2. CASE ~GivenUp(m)
    BY <2>2, <1>7, <1>3, <1>0 DEF Follows
  <2> QED
    BY <2>1, <2>2
<1>8. ASSUME NEW m \in Delivery, EventObservableEnds(m) PROVE MessageTypes'
  BY <1>8, <1>3, <1>0, Settlements DEF EventObservableEnds
<1>9. ASSUME NEW m \in Delivery, ReplyStarts(m) \/ ReplyFails(m) \/ ResponseEnds(m)
      PROVE  MessageTypes'
  BY <1>9 DEF ReplyStarts, ReplyFails, ResponseEnds, closeVars, deliveryVars
<1>10. ASSUME NEW m \in Delivery, Settled(m) PROVE MessageTypes'
  <2>1. PICK p \in {"completed", "abandoned", "deadLettered", "left"} : Goes(m, p)
    <3>1. CASE Goes(m, "left")
      BY <3>1, Zenon
    <3>2. CASE Goes(m, CASE phase[m] = "completing" -> "completed"
                         [] phase[m] = "abandoning" -> "abandoned"
                         [] OTHER -> "deadLettered")
      <4> DEFINE q == CASE phase[m] = "completing" -> "completed"
                        [] phase[m] = "abandoning" -> "abandoned"
                        [] OTHER -> "deadLettered"
      <4>1. q \in {"completed", "abandoned", "deadLettered"}
        BY Zenon
      <4>2. Goes(m, q)
        BY <3>2
      <4> HIDE DEF q
      <4> QED
        BY <4>1, <4>2, Zenon
    <3> QED
      BY <1>10, <3>1, <3>2, Zenon DEF Settled
  <2> QED
    BY <2>1, <1>10, <1>3, <1>0 DEF Settled
<1>11. ASSUME NEW m \in Delivery, NEW sent \in BOOLEAN, ReplySettles(m, sent) PROVE MessageTypes'
  <2> DEFINE how == IF m \in cut /\ ~sent THEN "cancelled" ELSE "ok"
  <2>1. CASE phase[m] = "replying"
    <3>1. how \in {"ok", "failed", "cancelled"}
      BY Zenon
    <3>2. Goes(m, Settlement(m, how))
      BY <1>11, <2>1, Zenon DEF ReplySettles
    <3> HIDE DEF how
    <3>3. sending' \subseteq Delivery /\ UNCHANGED <<closeVars, deliveryVars, cut, following, failing>>
      BY <1>11 DEF ReplySettles
    <3>4. Settlement(m, how) \in Phase
      BY <3>1, <1>0, Settlements
    <3> QED
      BY <3>2, <3>3, <3>4, GoesTypes DEF closeVars, deliveryVars
  <2>2. CASE phase[m] # "replying"
    BY <2>2, <1>11 DEF ReplySettles, closeVars, deliveryVars
  <2> QED
    BY <2>1, <2>2
<1>12. CASE GiveUp
  <2>1. generation \in Nat /\ generation' = generation + 1
    BY <1>12 DEF LinkTypes, GiveUp, NextGeneration
  <2>2. phase' \in [Delivery -> Phase]
    <3>1. \A m \in Delivery : Settlement(m, "cancelled") \in Phase
      BY <1>0, Settlements
    <3> QED
      BY <3>1, <1>12 DEF GiveUp
  <2>3. startedIn' \in [Delivery -> 0 .. generation']
    BY <1>12, <2>1 DEF GiveUp, deliveryVars
  <2> QED
    BY <1>12, <2>2, <2>3 DEF GiveUp, deliveryVars
<1>13. CASE LinkStep
  BY <1>13, LinkFrame DEF messageVars, deliveryVars
<1>14. CASE UNCHANGED vars
  BY <1>14 DEF vars, messageVars, deliveryVars, closeVars
<1> QED
  BY <1>1, <1>2, <1>4, <1>5, <1>6, <1>7, <1>8, <1>9, <1>10, <1>11, <1>12, <1>13, <1>14,
     StepShape, Zenon DEF MessageStep
\* A step of a message is that message's business.
Untouched(n) ==
  /\ phase'[n] = phase[n] /\ from'[n] = from[n] /\ settler'[n] = settler[n]
  /\ startedIn'[n] = startedIn[n]
  /\ n \in inFlight' <=> n \in inFlight
  /\ n \in following' <=> n \in following
  /\ n \in cut' <=> n \in cut
  /\ n \in sending' <=> n \in sending

\* The handling of a message touches no other message.
LEMMA OthersUntouched ==
  ASSUME LinkTypes, MessageTypes, NEW m \in Delivery, MessageStep(m), NEW n \in Delivery, n # m
  PROVE  Untouched(n)
<1> USE DEF Untouched
<1>1. ASSUME NEW p, Goes(m, p)
      PROVE  phase'[n] = phase[n] /\ (n \in inFlight' <=> n \in inFlight)
  BY <1>1 DEF Goes, MessageTypes
<1>2. ASSUME NEW r \in Receiver, Receive(r, m) PROVE Untouched(n)
  <2>1. phase'[n] = phase[n] /\ (n \in inFlight' <=> n \in inFlight)
    BY <1>2, Received DEF MessageTypes
  <2>2. from' = [from EXCEPT ![m] = r] /\ settler' = [settler EXCEPT ![m] = receivers[PatternOf[m]]]
    BY <1>2, Zenon DEF Receive
  <2>3. startedIn'[n] = startedIn[n]
    <3>1. CASE AsyncDeserializer
      <4>1. startedIn' = [startedIn EXCEPT ![m] = generation]
        BY <3>1, <1>2, Zenon DEF Receive
      <4> QED
        BY <4>1 DEF MessageTypes
    <3>2. CASE ~AsyncDeserializer
      <4>1. CallHandler(m)
        BY <3>2, <1>2, Zenon DEF Receive
      <4> QED
        BY <4>1, CallTypes
    <3> QED
      BY <3>1, <3>2, Zenon
  <2>4. UNCHANGED <<following, cut, sending>>
    BY <1>2, Zenon DEF Receive
  <2> QED
    BY <2>1, <2>2, <2>3, <2>4 DEF MessageTypes
<1>3. CASE Deserialized(m)
  BY <1>3, <1>1, CallTypes DEF Deserialized
<1>4. CASE DeserializeFails(m) \/ EventHandled(m)
  BY <1>4, <1>1 DEF DeserializeFails, EventHandled, deliveryVars
<1>5. CASE HandlerSettles(m)
  BY <1>5 DEF HandlerSettles
<1>6. CASE Follows(m)
  <2>1. \E p : Goes(m, p)
    BY <1>6 DEF Follows
  <2>2. n \in following' <=> n \in following
    BY <1>6 DEF Follows
  <2> QED
    BY <2>1, <2>2, <1>1, <1>6 DEF Follows, deliveryVars
<1>7. CASE EventObservableEnds(m)
  BY <1>7, <1>1 DEF EventObservableEnds, deliveryVars
<1>8. CASE ReplyStarts(m) \/ ReplyFails(m) \/ ResponseEnds(m)
  BY <1>8 DEF ReplyStarts, ReplyFails, ResponseEnds, deliveryVars
<1>9. CASE Settled(m)
  <2>1. \E p : Goes(m, p)
    BY <1>9, Zenon DEF Settled
  <2> QED
    BY <2>1, <1>1, <1>9 DEF Settled, deliveryVars
<1>10. ASSUME NEW sent \in BOOLEAN, ReplySettles(m, sent) PROVE Untouched(n)
  <2>1. phase'[n] = phase[n] /\ (n \in inFlight' <=> n \in inFlight)
    BY <1>10, <1>1 DEF ReplySettles
  <2> QED
    BY <2>1, <1>10 DEF ReplySettles, deliveryVars
<1> QED
  BY <1>2, <1>3, <1>4, <1>5, <1>6, <1>7, <1>8, <1>9, <1>10, Zenon DEF MessageStep

(***************************************************************************)
(* Followed: what is followed, and what close() cut.                       *)
(***************************************************************************)

IsFollowed(m) ==
  /\ m \in following => phase[m] \notin {"queued", "deserializing", "handling"}
  /\ phase[m] = "following" => Kind[m] = "event"
  /\ m \in sending => Kind[m] # "event"
  /\ m \in cut => \/ phase[m] \in Over \union {"completing", "abandoning", "deadLettering"}
                  \/ phase[m] = "replying" /\ m \in sending

\* Followed is a statement about each message on its own.
LEMMA FollowedEach ==
  ASSUME MessageTypes
  PROVE  Followed <=> \A m \in Delivery : IsFollowed(m)
BY DEF Followed, IsFollowed, MessageTypes

\* Once its settlement is known a message is over, and nothing else changes.
LEMMA SettledPhase ==
  ASSUME MessageTypes, NEW m \in Delivery, Settled(m)
  PROVE  phase'[m] \in Over /\ UNCHANGED <<following, sending, cut, startedIn, settler, from>>
<1>1. phase' = [phase EXCEPT ![m] = phase'[m]] /\ phase'[m] \in Over
  <2>1. CASE Goes(m, "left")
    BY <2>1 DEF Goes, MessageTypes, Over
  <2>2. CASE Goes(m, CASE phase[m] = "completing" -> "completed"
                       [] phase[m] = "abandoning" -> "abandoned"
                       [] OTHER -> "deadLettered")
    <3> DEFINE q == CASE phase[m] = "completing" -> "completed"
                      [] phase[m] = "abandoning" -> "abandoned"
                      [] OTHER -> "deadLettered"
    <3>1. q \in {"completed", "abandoned", "deadLettered"}
      BY Zenon
    <3>2. Goes(m, q)
      BY <2>2
    <3> HIDE DEF q
    <3> QED
      BY <3>1, <3>2 DEF Goes, MessageTypes, Over
  <2> QED
    BY <2>1, <2>2, Zenon DEF Settled
<1> QED
  BY <1>1 DEF Settled, deliveryVars

\* After a reply, a request that waited for it is left or completed; it is left
\* if close() cut the response and the reply did not get through.
LEMMA ReplyPhase ==
  ASSUME MessageTypes, NEW m \in Delivery, NEW sent \in BOOLEAN, ReplySettles(m, sent)
  PROVE  /\ phase[m] = "replying" => phase'[m] \in {"left", "completing"}
         /\ phase[m] # "replying" => phase'[m] = phase[m] /\ inFlight' = inFlight
         /\ m \in sending /\ sending' = sending \ {m}
         /\ inFlight' \subseteq inFlight
         /\ UNCHANGED <<following, cut, startedIn, settler, from, failing>>
<1> DEFINE how == IF m \in cut /\ ~sent THEN "cancelled" ELSE "ok"
<1>1. CASE phase[m] = "replying"
  <2>1. how \in {"ok", "cancelled"} /\ Goes(m, Settlement(m, how))
    BY <1>1, Zenon DEF ReplySettles
  <2> HIDE DEF how
  <2>2. Settlement(m, how) \in {"left", "completing"}
    BY <2>1, Settlements
  <2>3. phase'[m] \in {"left", "completing"} /\ inFlight' \subseteq inFlight
    BY <2>1, <2>2 DEF Goes, MessageTypes
  <2> QED
    BY <1>1, <2>3 DEF ReplySettles, deliveryVars
<1>2. CASE phase[m] # "replying"
  BY <1>2 DEF ReplySettles, deliveryVars
<1> QED
  BY <1>1, <1>2

\* Steps keep what is known of responses that are followed or cut.
LEMMA FollowedStep ==
  ASSUME LinkTypes, MessageTypes, Followed, [Next]_vars
  PROVE  Followed'
<1> USE DEF IsFollowed
<1>0. \A m \in Delivery : IsFollowed(m)
  BY FollowedEach
<1>1. SUFFICES ASSUME NEW n \in Delivery PROVE IsFollowed(n)'
  <2>1. MessageTypes'
    BY MessageTypesInv
  <2>2. \A m \in Delivery : IsFollowed(m)'
    BY <1>1
  <2>3. (Followed <=> \A m \in Delivery : IsFollowed(m))'
    BY <2>1 DEF Followed, IsFollowed, MessageTypes
  <2> QED
    BY <2>2, <2>3
<1>2. ASSUME NEW m \in Delivery, MessageStep(m), m # n PROVE IsFollowed(n)'
  BY <1>2, <1>0, OthersUntouched DEF Untouched
<1>3. ASSUME NEW p, Goes(n, p) PROVE phase'[n] = p
  BY <1>3 DEF Goes, MessageTypes
<1>4. ASSUME NEW r \in Receiver, Receive(r, n) PROVE IsFollowed(n)'
  <2>1. phase[n] = "queued" /\ UNCHANGED <<following, cut, sending>>
    BY <1>4, Zenon DEF Receive
  <2>2. phase'[n] \in {"deadLettering", "left", "deserializing", "handling"}
    BY <1>4, Received
  <2> QED
    BY <2>1, <2>2, <1>0 DEF Over
<1>5. CASE Deserialized(n)
  BY <1>5, <1>3, <1>0 DEF Deserialized, Over
<1>6. CASE DeserializeFails(n)
  BY <1>6, <1>3, <1>0, Settlements DEF DeserializeFails, Over
<1>7. CASE HandlerSettles(n)
  BY <1>7, <1>0 DEF HandlerSettles
<1>8. CASE EventHandled(n)
  BY <1>8, <1>3, <1>0, Settlements DEF EventHandled, Over
<1>9. CASE Follows(n)
  <2>1. CASE GivenUp(n)
    BY <2>1, <1>9, <1>3, <1>0, Settlements DEF Follows, Over
  <2>2. CASE ~GivenUp(n)
    <3>1. phase'[n] = IF Kind[n] = "event" THEN "following" ELSE "replying"
      BY <2>2, <1>9, <1>3 DEF Follows
    <3>2. phase[n] = "handling" /\ UNCHANGED <<cut, sending>>
      BY <1>9 DEF Follows
    <3> QED
      BY <3>1, <3>2, <1>0 DEF Over
  <2> QED
    BY <2>1, <2>2
<1>10. CASE EventObservableEnds(n)
  BY <1>10, <1>3, <1>0, Settlements DEF EventObservableEnds, Over
<1>11. CASE ReplyStarts(n)
  BY <1>11, <1>0 DEF ReplyStarts
<1>12. CASE ReplyFails(n) \/ ResponseEnds(n)
  BY <1>12, <1>0 DEF ReplyFails, ResponseEnds
<1>13. CASE Settled(n)
  BY <1>13, <1>0, SettledPhase DEF Settled, Over
<1>14. ASSUME NEW sent \in BOOLEAN, ReplySettles(n, sent) PROVE IsFollowed(n)'
  BY <1>14, <1>0, ReplyPhase DEF Over
<1>15. CASE GiveUp
  <2>1. /\ cut' = cut \union (following \ failing) /\ following' = {} /\ UNCHANGED sending
        /\ phase'[n] = IF n \in following /\ n \notin sending /\ phase[n] \in {"following", "replying"}
                       THEN Settlement(n, "cancelled") ELSE phase[n]
    BY <1>15 DEF GiveUp
  <2>2. Settlement(n, "cancelled") = "left"
    BY Settlements
  <2>3. phase[n] \in Phase
    BY DEF MessageTypes
  <2> QED
    BY <2>1, <2>2, <2>3, <1>0 DEF Phase, Over
<1>16. CASE LinkStep
  BY <1>16, <1>0, LinkFrame DEF messageVars
<1>17. CASE UNCHANGED vars
  BY <1>17, <1>0 DEF vars, messageVars
<1>18. ASSUME MessageStep(n) PROVE IsFollowed(n)'
  BY <1>18, <1>4, <1>5, <1>6, <1>7, <1>8, <1>9, <1>10, <1>11, <1>12, <1>13, <1>14, Zenon
     DEF MessageStep
<1> QED
  BY <1>2, <1>15, <1>16, <1>17, <1>18, StepShape, Zenon

(***************************************************************************)
(* The theorems that hold however listen() and close() overlap.            *)
(***************************************************************************)

LEMMA InitMessages ==
  ASSUME Init
  PROVE  MessagesInv
<1>1. LinkTypes
  <2>1. (CHOOSE p \in Pattern : TRUE) \in Pattern
    BY ServerAssumption, Zenon
  <2>2. patternOf \in [Receiver -> Pattern]
    BY <2>1 DEF Init
  <2>3. receivers \in [Pattern -> Receiver \union {NoReceiver}]
    BY DEF Init
  <2>4. MaxReceivers \in Nat /\ MaxCloses \in Nat
    BY ServerAssumption
  <2>5. connected \in BOOLEAN /\ replyAbort \in BOOLEAN
    BY DEF Init
  <2> QED
    BY <2>2, <2>3, <2>4, <2>5 DEF Init, LinkTypes
<1>2. MessageTypes
  BY <1>1 DEF Init, MessageTypes, Phase, NoReceiver, LinkTypes
<1>3. NotGivenUp /\ Followed
  BY DEF Init, NotGivenUp, Followed
<1> QED
  BY <1>1, <1>2, <1>3 DEF MessagesInv

\* The inductive invariant of the messages holds for any application, any
\* messages and any options, also when close() overlaps listen().
THEOREM MessagesInvariant == Spec => []MessagesInv
<1>1. Init => MessagesInv
  BY InitMessages
<1>2. MessagesInv /\ [Next]_vars => MessagesInv'
  BY LinkTypesInv, NotGivenUpInv, MessageTypesInv, FollowedStep DEF MessagesInv
<1> QED
  BY <1>1, <1>2, PTL DEF Spec

\* Types: in particular giveUpOnInFlight() counts at most one generation per
\* closing, and a handler never starts in a later one.
THEOREM ServerTypes == Spec => []TypeOK
<1>1. MessagesInv => TypeOK
  BY DEF MessagesInv, LinkTypes, MessageTypes, Phase, TypeOK
<1> QED
  BY <1>1, MessagesInvariant, PTL

\* A message whose Observable close() stopped is left to its lock.
THEOREM CutIsLeft == Spec => CutIsLeftUnsettled
<1> DEFINE Left(m) == m \in cut' /\ phase[m] \notin {"abandoning", "completing"} =>
                        /\ phase'[m] # "abandoning"
                        /\ phase'[m] = "completing" => phase[m] = "replying" /\ m \in sending
<1>1. ASSUME MessagesInv, [Next]_vars PROVE \A n \in Delivery : Left(n)
  <2> USE DEF IsFollowed
  <2>0. LinkTypes /\ MessageTypes /\ \A n \in Delivery : IsFollowed(n)
    BY <1>1, FollowedEach DEF MessagesInv
  <2> TAKE n \in Delivery
  <2>1. ASSUME phase'[n] = phase[n] PROVE Left(n)
    BY <2>1
  <2>2. ASSUME NEW m \in Delivery, MessageStep(m), m # n PROVE Left(n)
    BY <2>2, <2>1, <2>0, OthersUntouched DEF Untouched
  <2>3. ASSUME MessageStep(n) PROVE Left(n)
    <3>1. ASSUME UNCHANGED cut, phase[n] \in {"queued", "deserializing", "handling", "following"}
          PROVE  Left(n)
      BY <3>1, <2>0 DEF Over
    <3>2. ASSUME NEW r \in Receiver, Receive(r, n) PROVE Left(n)
      <4>1. phase[n] = "queued" /\ UNCHANGED cut
        BY <3>2, Zenon DEF Receive
      <4> QED
        BY <4>1, <3>1
    <3>3. CASE Deserialized(n) \/ DeserializeFails(n) \/ EventHandled(n)
      BY <3>3, <3>1 DEF Deserialized, DeserializeFails, EventHandled
    <3>4. CASE HandlerSettles(n)
      BY <3>4, <2>1 DEF HandlerSettles
    <3>5. CASE Follows(n) \/ EventObservableEnds(n)
      BY <3>5, <3>1 DEF Follows, EventObservableEnds
    <3>6. CASE ReplyStarts(n) \/ ReplyFails(n) \/ ResponseEnds(n)
      BY <3>6, <2>1 DEF ReplyStarts, ReplyFails, ResponseEnds
    <3>7. CASE Settled(n)
      BY <3>7, <2>0, SettledPhase DEF Over
    <3>8. ASSUME NEW sent \in BOOLEAN, ReplySettles(n, sent) PROVE Left(n)
      BY <3>8, <2>0, ReplyPhase
    <3> QED
      BY <2>3, <3>2, <3>3, <3>4, <3>5, <3>6, <3>7, <3>8, Zenon DEF MessageStep
  <2>4. CASE GiveUp
    <3>1. phase'[n] = IF n \in following /\ n \notin sending /\ phase[n] \in {"following", "replying"}
                      THEN Settlement(n, "cancelled") ELSE phase[n]
      BY <2>4 DEF GiveUp
    <3>2. Settlement(n, "cancelled") = "left"
      BY Settlements
    <3> QED
      BY <3>1, <3>2, <2>1
  <2>5. CASE LinkStep
    BY <2>5, <2>1, LinkFrame DEF messageVars
  <2>6. CASE UNCHANGED vars
    BY <2>6, <2>1 DEF vars, messageVars
  <2> QED
    BY <1>1, <2>2, <2>3, <2>4, <2>5, <2>6, StepShape, Zenon
<1>2. MessagesInv /\ [Next]_vars =>
        [\A m \in Delivery :
           m \in cut' /\ phase[m] \notin {"abandoning", "completing"} =>
             /\ phase'[m] # "abandoning"
             /\ phase'[m] = "completing" => phase[m] = "replying" /\ m \in sending]_vars
  BY <1>1
<1> QED
  BY <1>2, MessagesInvariant, PTL DEF Spec, CutIsLeftUnsettled

(***************************************************************************)
(* ListensAlone: listen() binds when no closing is in progress.            *)
(***************************************************************************)

\* The closing that listen() waits for is the only one there can be.
LEMMA Alone ==
  ASSUME LinkTypes, ListensAlone, listenStep = "awaiting", AwaitedIsOver
  PROVE  closeStep = "none"
BY DEF LinkTypes, ListensAlone, AwaitedIsOver

\* Without overlap, listen() and close() keep out of each other's way.
LEMMA ListensAloneInv ==
  ASSUME ~MayOverlap, LinkTypes, ListensAlone, [Next]_vars
  PROVE  ListensAlone'
<1> USE DEF ListensAlone
<1>0. closes \in Nat
  BY DEF LinkTypes
<1>1. CASE Listen
  BY <1>1, Zenon DEF Listen, linkVars, closeVars
<1>2. CASE ListenBinds
  <2>1. closeStep = "none"
    BY <1>2, Alone DEF ListenBinds
  <2> QED
    BY <1>2, <2>1 DEF ListenBinds, closeVars
<1>3. CASE ListenFails
  <2>1. closeStep = "none"
    BY <1>3, Alone DEF ListenFails
  <2> QED
    BY <1>3, <2>1, <1>0 DEF ListenFails, StartClose
<1>4. CASE ListenReports
  BY <1>4 DEF ListenReports, linkVars, closeVars
<1>5. CASE Close
  <2>1. connected /\ listenStep = "idle"
    BY <1>5 DEF Close
  <2> QED
    BY <1>5, <2>1, <1>0 DEF Close, StartClose, listenVars
<1>6. CASE StopWaited
  BY <1>6 DEF StopWaited, listenVars, linkVars
<1>7. CASE Drained
  BY <1>7 DEF Drained, StartClosing, listenVars
<1>8. CASE GiveUp
  BY <1>8 DEF GiveUp, StartClosing, listenVars
<1>9. CASE RepliesSettle
  BY <1>9 DEF RepliesSettle, listenVars, linkVars
<1>10. CASE ReceiversClosed
  BY <1>10 DEF ReceiversClosed, listenVars
<1>11. CASE CloseConnection
  BY <1>11 DEF CloseConnection, listenVars
<1>12. CASE ConnectionClosed
  BY <1>12 DEF ConnectionClosed, listenVars
<1>13. ASSUME NEW r \in Receiver, ReceiverCloses(r) \/ SubscriptionStopped(r) PROVE ListensAlone'
  BY <1>13 DEF ReceiverCloses, SubscriptionStopped, listenVars, closeVars
<1>14. ASSUME NEW m \in Delivery, MessageStep(m) PROVE ListensAlone'
  BY <1>14, MessageFrame DEF listenVars, linkVars, closeVars
<1>15. CASE UNCHANGED vars
  BY <1>15 DEF vars, listenVars, linkVars, closeVars
<1> QED
  BY <1>1, <1>2, <1>3, <1>4, <1>5, <1>6, <1>7, <1>8, <1>9, <1>10, <1>11, <1>12, <1>13, <1>14,
     <1>15, StepShape, Zenon DEF LinkStep

(***************************************************************************)
(* OpenIsKnown and MapIsRight: the receivers, the map and their links.     *)
(***************************************************************************)

\* bindEvents() keeps what is said of the receivers, but for the links that
\* the closing of a failed listen() stops at once.
LEMMA BoundAreKnown ==
  ASSUME LinkTypes, OpenIsKnown, MapIsRight, closeStep = "none", NEW B \in SUBSET Usable, Bind(B)
  PROVE  /\ \A r \in Receiver :
              /\ r > made' => Bound(r) = "none"
              /\ Bound(r) \in {"none", "receiving", "closed"}
              /\ Bound(r) = "receiving" => receivers'[patternOf'[r]] = r
         /\ \A p \in Pattern : receivers'[p] # NoReceiver =>
              /\ receivers'[p] \in 1 .. made' /\ patternOf'[receivers'[p]] = p
              /\ Binding(declared[p]) \notin {"ignored", "error"}
              /\ Bound(receivers'[p]) = "receiving"
         /\ \A p \in B : receivers'[p] # NoReceiver
<1>1. B \in SUBSET Pattern /\ \A p \in B : receivers[p] = NoReceiver
                               /\ Binding(declared[p]) \notin {"ignored", "error"}
  BY DEF Usable, Unbound
<1>2. /\ made' \in made .. MaxReceivers
      /\ receivers' \in [Pattern -> Receiver \union {NoReceiver}]
      /\ \A p \in B : receivers'[p] \in made + 1 .. made' /\ patternOf'[receivers'[p]] = p
      /\ \A p \in Pattern \ B : receivers'[p] = receivers[p]
      /\ \A r \in Receiver \ (made + 1 .. made') : patternOf'[r] = patternOf[r]
      /\ \A r \in made + 1 .. made' : receivers'[patternOf'[r]] = r
  BY <1>1, Binds
<1>3. made \in Nat /\ made' \in Nat /\ MaxReceivers \in Nat
  BY <1>2, ServerAssumption DEF LinkTypes
<1>4. ASSUME NEW r \in Receiver
      PROVE  /\ r > made' => Bound(r) = "none"
             /\ Bound(r) \in {"none", "receiving", "closed"}
             /\ Bound(r) = "receiving" => receivers'[patternOf'[r]] = r
  <2>1. CASE r \in made + 1 .. made'
    BY <2>1, <1>2, <1>3 DEF Bound
  <2>2. CASE r \notin made + 1 .. made'
    <3>1. Bound(r) = link[r] /\ patternOf'[r] = patternOf[r] /\ patternOf[r] \in Pattern
      BY <2>2, <1>2 DEF Bound, LinkTypes
    <3>2. r > made' => r > made
      BY <1>2, <1>3 DEF Receiver
    <3>3. link[r] \in {"none", "receiving", "closed"}
      BY DEF OpenIsKnown, LinkTypes
    <3>4. ASSUME link[r] = "receiving" PROVE receivers'[patternOf[r]] = r
      <4>1. receivers[patternOf[r]] = r
        BY <3>4 DEF OpenIsKnown
      <4>2. patternOf[r] \notin B
        BY <4>1, <1>1 DEF Receiver, NoReceiver
      <4> QED
        BY <4>1, <4>2, <3>1, <1>2
    <3> QED
      BY <3>1, <3>2, <3>3, <3>4 DEF OpenIsKnown
  <2> QED
    BY <2>1, <2>2
<1>5. ASSUME NEW p \in Pattern, receivers'[p] # NoReceiver
      PROVE  /\ receivers'[p] \in 1 .. made' /\ patternOf'[receivers'[p]] = p
             /\ Binding(declared[p]) \notin {"ignored", "error"}
             /\ Bound(receivers'[p]) = "receiving"
  <2>1. CASE p \in B
    BY <2>1, <1>1, <1>2, <1>3 DEF Bound
  <2>2. CASE p \notin B
    <3>1. receivers'[p] = receivers[p]
      BY <2>2, <1>2
    <3>2. /\ receivers[p] \in 1 .. made /\ patternOf[receivers[p]] = p
          /\ Binding(declared[p]) \notin {"ignored", "error"}
          /\ link[receivers[p]] = "receiving"
      BY <3>1, <1>5 DEF MapIsRight
    <3>3. receivers[p] \in Receiver \ (made + 1 .. made') /\ receivers[p] \in 1 .. made'
      BY <3>2, <1>2, <1>3 DEF Receiver
    <3>4. patternOf'[receivers[p]] = p /\ Bound(receivers[p]) = "receiving"
      BY <3>2, <3>3, <1>2 DEF Bound
    <3> QED
      BY <3>1, <3>2, <3>3, <3>4
  <2> QED
    BY <2>1, <2>2
<1>6. \A p \in B : receivers'[p] # NoReceiver
  BY <1>2, <1>3 DEF NoReceiver
<1> QED
  BY <1>4, <1>5, <1>6

\* What a closing that starts finds and does.
LEMMA StartCloseKnown ==
  ASSUME NEW bound \in [Pattern -> Receiver \union {NoReceiver}],
         NEW links \in [Receiver -> {"none", "receiving", "stopping", "stopped", "closing", "closed"}],
         NEW of \in [Receiver -> Pattern], NEW n \in Nat,
         \A r \in Receiver :
            /\ r > n => links[r] = "none"
            /\ links[r] \in {"none", "receiving", "closed"}
            /\ links[r] = "receiving" => bound[of[r]] = r,
         \A p \in Pattern : bound[p] # NoReceiver => bound[p] \in 1 .. n /\ of[bound[p]] = p,
         StartClose(bound, links)
  PROVE  /\ closeStep' = "stopping"
         /\ \A r \in Receiver :
              /\ r > n => link'[r] = "none"
              /\ r \in active' => r <= n /\ bound[of[r]] = r
              /\ link'[r] \in {"none", "stopping", "closed"}
              /\ link'[r] = "stopping" => bound[of[r]] = r /\ r \in active'
<1>1. closeStep' = "stopping" /\ active' = {bound[p] : p \in Pattern} \ {NoReceiver}
  BY DEF StartClose
<1>2. link' = [r \in Receiver |-> IF r \in active' /\ links[r] = "receiving"
                                  THEN "stopping" ELSE links[r]]
  BY DEF StartClose
<1>3. ASSUME NEW r \in active' PROVE r \in 1 .. n /\ bound[of[r]] = r
  <2>1. PICK p \in Pattern : bound[p] = r /\ r # NoReceiver
    BY <1>1
  <2> QED
    BY <2>1
<1>4. ASSUME NEW r \in Receiver, links[r] = "receiving" PROVE r \in active'
  <2>1. bound[of[r]] = r /\ of[r] \in Pattern /\ r # NoReceiver
    BY <1>4 DEF Receiver, NoReceiver
  <2> QED
    BY <2>1, <1>1
<1>5. ASSUME NEW r \in Receiver
      PROVE  /\ r > n => link'[r] = "none"
             /\ r \in active' => r <= n /\ bound[of[r]] = r
             /\ link'[r] \in {"none", "stopping", "closed"}
             /\ link'[r] = "stopping" => bound[of[r]] = r /\ r \in active'
  <2>1. CASE links[r] = "receiving"
    BY <2>1, <1>2, <1>3, <1>4
  <2>2. CASE links[r] # "receiving"
    BY <2>2, <1>2, <1>3
  <2> QED
    BY <2>1, <2>2
<1> QED
  BY <1>1, <1>5
\* Steps keep the map of receivers in agreement with the receivers.
LEMMA ReceiversInv ==
  ASSUME ~MayOverlap, LinkTypes, ListensAlone, OpenIsKnown, MapIsRight, [Next]_vars
  PROVE  OpenIsKnown' /\ MapIsRight'
<1>0. made \in Nat
  BY DEF LinkTypes
<1>1. CASE ListenBinds
  <2>1. closeStep = "none" /\ Unbound = Usable /\ Bind(Usable)
    BY <1>1, Alone DEF ListenBinds
  <2>2. /\ link' = [r \in Receiver |-> Bound(r)]
        /\ connected' = TRUE /\ closeStep' = "none" /\ active' = active /\ declared' = declared
    BY <1>1, <2>1 DEF ListenBinds, closeVars
  <2>3. /\ \A r \in Receiver :
             /\ r > made' => Bound(r) = "none"
             /\ Bound(r) \in {"none", "receiving", "closed"}
             /\ Bound(r) = "receiving" => receivers'[patternOf'[r]] = r
        /\ \A p \in Pattern : receivers'[p] # NoReceiver =>
             /\ receivers'[p] \in 1 .. made' /\ patternOf'[receivers'[p]] = p
             /\ Binding(declared[p]) \notin {"ignored", "error"}
             /\ Bound(receivers'[p]) = "receiving"
        /\ \A p \in Usable : receivers'[p] # NoReceiver
    BY <2>1, BoundAreKnown
  <2>4. made' \in 0 .. MaxReceivers /\ MaxReceivers \in Nat
    <3>1. Usable \in SUBSET Pattern
      BY DEF Usable, Unbound
    <3> QED
      BY <3>1, <2>1, <1>0, Binds, ServerAssumption
  <2>5. OpenIsKnown'
    BY <2>2, <2>3 DEF OpenIsKnown
  <2>6. ASSUME NEW p \in Pattern, receivers'[p] # NoReceiver
        PROVE  receivers'[p] \in Receiver /\ link'[receivers'[p]] = "receiving"
    BY <2>2, <2>3, <2>4, <2>6 DEF Receiver
  <2>7. ASSUME NEW p \in Pattern PROVE p \notin Unbound'
    <3>1. CASE p \in Unbound
      BY <3>1, <2>1, <2>3 DEF Unbound
    <3>2. CASE p \notin Unbound
      <4>1. CASE Binding(declared[p]) = "ignored"
        BY <4>1, <2>2 DEF Unbound
      <4>2. CASE receivers[p] # NoReceiver
        <5>1. receivers'[p] = receivers[p]
          BY <3>2, <2>1, Binds DEF Usable, Unbound
        <5> QED
          BY <5>1, <4>2 DEF Unbound
      <4> QED
        BY <4>1, <4>2, <3>2 DEF Unbound
    <3> QED
      BY <3>1, <3>2
  <2> QED
    BY <2>2, <2>3, <2>5, <2>6, <2>7 DEF MapIsRight
<1>2. CASE ListenFails
  <2>1. closeStep = "none"
    BY <1>2, Alone DEF ListenFails
  <2>2. \/ ~connected /\ UNCHANGED <<connected, receivers, made, patternOf>>
        \/ connected' = TRUE /\ \E B \in SUBSET Usable : Bind(B)
    BY <1>2 DEF ListenFails
  <2>3. StartClose(receivers', [r \in Receiver |-> Bound(r)]) /\ declared' = declared
    BY <1>2, <2>1 DEF ListenFails
  <2>4. /\ \A r \in Receiver :
             /\ r > made' => Bound(r) = "none"
             /\ Bound(r) \in {"none", "receiving", "closed"}
             /\ Bound(r) = "receiving" => receivers'[patternOf'[r]] = r
        /\ \A p \in Pattern : receivers'[p] # NoReceiver =>
             /\ receivers'[p] \in 1 .. made' /\ patternOf'[receivers'[p]] = p
             /\ Binding(declared[p]) \notin {"ignored", "error"}
             /\ connected'
    <3>1. CASE ~connected /\ UNCHANGED <<connected, receivers, made, patternOf>>
      <4>1. \A p \in Pattern : receivers[p] = NoReceiver
        BY <3>1 DEF MapIsRight
      <4>2. \A r \in Receiver : Bound(r) = link[r] /\ link[r] \in {"none", "closed"}
        <5>1. made \in Nat /\ \A r \in Receiver : ~(r \in made + 1 .. made')
          BY <3>1, <1>0
        <5>2. \A r \in Receiver : r # NoReceiver /\ patternOf[r] \in Pattern
          BY DEF LinkTypes, Receiver, NoReceiver
        <5> QED
          BY <2>1, <4>1, <5>1, <5>2 DEF Bound, OpenIsKnown, LinkTypes
      <4> QED
        BY <3>1, <4>1, <4>2 DEF OpenIsKnown
    <3>2. CASE connected' = TRUE /\ \E B \in SUBSET Usable : Bind(B)
      BY <3>2, <2>1, BoundAreKnown
    <3> QED
      BY <2>2, <3>1, <3>2
  <2>5. /\ made' \in Nat
        /\ receivers' \in [Pattern -> Receiver \union {NoReceiver}]
        /\ patternOf' \in [Receiver -> Pattern]
    <3>1. \A B \in SUBSET Usable : B \in SUBSET Pattern
      BY DEF Usable, Unbound
    <3> QED
      BY <3>1, <2>2, <1>0, Binds DEF LinkTypes
  <2>6. /\ closeStep' = "stopping"
        /\ \A r \in Receiver :
             /\ r > made' => link'[r] = "none"
             /\ r \in active' => r <= made' /\ receivers'[patternOf'[r]] = r
             /\ link'[r] \in {"none", "stopping", "closed"}
             /\ link'[r] = "stopping" => receivers'[patternOf'[r]] = r /\ r \in active'
    BY <2>3, <2>4, <2>5, BoundTypes, StartCloseKnown
  <2> QED
    BY <2>3, <2>4, <2>6 DEF OpenIsKnown, MapIsRight
<1>3. CASE Close
  <2>1. /\ closeStep = "none" /\ connected /\ StartClose(receivers, link)
        /\ UNCHANGED <<declared, connected, receivers, made, patternOf>>
    BY <1>3 DEF Close, listenVars
  <2>2. \A r \in Receiver :
          /\ r > made => link[r] = "none"
          /\ link[r] \in {"none", "receiving", "closed"}
          /\ link[r] = "receiving" => receivers[patternOf[r]] = r
    BY <2>1 DEF OpenIsKnown, LinkTypes
  <2>3. \A p \in Pattern : receivers[p] # NoReceiver =>
          /\ receivers[p] \in 1 .. made /\ patternOf[receivers[p]] = p
          /\ Binding(declared[p]) \notin {"ignored", "error"}
    BY DEF MapIsRight
  <2>4. /\ closeStep' = "stopping"
        /\ \A r \in Receiver :
             /\ r > made => link'[r] = "none"
             /\ r \in active' => r <= made /\ receivers[patternOf[r]] = r
             /\ link'[r] \in {"none", "stopping", "closed"}
             /\ link'[r] = "stopping" => receivers[patternOf[r]] = r /\ r \in active'
    BY <2>1, <2>2, <2>3, <1>0, StartCloseKnown DEF LinkTypes
  <2> QED
    BY <2>1, <2>3, <2>4 DEF OpenIsKnown, MapIsRight
<1>4. CASE Drained \/ GiveUp
  <2>1. /\ closeStep = "draining" /\ closeStep' = "closing"
        /\ link' = [r \in Receiver |-> IF r \in active /\ link[r] # "closed" THEN "closing" ELSE link[r]]
        /\ UNCHANGED <<declared, connected, receivers, made, patternOf, active>>
    BY <1>4 DEF Drained, GiveUp, StartClosing, listenVars
  <2>2. ASSUME NEW r \in Receiver
        PROVE  /\ r > made => link'[r] = "none"
               /\ link'[r] \in {"none", "closing", "closed"}
               /\ link'[r] = "closing" => receivers[patternOf[r]] = r /\ r \in active
    <3>1. CASE r \in active
      BY <3>1, <2>1, <1>0 DEF OpenIsKnown, Receiver
    <3>2. CASE r \notin active
      BY <3>2, <2>1 DEF OpenIsKnown, LinkTypes
    <3> QED
      BY <3>1, <3>2
  <2>3. OpenIsKnown'
    BY <2>1, <2>2 DEF OpenIsKnown
  <2>4. MapIsRight'
    BY <2>1 DEF MapIsRight
  <2> QED
    BY <2>3, <2>4
<1>5. CASE ReceiversClosed
  <2>1. /\ closeStep = "closing" /\ closeStep' = "replies"
        /\ \A r \in active : link[r] = "closed"
        /\ receivers' = [p \in Pattern |-> NoReceiver]
        /\ UNCHANGED <<declared, connected, made, patternOf, active, link>>
    BY <1>5 DEF ReceiversClosed, listenVars
  <2>2. \A r \in Receiver : link[r] \in {"none", "closed"}
    BY <2>1 DEF OpenIsKnown, LinkTypes
  <2> QED
    BY <2>1, <2>2 DEF OpenIsKnown, MapIsRight
<1>6. CASE CloseConnection
  BY <1>6 DEF CloseConnection, listenVars, OpenIsKnown, MapIsRight
<1>7. CASE ConnectionClosed
  <2>1. /\ closeStep = "connection" /\ closeStep' = "none" /\ ~connected
        /\ link' = [r \in Receiver |-> IF link[r] = "none" THEN "none" ELSE "closed"]
        /\ UNCHANGED <<declared, connected, made, patternOf, receivers>>
    BY <1>7 DEF ConnectionClosed, listenVars, ListensAlone
  <2>2. \A r \in Receiver : /\ r > made => link'[r] = "none"
                            /\ link'[r] \in {"none", "closed"}
    BY <2>1 DEF OpenIsKnown
  <2>3. \A p \in Pattern : receivers[p] = NoReceiver
    BY <2>1 DEF MapIsRight
  <2> QED
    BY <2>1, <2>2, <2>3 DEF OpenIsKnown, MapIsRight
<1>8. ASSUME NEW r \in Receiver, ReceiverCloses(r) \/ SubscriptionStopped(r)
      PROVE  OpenIsKnown' /\ MapIsRight'
  <2>1. /\ link[r] \in {"closing", "stopping"} /\ closeStep # "none"
        /\ link[r] = "closing" => link'[r] = "closed"
        /\ link[r] = "stopping" => link'[r] = "stopped"
        /\ \A s \in Receiver : s # r => link'[s] = link[s]
        /\ UNCHANGED <<declared, connected, receivers, made, patternOf, active, closeStep>>
    BY <1>8 DEF ReceiverCloses, SubscriptionStopped, listenVars, closeVars, OpenIsKnown, LinkTypes
  <2>2. OpenIsKnown'
    BY <2>1 DEF OpenIsKnown
  <2>3. MapIsRight'
    BY <2>1 DEF MapIsRight, Unbound
  <2> QED
    BY <2>2, <2>3
<1>9. ASSUME UNCHANGED <<declared, connected, receivers, made, patternOf, link, active>>,
             closeStep' = closeStep \/ (closeStep = "stopping" /\ closeStep' = "draining")
      PROVE  OpenIsKnown' /\ MapIsRight'
  <2>1. OpenIsKnown'
    BY <1>9 DEF OpenIsKnown
  <2>2. MapIsRight'
    BY <1>9 DEF MapIsRight, Unbound
  <2> QED
    BY <2>1, <2>2
<1>10. CASE Listen \/ ListenReports
  BY <1>10, <1>9 DEF Listen, ListenReports, linkVars, closeVars
<1>11. CASE StopWaited \/ RepliesSettle
  BY <1>11, <1>9 DEF StopWaited, RepliesSettle, listenVars, linkVars
<1>12. ASSUME NEW m \in Delivery, MessageStep(m) PROVE OpenIsKnown' /\ MapIsRight'
  <2>1. UNCHANGED <<listenVars, linkVars, closeVars>>
    BY <1>12, MessageFrame
  <2> QED
    BY <2>1, <1>9 DEF listenVars, linkVars, closeVars
<1>13. CASE UNCHANGED vars
  BY <1>13, <1>9 DEF vars, listenVars, linkVars, closeVars
<1> QED
  BY <1>1, <1>2, <1>3, <1>4, <1>5, <1>6, <1>7, <1>8, <1>10, <1>11, <1>12, <1>13, StepShape, Zenon
     DEF LinkStep
(***************************************************************************)
(* The messages of a server that closes.                                   *)
(***************************************************************************)

\* A message arrives over a link that is known, while close() may still wait.
LEMMA Arrives ==
  ASSUME LinkTypes, OpenIsKnown, MapIsRight, ListensAlone,
         NEW r \in Receiver, NEW m \in Delivery, Receive(r, m)
  PROVE  /\ receivers[PatternOf[m]] = r
         /\ closeStep \in {"none", "stopping", "draining"}
         /\ connected
<1>1. link[r] \in {"receiving", "stopping"} /\ patternOf[r] = PatternOf[m]
  BY Zenon DEF Receive
<1>2. receivers[PatternOf[m]] = r /\ closeStep \in {"none", "stopping", "draining"}
  BY <1>1 DEF OpenIsKnown
<1>3. r # NoReceiver /\ PatternOf[m] \in Pattern
  BY ServerAssumption DEF Receiver, NoReceiver
<1>4. connected
  BY <1>2, <1>3 DEF MapIsRight
<1> QED
  BY <1>2, <1>4

\* processMessage finds the receiver that delivered the message in the map.
LEMMA SettledInv ==
  ASSUME LinkTypes, MessageTypes, ListensAlone, OpenIsKnown, MapIsRight, SettledWhereReceived,
         [Next]_vars
  PROVE  SettledWhereReceived'
<1> SUFFICES ASSUME NEW n \in Delivery, phase'[n] # "queued" PROVE settler'[n] = from'[n]
  BY DEF SettledWhereReceived
<1>1. ASSUME phase[n] # "queued", UNCHANGED <<settler, from>> PROVE settler'[n] = from'[n]
  BY <1>1 DEF SettledWhereReceived
<1>2. ASSUME NEW m \in Delivery, MessageStep(m), m # n PROVE settler'[n] = from'[n]
  BY <1>2, OthersUntouched DEF Untouched, SettledWhereReceived
<1>3. ASSUME NEW r \in Receiver, Receive(r, n) PROVE settler'[n] = from'[n]
  <2>1. from' = [from EXCEPT ![n] = r] /\ settler' = [settler EXCEPT ![n] = receivers[PatternOf[n]]]
    BY <1>3, Zenon DEF Receive
  <2> QED
    BY <2>1, <1>3, Arrives DEF MessageTypes
<1>4. CASE Deserialized(n) \/ DeserializeFails(n) \/ HandlerSettles(n) \/ EventHandled(n)
  BY <1>4, <1>1 DEF Deserialized, DeserializeFails, HandlerSettles, EventHandled, deliveryVars
<1>5. CASE Follows(n) \/ EventObservableEnds(n) \/ Settled(n)
  BY <1>5, <1>1 DEF Follows, EventObservableEnds, Settled, deliveryVars
<1>6. CASE ReplyStarts(n) \/ ReplyFails(n) \/ ResponseEnds(n)
  BY <1>6, <1>1 DEF ReplyStarts, ReplyFails, ResponseEnds, deliveryVars
<1>7. ASSUME NEW sent \in BOOLEAN, ReplySettles(n, sent) PROVE settler'[n] = from'[n]
  BY <1>7, <1>1, ReplyPhase
<1>8. CASE GiveUp
  <2>1. phase'[n] = IF n \in following /\ n \notin sending /\ phase[n] \in {"following", "replying"}
                    THEN Settlement(n, "cancelled") ELSE phase[n]
    BY <1>8 DEF GiveUp
  <2> QED
    BY <2>1, <1>1, <1>8 DEF GiveUp, deliveryVars
<1>9. CASE LinkStep
  BY <1>9, <1>1, LinkFrame DEF messageVars, deliveryVars
<1>10. CASE UNCHANGED vars
  BY <1>10, <1>1 DEF vars, messageVars, deliveryVars
<1>11. ASSUME MessageStep(n) PROVE settler'[n] = from'[n]
  BY <1>11, <1>3, <1>4, <1>5, <1>6, <1>7, Zenon DEF MessageStep
<1> QED
  BY <1>2, <1>8, <1>9, <1>10, <1>11, StepShape, Zenon

\* A handler that runs is in flight, or close() gave up on it.
IsOld(m) ==
  /\ phase[m] = "deserializing" => AsyncDeserializer
  /\ phase[m] \in {"deserializing", "handling"} /\ Counted(m) =>
       m \in inFlight \/ startedIn[m] < generation

\* A handler that is not waited for any more is of an earlier generation.
LEMMA GivenUpInv ==
  ASSUME LinkTypes, MessageTypes, GivenUpIsOld, [Next]_vars
  PROVE  GivenUpIsOld'
<1> USE DEF IsOld
<1>0. \A m \in Delivery : IsOld(m)
  BY DEF GivenUpIsOld
<1> SUFFICES ASSUME NEW n \in Delivery PROVE IsOld(n)'
  BY DEF GivenUpIsOld, Counted
<1>1. ASSUME phase'[n] = phase[n], inFlight' = inFlight, UNCHANGED <<startedIn, generation>>
      PROVE  IsOld(n)'
  BY <1>0, <1>1 DEF Counted
<1>2. ASSUME phase'[n] \notin {"deserializing", "handling"} PROVE IsOld(n)'
  BY <1>2
<1>3. ASSUME NEW m \in Delivery, MessageStep(m), m # n PROVE IsOld(n)'
  <2>1. Untouched(n) /\ UNCHANGED generation
    BY <1>3, OthersUntouched, MessageFrame DEF closeVars
  <2> QED
    BY <2>1, <1>0 DEF Untouched, Counted
<1>4. ASSUME NEW p, Goes(n, p) PROVE phase'[n] = p /\ (p \notin Over => inFlight' = inFlight)
  BY <1>4 DEF Goes, MessageTypes
<1>5. ASSUME NEW r \in Receiver, Receive(r, n) PROVE IsOld(n)'
  <2>1. /\ phase'[n] \in {"deserializing", "handling"} => n \in inFlight'
        /\ phase'[n] = "deserializing" => AsyncDeserializer
    BY <1>5, Received
  <2> QED
    BY <2>1 DEF Counted
<1>6. CASE Deserialized(n)
  <2>1. /\ phase[n] = "deserializing" /\ Goes(n, "handling") /\ CallHandler(n)
        /\ UNCHANGED closeVars
    BY <1>6 DEF Deserialized
  <2>2. phase'[n] = "handling" /\ inFlight' = inFlight
    BY <2>1, <1>4 DEF Over
  <2>3. CASE Counted(n)
    <3>1. Kind[n] # "event"
      BY <2>1, <2>3, <1>0 DEF Counted
    <3>2. startedIn'[n] = startedIn[n]
      BY <3>1, <2>1, CallTypes
    <3> QED
      BY <2>1, <2>2, <3>2, <1>0 DEF closeVars, Counted
  <2>4. CASE ~Counted(n)
    BY <2>2, <2>4 DEF Counted
  <2> QED
    BY <2>3, <2>4
<1>7. CASE DeserializeFails(n)
  BY <1>7, <1>4, <1>2, Settlements DEF DeserializeFails
<1>8. CASE HandlerSettles(n)
  BY <1>8, <1>1 DEF HandlerSettles, closeVars
<1>9. CASE EventHandled(n)
  BY <1>9, <1>4, <1>2, Settlements DEF EventHandled
<1>10. CASE Follows(n)
  <2>1. CASE GivenUp(n)
    BY <2>1, <1>10, <1>4, <1>2, Settlements DEF Follows
  <2>2. CASE ~GivenUp(n)
    <3>1. Goes(n, IF Kind[n] = "event" THEN "following" ELSE "replying")
      BY <2>2, <1>10 DEF Follows
    <3> QED
      BY <3>1, <1>4, <1>2
  <2> QED
    BY <2>1, <2>2
<1>11. CASE EventObservableEnds(n)
  BY <1>11, <1>4, <1>2, Settlements DEF EventObservableEnds
<1>12. CASE ReplyStarts(n) \/ ReplyFails(n) \/ ResponseEnds(n)
  BY <1>12, <1>1 DEF ReplyStarts, ReplyFails, ResponseEnds, deliveryVars, closeVars
<1>13. CASE Settled(n)
  BY <1>13, <1>2, SettledPhase DEF Over
<1>14. ASSUME NEW sent \in BOOLEAN, ReplySettles(n, sent) PROVE IsOld(n)'
  <2>1. UNCHANGED generation
    BY <1>14 DEF ReplySettles, closeVars
  <2> QED
    BY <2>1, <1>14, <1>1, <1>2, ReplyPhase
<1>15. CASE GiveUp
  <2>1. generation' = generation + 1 /\ generation \in Nat /\ startedIn'[n] \in 0 .. generation
    BY <1>15 DEF GiveUp, NextGeneration, deliveryVars, LinkTypes, MessageTypes
  <2>2. startedIn'[n] < generation'
    BY <2>1
  <2>3. phase'[n] = phase[n] \/ phase'[n] = "left"
    <3>1. Settlement(n, "cancelled") = "left"
      BY Settlements
    <3> QED
      BY <3>1, <1>15 DEF GiveUp
  <2> QED
    BY <2>2, <2>3, <1>0
<1>16. CASE LinkStep
  BY <1>16, <1>1, LinkFrame DEF messageVars, deliveryVars
<1>17. CASE UNCHANGED vars
  BY <1>17, <1>1 DEF vars, messageVars, deliveryVars, closeVars
<1>18. ASSUME MessageStep(n) PROVE IsOld(n)'
  BY <1>18, <1>5, <1>6, <1>7, <1>8, <1>9, <1>10, <1>11, <1>12, <1>13, <1>14, Zenon DEF MessageStep
<1> QED
  BY <1>3, <1>15, <1>16, <1>17, <1>18, StepShape, Zenon

\* Once close() waits for nothing any more, a handler that returns is found to
\* be given up: nothing is followed anew.
LEMMA NothingStarts ==
  ASSUME LinkTypes, MessageTypes, ListensAlone, OpenIsKnown, MapIsRight, GivenUpIsOld,
         closeStep \in {"closing", "replies", "connection"} \/ (closeStep = "none" /\ ~connected),
         inFlight = {}, \A n \in following : ~Counted(n),
         NEW m \in Delivery, MessageStep(m)
  PROVE  /\ inFlight' = {} /\ \A n \in following' : ~Counted(n)
         /\ sending' \subseteq sending
<1>0. following \subseteq Delivery /\ generation \in Nat
  BY DEF MessageTypes, LinkTypes
<1>1. ASSUME inFlight' \subseteq inFlight, following' \subseteq following, sending' \subseteq sending
      PROVE  /\ inFlight' = {} /\ \A n \in following' : ~Counted(n)
             /\ sending' \subseteq sending
  BY <1>1
<1>2. ASSUME NEW p, Goes(m, p) PROVE inFlight' \subseteq inFlight
  BY <1>2 DEF Goes
<1>3. ASSUME NEW r \in Receiver, Receive(r, m) PROVE FALSE
  BY <1>3, Arrives
<1>4. CASE Deserialized(m) \/ DeserializeFails(m) \/ EventHandled(m)
  BY <1>4, <1>1, <1>2 DEF Deserialized, DeserializeFails, EventHandled
<1>5. CASE HandlerSettles(m) \/ ResponseEnds(m) \/ ReplyFails(m)
  BY <1>5, <1>1 DEF HandlerSettles, ResponseEnds, ReplyFails
<1>6. CASE Follows(m)
  <2>1. CASE GivenUp(m)
    BY <2>1, <1>6, <1>1, <1>2 DEF Follows
  <2>2. CASE ~GivenUp(m)
    <3>1. /\ Goes(m, IF Kind[m] = "event" THEN "following" ELSE "replying")
          /\ following' = following \union {m} /\ sending' = sending /\ phase[m] = "handling"
      BY <2>2, <1>6 DEF Follows
    <3>2. inFlight' \subseteq inFlight
      BY <3>1, <1>2
    <3>3. ~Counted(m)
      BY <3>1, <2>2, <1>0 DEF GivenUp, GivenUpIsOld
    <3> QED
      BY <3>1, <3>2, <3>3
  <2> QED
    BY <2>1, <2>2
<1>7. CASE EventObservableEnds(m) \/ Settled(m)
  <2>1. \E p : Goes(m, p)
    BY <1>7, Zenon DEF EventObservableEnds, Settled
  <2> QED
    BY <2>1, <1>7, <1>1, <1>2 DEF EventObservableEnds, Settled
<1>8. CASE ReplyStarts(m)
  BY <1>8 DEF ReplyStarts, Counted
<1>9. ASSUME NEW sent \in BOOLEAN, ReplySettles(m, sent)
      PROVE  /\ inFlight' = {} /\ \A n \in following' : ~Counted(n)
             /\ sending' \subseteq sending
  BY <1>9, <1>1, ReplyPhase
<1> QED
  BY <1>3, <1>4, <1>5, <1>6, <1>7, <1>8, <1>9, Zenon DEF MessageStep
\* Once close() waited for the messages in flight, no message starts anything.
LEMMA QuietInv ==
  ASSUME LinkTypes, MessageTypes, ListensAlone, OpenIsKnown, MapIsRight, GivenUpIsOld,
         QuietAfterWait, [Next]_vars
  PROVE  QuietAfterWait'
<1> USE DEF QuietAfterWait, Counted
<1>1. ASSUME UNCHANGED <<inFlight, following>>,
             \/ UNCHANGED <<closeStep, connected>>
             \/ closeStep \in {"closing", "replies", "connection"}
             \/ closeStep' \in {"stopping", "draining"}
             \/ closeStep' = "none" /\ connected'
      PROVE  QuietAfterWait'
  BY <1>1
<1>2. CASE Listen \/ ListenReports
  BY <1>2, <1>1 DEF Listen, ListenReports, linkVars, closeVars, messageVars
<1>3. CASE ListenBinds
  <2>1. closeStep = "none"
    BY <1>3, Alone DEF ListenBinds
  <2> QED
    BY <1>3, <2>1, <1>1 DEF ListenBinds, closeVars, messageVars
<1>4. CASE ListenFails
  <2>1. closeStep = "none"
    BY <1>4, Alone DEF ListenFails
  <2> QED
    BY <1>4, <2>1, <1>1 DEF ListenFails, StartClose, messageVars
<1>5. CASE Close
  BY <1>5, <1>1 DEF Close, StartClose, messageVars
<1>6. CASE StopWaited
  BY <1>6, <1>1 DEF StopWaited, messageVars
<1>7. CASE Drained \/ GiveUp
  BY <1>7 DEF Drained, GiveUp, messageVars
<1>8. CASE RepliesSettle
  BY <1>8, <1>1 DEF RepliesSettle, linkVars, messageVars
<1>9. CASE ReceiversClosed \/ CloseConnection \/ ConnectionClosed
  BY <1>9, <1>1 DEF ReceiversClosed, CloseConnection, ConnectionClosed, messageVars
<1>10. ASSUME NEW r \in Receiver, ReceiverCloses(r) \/ SubscriptionStopped(r)
       PROVE  QuietAfterWait'
  BY <1>10, <1>1 DEF ReceiverCloses, SubscriptionStopped, closeVars, messageVars
<1>11. ASSUME NEW m \in Delivery, MessageStep(m) PROVE QuietAfterWait'
  <2>1. UNCHANGED <<closeStep, connected>>
    BY <1>11, MessageFrame DEF linkVars, closeVars
  <2>2. CASE closeStep \in {"closing", "replies", "connection"} \/ (closeStep = "none" /\ ~connected)
    <3>1. inFlight = {} /\ \A n \in following : ~Counted(n)
      BY <2>2
    <3>2. inFlight' = {} /\ \A n \in following' : ~Counted(n)
      BY <3>1, <2>2, <1>11, NothingStarts
    <3> QED
      BY <3>2
  <2>3. CASE ~(closeStep \in {"closing", "replies", "connection"} \/ (closeStep = "none" /\ ~connected))
    BY <2>1, <2>3
  <2> QED
    BY <2>2, <2>3
<1>12. CASE UNCHANGED vars
  BY <1>12, <1>1 DEF vars, linkVars, closeVars, messageVars
<1> QED
  BY <1>2, <1>3, <1>4, <1>5, <1>6, <1>7, <1>8, <1>9, <1>10, <1>11, <1>12, StepShape, Zenon
     DEF LinkStep

\* Steps keep what settleReplies() achieved until the connection is closed.
LEMMA RepliesInv ==
  ASSUME LinkTypes, MessageTypes, ListensAlone, OpenIsKnown, MapIsRight, GivenUpIsOld,
         QuietAfterWait, RepliesAreSettled, [Next]_vars
  PROVE  RepliesAreSettled'
<1> USE DEF RepliesAreSettled
<1>1. ASSUME UNCHANGED <<sending, repliesStep, replyAbort>>,
             closeStep' = closeStep \/ closeStep' \notin {"closing", "replies"}
               \/ (closeStep = "closing" /\ closeStep' = "replies")
      PROVE  RepliesAreSettled'
  BY <1>1
<1>2. CASE Listen \/ ListenReports
  BY <1>2, <1>1 DEF Listen, ListenReports, closeVars, messageVars
<1>3. CASE ListenBinds
  BY <1>3, <1>1 DEF ListenBinds, closeVars, messageVars
<1>4. CASE ListenFails
  BY <1>4, <1>1 DEF ListenFails, StartClose, closeVars, messageVars
<1>5. CASE Close
  BY <1>5, <1>1 DEF Close, StartClose, messageVars
<1>6. CASE StopWaited
  BY <1>6, <1>1 DEF StopWaited, messageVars
<1>7. CASE Drained \/ GiveUp
  <2>1. sending' = sending /\ (repliesStep' = IF sending = {} THEN "done" ELSE "waiting")
    BY <1>7 DEF Drained, GiveUp, StartClosing, messageVars
  <2> QED
    BY <2>1
<1>8. CASE RepliesSettle
  <2>1. /\ repliesStep \in {"waiting", "cancelled"} /\ sending' = sending /\ closeStep' = closeStep
        /\ repliesStep' = IF sending = {} \/ repliesStep = "cancelled" THEN "done" ELSE "cancelled"
        /\ replyAbort' <=> replyAbort \/ repliesStep' = "cancelled"
    BY <1>8, Zenon DEF RepliesSettle, messageVars
  <2> QED
    BY <2>1, Zenon
<1>9. CASE ReceiversClosed \/ CloseConnection \/ ConnectionClosed
  BY <1>9, <1>1 DEF ReceiversClosed, CloseConnection, ConnectionClosed, messageVars
<1>10. ASSUME NEW r \in Receiver, ReceiverCloses(r) \/ SubscriptionStopped(r)
       PROVE  RepliesAreSettled'
  BY <1>10, <1>1 DEF ReceiverCloses, SubscriptionStopped, closeVars, messageVars
<1>11. ASSUME NEW m \in Delivery, MessageStep(m) PROVE RepliesAreSettled'
  <2>1. UNCHANGED <<closeStep, repliesStep, replyAbort>>
    BY <1>11, MessageFrame DEF closeVars
  <2>2. CASE closeStep \in {"closing", "replies"}
    <3>1. sending' \subseteq sending
      BY <2>2, <1>11, NothingStarts DEF QuietAfterWait
    <3> QED
      BY <3>1, <2>1
  <2>3. CASE closeStep \notin {"closing", "replies"}
    BY <2>1, <2>3
  <2> QED
    BY <2>2, <2>3
<1>12. CASE UNCHANGED vars
  BY <1>12, <1>1 DEF vars, closeVars, messageVars
<1> QED
  BY <1>2, <1>3, <1>4, <1>5, <1>6, <1>7, <1>8, <1>9, <1>10, <1>11, <1>12, StepShape, Zenon
     DEF LinkStep

(***************************************************************************)
(* The theorems for an application that does not call close() before       *)
(* listen() is done.                                                       *)
(***************************************************************************)

\* The invariant holds before listen() is called.
LEMMA InitClosing ==
  ASSUME Init
  PROVE  ClosingInv
<1>1. MessagesInv
  BY InitMessages
<1>2. ListensAlone /\ OpenIsKnown /\ MapIsRight
  <2>1. \A p \in Pattern : receivers[p] = NoReceiver
    BY DEF Init
  <2>2. \A r \in Receiver : link[r] = "none"
    BY DEF Init
  <2>3. closeStep = "none" /\ listenStep = "idle" /\ ~connected /\ active = {}
    BY DEF Init
  <2> QED
    BY <2>1, <2>2, <2>3 DEF ListensAlone, OpenIsKnown, MapIsRight
<1>3. GivenUpIsOld /\ SettledWhereReceived
  BY DEF Init, GivenUpIsOld, SettledWhereReceived
<1>4. QuietAfterWait /\ RepliesAreSettled
  BY DEF Init, QuietAfterWait, RepliesAreSettled
<1> QED
  BY <1>1, <1>2, <1>3, <1>4 DEF ClosingInv

\* The inductive invariant of listen() and close() holds for any application,
\* any messages and any options.
THEOREM ClosingInvariant ==
  ASSUME ~MayOverlap
  PROVE  Spec => []ClosingInv
<1>1. Init => ClosingInv
  BY InitClosing
<1>2. ASSUME ClosingInv, [Next]_vars PROVE ClosingInv'
  <2>1. /\ LinkTypes /\ MessageTypes /\ NotGivenUp /\ Followed
        /\ ListensAlone /\ OpenIsKnown /\ MapIsRight /\ GivenUpIsOld /\ QuietAfterWait
        /\ RepliesAreSettled /\ SettledWhereReceived
    BY <1>2 DEF ClosingInv, MessagesInv
  <2>2. MessagesInv'
    BY <1>2, <2>1, LinkTypesInv, NotGivenUpInv, MessageTypesInv, FollowedStep DEF MessagesInv
  <2>3. ListensAlone' /\ OpenIsKnown' /\ MapIsRight'
    BY <1>2, <2>1, ListensAloneInv, ReceiversInv
  <2>4. SettledWhereReceived' /\ GivenUpIsOld'
    BY <1>2, <2>1, SettledInv, GivenUpInv
  <2>5. QuietAfterWait' /\ RepliesAreSettled'
    BY <1>2, <2>1, QuietInv, RepliesInv
  <2> QED
    BY <2>2, <2>3, <2>4, <2>5 DEF ClosingInv
<1> QED
  BY <1>1, <1>2, PTL DEF Spec

\* No receiver is forgotten.
THEOREM NoReceiverForgotten ==
  ASSUME ~MayOverlap
  PROVE  Spec => []ReceiversAreKnown
<1>1. ClosingInv => ReceiversAreKnown
  BY DEF ClosingInv, OpenIsKnown, ReceiversAreKnown
<1> QED
  BY <1>1, ClosingInvariant, PTL

\* A message is settled with the receiver that delivered it.
THEOREM SettlesWhereReceived ==
  ASSUME ~MayOverlap
  PROVE  Spec => []SettledWhereReceived
<1>1. ClosingInv => SettledWhereReceived
  BY DEF ClosingInv
<1> QED
  BY <1>1, ClosingInvariant, PTL

\* bindEvents() ignores the handlers of other transports, and them only.
LEMMA IgnoresOthers ==
  ASSUME NEW d
  PROVE  Binding(d) = "ignored" <=> ~(d.declaredHere \/ HasOptions(d))
<1>1. CreateReceiver(d) \in {"queue", "subscription", "topic as queue", "error"}
  BY Zenon DEF CreateReceiver
<1>2. CASE d.declaredHere \/ HasOptions(d)
  <2>1. ParsePattern(d) \in {"options", "error"}
    BY <1>2, Zenon DEF ParsePattern
  <2> QED
    BY <1>1, <1>2, <2>1 DEF Binding
<1>3. CASE ~(d.declaredHere \/ HasOptions(d))
  <2>1. ParsePattern(d) = "ignored"
    BY <1>3, Zenon DEF ParsePattern
  <2> QED
    BY <1>3, <2>1 DEF Binding
<1> QED
  BY <1>2, <1>3

\* A server that listens receives for every handler of this transport, and for
\* no other.
THEOREM HandlersAreReceivedFor ==
  ASSUME ~MayOverlap
  PROVE  Spec => []HandlersAreServed
<1>1. ASSUME ClosingInv, connected, closeStep = "none", NEW p \in Pattern
      PROVE  IF declared[p].declaredHere \/ HasOptions(declared[p])
             THEN receivers[p] # NoReceiver /\ link[receivers[p]] = "receiving"
             ELSE receivers[p] = NoReceiver
  <2>1. /\ p \notin Unbound
        /\ receivers[p] # NoReceiver =>
             Binding(declared[p]) # "ignored" /\ link[receivers[p]] = "receiving"
    BY <1>1 DEF ClosingInv, MapIsRight
  <2>2. CASE Binding(declared[p]) = "ignored"
    BY <2>1, <2>2, IgnoresOthers
  <2>3. CASE Binding(declared[p]) # "ignored"
    BY <2>1, <2>3, IgnoresOthers DEF Unbound
  <2> QED
    BY <2>2, <2>3
<1>2. ClosingInv => HandlersAreServed
  BY <1>1 DEF HandlersAreServed
<1> QED
  BY <1>2, ClosingInvariant, PTL

\* With a deserializer that returns no promises, nothing goes on after close().
THEOREM QuietWhenClosed ==
  ASSUME ~MayOverlap, ~AsyncDeserializer
  PROVE  Spec => []ClosedIsQuiet
<1>1. ClosingInv => ClosedIsQuiet
  BY DEF ClosingInv, QuietAfterWait, Counted, ClosedIsQuiet
<1> QED
  BY <1>1, ClosingInvariant, PTL

\* The connection is closed under no reply that close() did not cancel.
THEOREM ClosedAfterReplies ==
  ASSUME ~MayOverlap
  PROVE  Spec => NotClosedUnderReplies
<1>1. ASSUME ClosingInv, [Next]_vars, connected, ~connected'
      PROVE  sending = {} \/ replyAbort
  <2>1. CloseConnection
    <3>1. ~UNCHANGED connected
      BY <1>1
    <3>2. ~(Listen \/ ListenReports \/ Close \/ StopWaited \/ Drained \/ GiveUp)
      BY <3>1 DEF Listen, ListenReports, Close, StopWaited, Drained, GiveUp, linkVars
    <3>3. ~(ListenBinds \/ ListenFails)
      BY <1>1 DEF ListenBinds, ListenFails
    <3>4. ~(RepliesSettle \/ ReceiversClosed \/ ConnectionClosed)
      BY <3>1 DEF RepliesSettle, ReceiversClosed, ConnectionClosed, linkVars
    <3>5. \A r \in Receiver : ~(ReceiverCloses(r) \/ SubscriptionStopped(r))
      BY <3>1 DEF ReceiverCloses, SubscriptionStopped
    <3>6. \A m \in Delivery : ~MessageStep(m)
      BY <3>1, MessageFrame DEF linkVars
    <3>7. ~UNCHANGED vars
      BY <3>1 DEF vars, linkVars
    <3> QED
      BY <1>1, <3>2, <3>3, <3>4, <3>5, <3>6, <3>7, StepShape, Zenon DEF LinkStep
  <2> QED
    BY <1>1, <2>1 DEF ClosingInv, RepliesAreSettled, CloseConnection
<1>2. ClosingInv /\ [Next]_vars => [connected /\ ~connected' => sending = {} \/ replyAbort]_vars
  BY <1>1
<1> QED
  BY <1>2, ClosingInvariant, PTL DEF Spec, NotClosedUnderReplies
===============================================================================
