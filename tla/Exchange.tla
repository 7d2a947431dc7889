------------------------------- MODULE Exchange -------------------------------
(***************************************************************************)
(* A request and its response from end to end: publish() of the client     *)
(* (lib/client/azure-service-bus.client.ts), the response of the server    *)
(* (ReplyStream), the reply queue, processMessage of the ReplyRouter with  *)
(* the completion of each reply, the chain `delivering` that hands replies *)
(* to an asynchronous deserializer, and the caller's Observable.           *)
(*                                                                         *)
(* One delivery of the request; with reply sessions, where the broker      *)
(* delivers the replies in order and one at a time.                        *)
(*                                                                         *)
(* External: the broker, the deserializer, Nest's observer, a server       *)
(* before 1.2.0.  The completion of a reply that fails is delivered again, *)
(* up to the max delivery count of the queue; it may also fail after the   *)
(* broker removed the reply; and a reply may expire in the queue           *)
(* (replyTimeToLiveInMs).  These losses are LosesReply.                    *)
(***************************************************************************)
EXTENDS Integers, Sequences, FiniteSets, ReplyWire

CONSTANTS
  MaxValues,   \* bound: how many values the response has at most
  Payload      \* what is sent: records [value, error, ownMessageId]

ASSUME PayloadAssumption ==
  /\ MaxValues \in Nat
  /\ \A p \in Payload : /\ p.value \in {"undefined", "null", "falsy", "object"}
                        /\ p.error \in {"undefined", "null", "falsy", "object", "Error"}
                        /\ p.ownMessageId \in BOOLEAN

VARIABLES
  \* the response: the variables of ReplyStream
  singleReply, source, emitted, batch, ending, queue, chain, failed, stopped, byClose,
  cancelled, replied, first, ended, gaveUp, result, sent, confirmed,
  \* the request
  payload,     \* what the handler's values and its error are, whose messageId
  oldServer,   \* the server is one before 1.2.0
  request,     \* "none", then its send: "sending", "sent", "failed"
  arrived,     \* it reached the server
  \* the reply queue and the client
  wire,        \* the messages of the replies `sent`
  taken,       \* how many of them left the queue
  completing,  \* processMessage waits for the completion of the next one
  lost,        \* those that left the queue without reaching processMessage's end
  delivering,  \* the chain: those whose turn to be delivered is not over
  got,         \* what the caller got: [value, payload]
  outcome      \* of its Observable: "open", "completed", "failed", "left"

S == INSTANCE ReplyStream

streamVars == <<batch, ending, queue, chain, failed, stopped, byClose, cancelled, replied,
                first, ended, gaveUp, result, confirmed>>
responseVars == <<singleReply, source, emitted, streamVars, sent>>
requestVars == <<payload, oldServer, request, arrived>>
replyVars == <<taken, completing, lost, delivering>>
callerVars == <<got, outcome>>
vars == <<responseVars, requestVars, wire, replyVars, callerVars>>

Message == ToRequest(payload.ownMessageId)

\* A server before 1.2.0 answers the messageId: it has to be the request id.
\* (It knows no reply sessions; its one reply is in order without them.)
Init ==
  /\ payload \in Payload
  /\ S!Init /\ singleReply = IsSingleReply(Message)
  /\ oldServer \in BOOLEAN /\ (oldServer => Message.messageId = "id")
  /\ request = "none" /\ arrived = FALSE
  /\ wire = <<>> /\ taken = 0 /\ completing = FALSE /\ lost = {}
  /\ delivering = <<>>
  /\ got = <<>> /\ outcome = "open"

-----------------------------------------------------------------------------
(* The request *)

\* The callback gets an error, or the caller unsubscribes: the Observable is
\* over and its teardown stops the timer and the waiting.
CallEnds(how) == outcome' = IF outcome = "open" THEN how ELSE outcome

\* publish(): the request waits for its replies and is being sent ...
Publish ==
  /\ request = "none" /\ outcome = "open"
  /\ request' = "sending"
  /\ UNCHANGED <<responseVars, payload, oldServer, arrived, wire, replyVars, callerVars>>

\* ... or the pattern, the serializer or a message batch makes it throw.
PublishThrows ==
  /\ request = "none" /\ outcome = "open"
  /\ CallEnds("failed")
  /\ UNCHANGED <<responseVars, requestVars, wire, replyVars, got>>

RequestArrives ==
  /\ request = "sending" /\ ~arrived
  /\ arrived' = TRUE
  /\ UNCHANGED <<responseVars, payload, oldServer, request, wire, replyVars, callerVars>>

RequestSent ==
  /\ request = "sending" /\ arrived
  /\ request' = "sent"
  /\ UNCHANGED <<responseVars, payload, oldServer, arrived, wire, replyVars, callerVars>>

\* It failed, or close() cancelled it: it may have arrived all the same.
RequestFails ==
  /\ request = "sending"
  /\ request' = "failed"
  /\ CallEnds("failed")
  /\ UNCHANGED <<responseVars, payload, oldServer, arrived, wire, replyVars, got>>

-----------------------------------------------------------------------------
(* The server *)

\* The packet that the server publishes for the reply p of the response.
PacketOf(p) ==
  WritePacket(IF ~p.err THEN Absent
              ELSE IF chain = "errorReply" THEN "unknown" ELSE ToReplyError(payload.error),
              IF p.value = 0 THEN Absent ELSE payload.value,
              p.end)

Published ==
  wire' = IF Len(sent') > Len(sent)
          THEN Append(wire, Publisher(ReplyCorrelation(Message), PacketOf(Last(sent'))))
          ELSE wire

Responds ==
  /\ ~oldServer
  /\ \/ arrived /\ S!Start
     \/ S!Emit \/ S!Complete \/ S!Fail
     \/ S!TickEnds \/ S!Publish \/ S!Skip \/ S!Return \/ S!GiveUp
     \/ S!Settles
  /\ Published
  /\ UNCHANGED <<requestVars, replyVars, callerVars>>

\* A server before 1.2.0 answers with the one value of its response.
OldServerResponds ==
  /\ oldServer /\ arrived
  /\ sent = <<>> /\ MaxValues > 0
  /\ source' = "completed" /\ emitted' = 1
  /\ sent' = <<[S!Value(1) EXCEPT !.end = TRUE]>>
  /\ wire' = <<OldReply(Message, payload.value)>>
  /\ UNCHANGED <<singleReply, streamVars, requestVars, replyVars, callerVars>>

-----------------------------------------------------------------------------
(* The reply queue and processMessage *)

ProcessMessage ==
  /\ ~completing /\ taken < Len(sent)
  /\ completing' = TRUE
  /\ UNCHANGED <<responseVars, requestVars, wire, taken, lost, delivering, callerVars>>

\* The reply goes to the request with its correlationId, if that still waits.
HandsOver ==
  delivering' = IF outcome = "open" /\ wire[taken + 1].correlationId = "id"
                THEN Append(delivering, taken + 1) ELSE delivering

Completed ==
  /\ completing
  /\ completing' = FALSE
  /\ taken' = taken + 1
  /\ HandsOver
  /\ UNCHANGED <<responseVars, requestVars, wire, lost, callerVars>>

\* Mutant: the reply is handed over whether or not it could be completed.
DeliversUnsettled ==
  /\ completing
  /\ completing' = FALSE
  /\ HandsOver
  /\ UNCHANGED <<responseVars, requestVars, wire, taken, lost, callerVars>>

\* The lock was lost or the broker did not answer: delivered again.
CompletionFails ==
  /\ completing
  /\ completing' = FALSE
  /\ UNCHANGED <<responseVars, requestVars, wire, taken, lost, delivering, callerVars>>

LosesReply ==
  /\ taken < Len(sent)
  /\ completing' = FALSE
  /\ taken' = taken + 1
  /\ lost' = lost \union {taken + 1}
  /\ UNCHANGED <<responseVars, requestVars, wire, delivering, callerVars>>

-----------------------------------------------------------------------------
(* The chain `delivering` and the caller *)

\* Mutant: the replies are deserialized side by side.
AnyTurn == DOMAIN delivering

\* Whose deserializer runs: the first, the others wait for it.
Turn == {i \in DOMAIN delivering : i = 1}

\* What the caller got, with the number of the value.
Labelled(payloads, n) ==
  got' = got \o [i \in 1 .. Len(payloads) |-> [value |-> n, payload |-> payloads[i]]]

DeserializedAt(i) ==
  \E packet \in Deserialized(ReadReply(wire[delivering[i]])) :
    LET caller == Delivered([got |-> <<>>, outcome |-> outcome], packet)
    IN  /\ outcome' = caller.outcome
        /\ Labelled(caller.got, sent[delivering[i]].value)

Deliver ==
  /\ \E i \in Turn : DeserializedAt(i) /\ delivering' = RemoveAt(delivering, i)
  /\ UNCHANGED <<responseVars, requestVars, wire, taken, completing, lost>>

\* Mutant: the chain has no catch: a rejection ends it without a word.
ChainBreaks ==
  /\ delivering # <<>>
  /\ delivering' = <<>>
  /\ UNCHANGED <<responseVars, requestVars, wire, taken, completing, lost, callerVars>>

DeserializeFails ==
  /\ \E i \in Turn : delivering' = RemoveAt(delivering, i)
  /\ CallEnds("failed")
  /\ UNCHANGED <<responseVars, requestVars, wire, taken, completing, lost, got>>

\* replyTimeoutInMs passed, the listener failed or the client was closed.
CallFails ==
  /\ request # "none" /\ outcome = "open"
  /\ CallEnds("failed")
  /\ UNCHANGED <<responseVars, requestVars, wire, replyVars, got>>

Unsubscribe ==
  /\ outcome = "open"
  /\ CallEnds("left")
  /\ UNCHANGED <<responseVars, requestVars, wire, replyVars, got>>

-----------------------------------------------------------------------------

Next ==
  \/ Publish \/ PublishThrows \/ RequestArrives \/ RequestSent \/ RequestFails
  \/ Responds \/ OldServerResponds
  \/ ProcessMessage \/ Completed \/ CompletionFails \/ LosesReply
  \/ Deliver \/ DeserializeFails
  \/ CallFails \/ Unsubscribe

Spec == Init /\ [][Next]_vars

\* The event loop runs and the SDK's sends settle (as in ReplyStream), the
\* broker delivers, a completion does not fail more often than the max
\* delivery count, and the deserializer settles.
Fairness ==
  /\ WF_vars(Responds /\ S!TickEnds) /\ WF_vars(Responds /\ (S!Publish \/ S!Skip))
  /\ WF_vars(Responds /\ S!Return) /\ WF_vars(Responds /\ S!Settles)
  /\ WF_vars(ProcessMessage) /\ SF_vars(Completed \/ LosesReply)
  /\ WF_vars(Deliver \/ DeserializeFails)

FairSpec == Spec /\ Fairness

-----------------------------------------------------------------------------
(* Properties *)

\* Every variable has its type; each reply sent has its message, and none is
\* taken that was not sent.
TypeOK ==
  /\ S!TypeOK
  /\ payload \in Payload /\ oldServer \in BOOLEAN
  /\ request \in {"none", "sending", "sent", "failed"} /\ arrived \in BOOLEAN
  /\ Len(wire) = Len(sent)
  /\ taken \in 0 .. Len(sent)
  /\ completing \in BOOLEAN
  /\ lost \subseteq 1 .. taken
  /\ ToSet(delivering) \subseteq (1 .. taken) \ lost
  /\ outcome \in {"open", "completed", "failed", "left"}

\* A falsy error (of an exception filter of the application) is sent as the
\* end of the response, as Nest's own observer would take it.
ReadsAsCompleted ==
  source = "completed" \/ (source = "errored" /\ ToReplyError(payload.error) = "falsy")

\* The response, the losses and the caller as Response sees them.
Over ==
  IF ReadsAsCompleted THEN "completed" ELSE IF source = "errored" THEN "errored" ELSE "no"
LostValues == {sent[i].value : i \in lost} \ {0}
GotValues == [i \in DOMAIN got |-> got[i].value]

Promise ==
  INSTANCE Response
    WITH produced <- emitted, over <- Over, lost <- LostValues, got <- GotValues

\* Whatever the batching, failed sends, redelivered replies, slow or failing
\* deserializers, timeouts and close() calls, the caller sees what Response
\* promises: values in order, each once, and no completion of a cut response.
ImplementsResponse == Promise!Spec

\* A value arrives as what it was: JSON turns undefined into null and nothing
\* else, whatever the reply that carried it (value, last value, old server).
ValuesIntact ==
  \A i \in DOMAIN got :
    IF Nullish(payload.value) THEN Nullish(got[i].payload) ELSE got[i].payload = payload.value

\* While the caller waits, a reply that was removed from the queue is on its
\* way to it or was seen by it: settling before delivering forgets none.
TakenIsAccountedFor ==
  outcome = "open" => taken - Cardinality(lost) = Len(delivering) + Len(got)

\* A response that ended ends the call, however long the deserializer takes and
\* however often a reply is delivered again, also when a reply failed and an
\* error went out in its place; unless no end could be sent, close() cut the
\* response, or a message with an end was lost.
CallIsAnswered ==
  (source \in {"completed", "errored"})
     ~> (outcome # "open" \/ S!EndNotSent \/ byClose \/ \E i \in lost : sent[i].end)
=============================================================================
