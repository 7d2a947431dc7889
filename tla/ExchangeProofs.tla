---------------------------- MODULE ExchangeProofs ----------------------------
(***************************************************************************)
(* Theorems about Exchange, for every number of values and every payload:  *)
(* among them that it implements Response.                                 *)
(***************************************************************************)
EXTENDS Exchange, SequenceTheorems, FiniteSetTheorems, TLAPS

R == INSTANCE ReplyStreamProofs

(***************************************************************************)
(* The inductive invariant, in named parts.                                *)
(***************************************************************************)

\* What a server before 1.2.0 sends.
OnlyReply == [S!Value(1) EXCEPT !.end = TRUE]

\* The response is one of ReplyStream, or the one reply of an old server, which
\* answers the messageId.
OneResponse ==
  /\ ~singleReply
  /\ oldServer => Message.messageId = "id"
  /\ ~oldServer => R!StreamInv
  /\ oldServer =>
       \/ sent = <<>> /\ source = "none" /\ emitted = 0
       \/ sent = <<OnlyReply>> /\ source = "completed" /\ emitted = 1

\* What the packet that is read from the message of a reply does to a caller.
Shows(packet) == Delivered([got |-> <<>>, outcome |-> "open"], packet)

Same(response) ==
  /\ response \in {"undefined", "null", "falsy", "object"}
  /\ IF Nullish(payload.value) THEN Nullish(response) ELSE response = payload.value

\* The message of a value shows this value, and the end if it carries that; the
\* message of an end shows an end, and a completion only where the response has
\* one or an error that reads as one.
Faithful(i, packet) ==
  IF sent[i].value # 0
  THEN /\ Shows(packet) = [got |-> <<packet.response>>,
                           outcome |-> IF sent[i].end THEN "completed" ELSE "open"]
       /\ Same(packet.response)
  ELSE /\ Shows(packet).got = <<>> /\ Shows(packet).outcome \in {"completed", "failed"}
       /\ Shows(packet).outcome = "completed" /\ sent[i].err =>
            /\ R!Proper(sent[i], i, source, emitted)
            /\ ToReplyError(payload.error) = "falsy"

ReplyMessage ==
  [correlationId : {"id"}, type : {"response", "error", "none", Absent},
   disposed : BOOLEAN, body : {"null", "falsy", "object", "unknown"}]

\* Each message goes to the request and shows its reply.
WireIsSent ==
  /\ wire \in Seq(ReplyMessage)
  /\ \A i \in 1 .. Len(sent) :
       \A packet \in Deserialized(ReadReply(wire[i])) : Faithful(i, packet)

Got == [value : 1 .. MaxValues, payload : {"undefined", "null", "falsy", "object"}]

\* The caller got values that were taken from the queue; the replies still to be
\* delivered are in order.
InOrder ==
  /\ got \in Seq(Got)
  /\ \A k \in 1 .. Len(got) :
       /\ got[k].value \in (1 .. taken) \ lost
       /\ sent[got[k].value].value = got[k].value
       /\ Same(got[k].payload)
  /\ delivering \in Seq(Nat)
  /\ \A a, b \in 1 .. Len(delivering) : a < b => delivering[a] < delivering[b]

\* While the caller waits, each reply that was taken and not lost is a value it
\* has, or comes after these.
NoneForgotten ==
  outcome = "open" =>
    /\ \A k \in 1 .. Len(got), a \in 1 .. Len(delivering) : got[k].value < delivering[a]
    /\ \A i \in (1 .. taken) \ lost :
         \/ \E k \in 1 .. Len(got) : got[k].value = i
         \/ \E a \in 1 .. Len(delivering) : delivering[a] = i

\* Only a reply that is in the queue is being completed.
CompletesOne == completing => taken < Len(sent)

ExchangeInv ==
  /\ TypeOK
  /\ OneResponse
  /\ CompletesOne
  /\ WireIsSent
  /\ InOrder
  /\ NoneForgotten
  /\ TakenIsAccountedFor

-----------------------------------------------------------------------------
(* The wire *)

\* What the observer makes of the packet of a value: one callback, or two.
LEMMA ValuePacketShown ==
  ASSUME NEW r \in {"undefined", "null", "falsy", "object"}, NEW end \in BOOLEAN
  PROVE  Shows(WritePacket(Absent, r, end)) =
           [got |-> <<r>>, outcome |-> IF end THEN "completed" ELSE "open"]
<1> DEFINE open == [got |-> <<>>, outcome |-> "open"]
           packet == WritePacket(Absent, r, end)
<1>1. packet.err = Absent /\ packet.response = r /\ packet.isDisposed = end
  BY DEF WritePacket
<1>2. ~Truthy(packet.err) /\ open.outcome = "open" /\ open.got = <<>> /\ r # Absent
  BY <1>1 DEF Truthy, Absent
<1>3. Append(<<>>, r) = <<r>>
  OBVIOUS
<1>4. CASE end /\ r = "undefined"
  <2> DEFINE one == WritePacket(Absent, "undefined", FALSE)
             two == WritePacket(Absent, Absent, TRUE)
             once == Observe(open, one)
  <2>1. DeliverReply(packet) = <<one, two>>
    BY <1>1, <1>2, <1>4 DEF DeliverReply
  <2>2. once = [got |-> <<r>>, outcome |-> "open"]
    BY <1>2, <1>3, <1>4 DEF Observe, WritePacket, Truthy, Absent
  <2>3. Observe(once, two) = [got |-> <<r>>, outcome |-> "completed"]
    BY <2>2 DEF Observe, WritePacket, Truthy, Absent
  <2>4. Shows(packet) = Observe(once, two)
    <3> HIDE DEF one, two, packet, open
    <3> QED BY <2>1 DEF Shows, Delivered, open
  <2> QED BY <1>4, <2>3, <2>4
<1>5. CASE ~(end /\ r = "undefined")
  <2>1. DeliverReply(packet) = <<packet>>
    BY <1>1, <1>2, <1>5 DEF DeliverReply
  <2>2. Observe(open, packet) = [got |-> <<r>>, outcome |-> IF end THEN "completed" ELSE "open"]
    <3>1. Observe(open, packet) =
            [got |-> IF r \notin {Absent, "undefined"} \/ ~end THEN Append(<<>>, r) ELSE <<>>,
             outcome |-> IF end THEN "completed" ELSE "open"]
      BY <1>1, <1>2 DEF Observe
    <3> QED BY <1>2, <1>3, <1>5, <3>1
  <2>3. Shows(packet) = Observe(open, packet)
    <3> HIDE DEF packet, open
    <3> QED BY <2>1 DEF Shows, Delivered, open
  <2> QED BY <2>2, <2>3
<1> QED BY <1>4, <1>5

\* The caller sees the packet that ends a response as its completion, with no
\* value.
LEMMA EndPacketShown ==
  Shows(WritePacket(Absent, Absent, TRUE)) = [got |-> <<>>, outcome |-> "completed"]
<1> DEFINE open == [got |-> <<>>, outcome |-> "open"]
           packet == WritePacket(Absent, Absent, TRUE)
<1>1. DeliverReply(packet) = <<packet>>
  BY DEF DeliverReply, WritePacket, Truthy, Absent
<1>2. Observe(open, packet) = [got |-> <<>>, outcome |-> "completed"]
  BY DEF Observe, WritePacket, Truthy, Absent
<1>3. Shows(packet) = Observe(open, packet)
  <2> HIDE DEF packet, open
  <2> QED BY <1>1 DEF Shows, Delivered, open
<1> QED BY <1>2, <1>3

\* The caller sees the packet of an error as a failure, with no value.
LEMMA ErrorPacketShown ==
  ASSUME NEW err, Truthy(err)
  PROVE  Shows(WritePacket(err, Absent, TRUE)) = [got |-> <<>>, outcome |-> "failed"]
<1> DEFINE open == [got |-> <<>>, outcome |-> "open"]
           packet == WritePacket(err, Absent, TRUE)
           passed == WritePacket(err, Absent, FALSE)
<1>1. DeliverReply(packet) = <<passed>>
  BY DEF DeliverReply, WritePacket
<1>2. Observe(open, passed) = [got |-> <<>>, outcome |-> "failed"]
  BY DEF Observe, WritePacket
<1>3. Shows(packet) = Observe(open, passed)
  <2> HIDE DEF packet, open, passed
  <2> QED BY <1>1 DEF Shows, Delivered, open
<1> QED BY <1>2, <1>3

\* The deserializer may give a null back as the undefined that it was.
LEMMA DeserializedValue ==
  ASSUME NEW v \in {"undefined", "null", "falsy", "object"}, NEW end \in BOOLEAN,
         NEW packet \in Deserialized(WritePacket(Absent, Encoded(v), end))
  PROVE  \E r \in {"undefined", "null", "falsy", "object"} :
           /\ packet = WritePacket(Absent, r, end) /\ packet.response = r
           /\ IF Nullish(v) THEN Nullish(r) ELSE r = v
<1> DEFINE read == WritePacket(Absent, Encoded(v), end)
<1>1. Encoded(v) = IF Nullish(v) THEN "null" ELSE v
  BY DEF Encoded, Nullish
<1>2. Encoded(v) \in {"null", "falsy", "object"}
  BY <1>1 DEF Nullish
<1>3. [read EXCEPT !.response = "undefined"] = WritePacket(Absent, "undefined", end)
  BY DEF WritePacket
<1>4. read.response = Encoded(v)
  BY DEF WritePacket
<1>5. CASE packet = read
  <2>1. packet.response = Encoded(v)
    BY <1>4, <1>5
  <2>2. IF Nullish(v) THEN Nullish(Encoded(v)) ELSE Encoded(v) = v
    BY <1>1 DEF Nullish
  <2> QED BY <1>2, <1>5, <2>1, <2>2
<1>6. CASE packet # read
  <2>1. packet = WritePacket(Absent, "undefined", end) /\ Encoded(v) = "null"
    BY <1>3, <1>4, <1>6 DEF Deserialized
  <2>2. packet.response = "undefined"
    BY <2>1 DEF WritePacket
  <2>3. Nullish(v) /\ Nullish("undefined")
    BY <1>1, <2>1 DEF Nullish
  <2> QED BY <2>1, <2>2, <2>3
<1> QED BY <1>5, <1>6

\* The message of a value, whether or not it ends the response.
LEMMA ValueMessage ==
  ASSUME NEW v \in {"undefined", "null", "falsy", "object"}, NEW end \in BOOLEAN,
         NEW m, m = Publisher("id", WritePacket(Absent, v, end)),
         NEW packet \in Deserialized(ReadReply(m))
  PROVE  /\ m.correlationId = "id"
         /\ Shows(packet) = [got |-> <<packet.response>>,
                             outcome |-> IF end THEN "completed" ELSE "open"]
         /\ packet.response \in {"undefined", "null", "falsy", "object"}
         /\ IF Nullish(v) THEN Nullish(packet.response) ELSE packet.response = v
<1>1. m = [correlationId |-> "id", type |-> "response", disposed |-> end, body |-> Encoded(v)]
  BY DEF Publisher, WritePacket, Truthy, Coalesce, Nullish, Absent
<1>2. ReadReply(m) = WritePacket(Absent, Encoded(v), end)
  <2>1. m.type = "response" /\ m.disposed = end /\ m.body = Encoded(v)
    BY <1>1
  <2>2. ReadReply(m) = WritePacket(Absent, m.body, m.disposed)
    BY <2>1 DEF ReadReply
  <2> QED BY <2>1, <2>2
<1>3. PICK r \in {"undefined", "null", "falsy", "object"} :
        /\ packet = WritePacket(Absent, r, end) /\ packet.response = r
        /\ IF Nullish(v) THEN Nullish(r) ELSE r = v
  BY <1>2, DeserializedValue
<1> QED BY <1>1, <1>3, ValuePacketShown

\* The one message of an old server ends the response.
LEMMA OldMessage ==
  ASSUME NEW v \in {"undefined", "null", "falsy", "object"},
         NEW message, NEW m, m = OldReply(message, v),
         NEW packet \in Deserialized(ReadReply(m))
  PROVE  /\ m.correlationId = message.messageId
         /\ Shows(packet) = [got |-> <<packet.response>>, outcome |-> "completed"]
         /\ packet.response \in {"undefined", "null", "falsy", "object"}
         /\ IF Nullish(v) THEN Nullish(packet.response) ELSE packet.response = v
<1>1. m = [correlationId |-> message.messageId, type |-> Absent, disposed |-> FALSE,
           body |-> Encoded(v)]
  BY DEF OldReply
<1>2. ReadReply(m) = WritePacket(Absent, Encoded(v), TRUE)
  BY <1>1 DEF ReadReply, Absent
<1>3. PICK r \in {"undefined", "null", "falsy", "object"} :
        /\ packet = WritePacket(Absent, r, TRUE) /\ packet.response = r
        /\ IF Nullish(v) THEN Nullish(r) ELSE r = v
  BY <1>2, DeserializedValue
<1>4. m.correlationId = message.messageId
  BY <1>1
<1>5. Shows(WritePacket(Absent, r, TRUE)) = [got |-> <<r>>, outcome |-> "completed"]
  BY ValuePacketShown, Zenon
<1> QED BY <1>3, <1>4, <1>5

\* The message of an end, and that of an error: a falsy one is an end.
LEMMA EndMessage ==
  ASSUME NEW err \in {Absent, "falsy", "object", "unknown"},
         NEW m, m = Publisher("id", WritePacket(err, Absent, TRUE)),
         NEW packet \in Deserialized(ReadReply(m))
  PROVE  /\ m.correlationId = "id"
         /\ Shows(packet) = [got |-> <<>>,
                             outcome |-> IF Truthy(err) THEN "failed" ELSE "completed"]
<1>1. m.correlationId = "id"
  BY DEF Publisher
<1>2. CASE Truthy(err)
  <2>1. m.type = "error" /\ m.body = err
    BY <1>2 DEF Publisher, WritePacket, Truthy, Coalesce, Nullish, Absent, Encoded
  <2>2. ReadReply(m) = WritePacket(err, Absent, TRUE)
    BY <1>2, <2>1 DEF ReadReply, Coalesce, Nullish, Truthy, Absent
  <2>3. packet = WritePacket(err, Absent, TRUE)
    BY <2>2 DEF Deserialized, WritePacket, Absent
  <2> QED BY <1>1, <1>2, <2>3, ErrorPacketShown
<1>3. CASE ~Truthy(err)
  <2>1. m.type = "none"
    BY <1>3 DEF Publisher, WritePacket, Truthy, Absent
  <2>2. ReadReply(m) = WritePacket(Absent, Absent, TRUE)
    BY <2>1 DEF ReadReply
  <2>3. packet = WritePacket(Absent, Absent, TRUE)
    BY <2>2 DEF Deserialized, WritePacket, Absent
  <2> QED BY <1>1, <1>3, <2>3, EndPacketShown
<1> QED BY <1>2, <1>3

\* A call that is over takes nothing more.
LEMMA NothingToAClosedCall ==
  ASSUME NEW outcm, outcm # "open", NEW packet
  PROVE  Delivered([got |-> <<>>, outcome |-> outcm], packet) = [got |-> <<>>, outcome |-> outcm]
<1> DEFINE caller == [got |-> <<>>, outcome |-> outcm]
<1>1. \A p : Observe(caller, p) = caller
  BY DEF Observe
<1> HIDE DEF caller
<1> QED BY <1>1 DEF Delivered, caller

-----------------------------------------------------------------------------
(* The response *)

\* Both instances of ReplyStream have the same types, initial states and steps.
LEMMA SameStream ==
  /\ MaxValues \in Nat
  /\ S!TypeOK <=> R!TypeOK
  /\ S!Init <=> R!Init
  /\ S!Start <=> R!Start
  /\ S!Emit <=> R!Emit
  /\ S!Complete <=> R!Complete
  /\ S!Fail <=> R!Fail
  /\ S!TickEnds <=> R!TickEnds
  /\ S!Publish <=> R!Publish
  /\ S!Skip <=> R!Skip
  /\ S!Settles <=> R!Settles
  /\ S!Return <=> R!Return
  /\ S!GiveUp <=> R!GiveUp
  /\ S!Error = R!Error
<1>1. MaxValues \in Nat
  BY PayloadAssumption
<1>2. S!TypeOK <=> R!TypeOK
  BY Zenon DEF S!TypeOK, R!TypeOK, S!Packet, R!Packet
<1>3. S!Init <=> R!Init
  BY Zenon DEF S!Init, R!Init
<1>4. S!Start <=> R!Start
  BY Zenon DEF S!Start, R!Start, S!streamVars, R!streamVars
<1>5. S!Emit <=> R!Emit
  BY Zenon DEF S!Emit, R!Emit, S!ScheduleOnce, R!ScheduleOnce, S!Schedule, R!Schedule,
               S!Value, R!Value, S!End, R!End
<1>6. (S!Complete <=> R!Complete) /\ (S!Fail <=> R!Fail)
  <2>1. ASSUME NEW how, NEW packet PROVE S!Ends(how, packet) <=> R!Ends(how, packet)
    <3>1. S!Schedule(packet) <=> R!Schedule(packet)
      BY Zenon DEF S!Schedule, R!Schedule, S!Last, R!Last, S!Front, R!Front
    <3>2. S!ScheduleOnce(<<packet>>) <=> R!ScheduleOnce(<<packet>>)
      BY Zenon DEF S!ScheduleOnce, R!ScheduleOnce
    <3> QED BY <3>1, <3>2 DEF S!Ends, R!Ends
  <2>2. S!End = R!End /\ S!Error = R!Error
    BY Zenon DEF S!End, R!End, S!Error, R!Error
  <2> QED BY <2>1, <2>2, Zenon DEF S!Complete, R!Complete, S!Fail, R!Fail
<1>7. S!TickEnds <=> R!TickEnds
  BY Zenon DEF S!TickEnds, R!TickEnds
<1>8. (S!Publish <=> R!Publish) /\ (S!Skip <=> R!Skip)
  BY Zenon DEF S!Publish, R!Publish, S!Skip, R!Skip, S!TurnOver, R!TurnOver
<1>9. S!Quiet <=> R!Quiet
  BY Zenon DEF S!Quiet, R!Quiet, S!Wakes, R!Wakes, S!Finished, R!Finished
<1>10. S!Published <=> R!Published
  BY <1>9, Zenon DEF S!Published, R!Published, S!TurnOver, R!TurnOver
<1>11. S!PublishFails <=> R!PublishFails
  BY <1>9, Zenon DEF S!PublishFails, R!PublishFails, S!TurnOver, R!TurnOver,
                     S!Unsubscribed, R!Unsubscribed
<1>12. S!ErrorReplySettles <=> R!ErrorReplySettles
  BY <1>9, Zenon DEF S!ErrorReplySettles, R!ErrorReplySettles, S!TurnOver, R!TurnOver,
                     S!Error, R!Error
<1>13. S!Settles <=> R!Settles
  BY <1>10, <1>11, <1>12, Zenon DEF S!Settles, R!Settles
<1>14. S!Return <=> R!Return
  BY Zenon DEF S!Return, R!Return, S!Wakes, R!Wakes, S!Finished, R!Finished, S!streamVars,
               R!streamVars
<1>15. S!GiveUp <=> R!GiveUp
  BY <1>9, Zenon DEF S!GiveUp, R!GiveUp, S!Finished, R!Finished, S!Unsubscribed, R!Unsubscribed
<1>16. S!Error = R!Error
  BY Zenon DEF S!Error, R!Error
<1> QED
  BY <1>1, <1>2, <1>3, <1>4, <1>5, <1>6, <1>7, <1>8, <1>13, <1>14, <1>15, <1>16

\* A step of the response in Exchange is a step of ReplyStream.
LEMMA RespondsNext == Responds => R!Next
BY SameStream, Zenon DEF Responds, R!Next

\* Replies are matched by the id of the request, whoever chose its messageId.
LEMMA MatchedById == ReplyCorrelation(Message) = "id" /\ ~IsSingleReply(Message)
BY DEF ReplyCorrelation, IsSingleReply, Message, ToRequest, Absent

\* The elements of a sequence are the values at its positions.
LEMMA ToSetMember ==
  ASSUME NEW T, NEW s \in Seq(T)
  PROVE  ToSet(s) = {s[k] : k \in 1 .. Len(s)} /\ Len(s) \in Nat
BY DEF ToSet

\* Every reply that was sent is in its place in the response, but for the error
\* that stands for the rest of it.
LEMMA SentInPlace ==
  ASSUME ExchangeInv
  PROVE  /\ sent \in Seq(R!Packet) /\ Len(sent) \in Nat
         /\ emitted \in Nat /\ emitted <= MaxValues
         /\ \A i \in 1 .. Len(sent) :
              /\ sent[i] \in R!Packet
              /\ \/ R!Proper(sent[i], i, source, emitted)
                 \/ sent[i] = R!Error /\ i = Len(sent)
<1>1. R!TypeOK
  BY SameStream DEF ExchangeInv, TypeOK
<1>2. sent \in Seq(R!Packet) /\ Len(sent) \in Nat /\ emitted \in 0 .. MaxValues
  BY <1>1 DEF R!TypeOK
<1>3. \A i \in 1 .. Len(sent) : sent[i] \in R!Packet
  BY <1>2
<1>4. CASE ~oldServer
  BY <1>2, <1>3, <1>4, SameStream DEF ExchangeInv, OneResponse, R!StreamInv, R!SentIsProper
<1>5. CASE oldServer
  <2>1. OnlyReply.value = 1 /\ OnlyReply.end = TRUE /\ OnlyReply.err = FALSE
    BY DEF OnlyReply, S!Value
  <2>2. ASSUME NEW i \in 1 .. Len(sent)
        PROVE  R!Proper(sent[i], i, source, emitted)
    <3>1. sent = <<OnlyReply>> /\ source = "completed" /\ emitted = 1
      BY <1>5 DEF ExchangeInv, OneResponse
    <3>2. i = 1 /\ sent[i] = OnlyReply
      BY <3>1
    <3> QED BY <2>1, <3>1, <3>2 DEF R!Proper
  <2> QED BY <1>2, <1>3, <2>2, SameStream
<1> QED BY <1>4, <1>5

\* Both instances of ReplyStream have the same types.
LEMMA SameTypes == S!TypeOK' <=> R!TypeOK'
BY Zenon DEF S!TypeOK, R!TypeOK, S!Packet, R!Packet

\* The parts of TypeOK that are not the response's.
LEMMA Typed ==
  ASSUME ExchangeInv
  PROVE  /\ sent \in Seq(R!Packet) /\ Len(sent) \in Nat
         /\ wire \in Seq(ReplyMessage) /\ Len(wire) = Len(sent)
         /\ taken \in Nat /\ taken <= Len(sent)
         /\ lost \subseteq 1 .. taken
         /\ delivering \in Seq(Nat) /\ Len(delivering) \in Nat
         /\ \A a \in 1 .. Len(delivering) : delivering[a] \in (1 .. taken) \ lost
         /\ got \in Seq(Got) /\ Len(got) \in Nat
<1>1. R!TypeOK
  BY SameStream DEF ExchangeInv, TypeOK
<1>2. sent \in Seq(R!Packet) /\ Len(sent) \in Nat
  BY <1>1 DEF R!TypeOK
<1>3. wire \in Seq(ReplyMessage) /\ delivering \in Seq(Nat) /\ got \in Seq(Got)
  BY DEF ExchangeInv, WireIsSent, InOrder
<1>4. Len(delivering) \in Nat /\ Len(got) \in Nat
  BY <1>3, LenProperties
<1>5. Len(wire) = Len(sent) /\ taken \in 0 .. Len(sent) /\ lost \subseteq 1 .. taken
  BY DEF ExchangeInv, TypeOK
<1>6. \A a \in 1 .. Len(delivering) : delivering[a] \in (1 .. taken) \ lost
  BY <1>3, ToSetMember DEF ExchangeInv, TypeOK
<1> QED BY <1>2, <1>3, <1>4, <1>5, <1>6

-----------------------------------------------------------------------------
(* Steps that move no reply *)

\* What the caller has and what is on its way stays right when replies are
\* added to the response, and when the call ends.
LEMMA CallerKept ==
  ASSUME ExchangeInv, payload' = payload,
         \A i \in 1 .. Len(sent) : sent'[i] = sent[i],
         taken' = taken, lost' = lost, delivering' = delivering, got' = got,
         outcome' = "open" => outcome = "open"
  PROVE  InOrder' /\ NoneForgotten' /\ TakenIsAccountedFor'
<1>1. InOrder'
  <2>1. \A k \in 1 .. Len(got) : got[k].value \in 1 .. Len(sent)
    BY Typed DEF ExchangeInv, InOrder
  <2> QED BY <2>1 DEF ExchangeInv, InOrder, Same
<1>2. NoneForgotten'
  BY DEF ExchangeInv, NoneForgotten
<1>3. TakenIsAccountedFor'
  BY DEF ExchangeInv, TakenIsAccountedFor
<1> QED BY <1>1, <1>2, <1>3

\* What the messages show stays right when the response goes on: its end is final.
LEMMA FaithfulKept ==
  ASSUME payload' = payload, NEW i, NEW packet, Faithful(i, packet),
         sent'[i] = sent[i],
         source = "errored" => source' = source /\ emitted' = emitted
  PROVE  Faithful(i, packet)'
<1>1. R!Proper(sent[i], i, source, emitted) /\ sent[i].err
        => R!Proper(sent'[i], i, source', emitted')
  BY DEF R!Proper
<1> QED BY <1>1 DEF Faithful, Same

\* A step that is none of the response's.
LEMMA ResponseKept ==
  ASSUME ExchangeInv, UNCHANGED <<responseVars, payload, oldServer, wire>>
  PROVE  S!TypeOK' /\ OneResponse' /\ WireIsSent'
<1>1. UNCHANGED R!vars
  BY DEF responseVars, streamVars, R!vars, R!streamVars
<1>2. S!TypeOK'
  <2>1. R!TypeOK
    BY SameStream DEF ExchangeInv, TypeOK
  <2>2. R!TypeOK'
    BY <1>1, <2>1 DEF R!TypeOK, R!vars, R!streamVars
  <2> QED BY <2>2, SameTypes
<1>3. OneResponse'
  <2>1. ~oldServer => R!StreamInv'
    BY <1>1, R!StutterInv, SameStream DEF ExchangeInv, OneResponse
  <2> QED BY <2>1 DEF ExchangeInv, OneResponse, responseVars, Message
<1>4. WireIsSent'
  <2>1. sent' = sent /\ wire' = wire /\ payload' = payload /\ source' = source /\ emitted' = emitted
    BY DEF responseVars
  <2>2. ASSUME NEW i \in 1 .. Len(sent), NEW packet, Faithful(i, packet)
        PROVE  Faithful(i, packet)'
    BY <2>1, <2>2, FaithfulKept
  <2> QED BY <2>1, <2>2 DEF ExchangeInv, WireIsSent
<1> QED BY <1>2, <1>3, <1>4
-----------------------------------------------------------------------------
(* A reply is sent *)

\* What a message is made of.
LEMMA MessageType ==
  ASSUME NEW err \in {Absent, "falsy", "object", "unknown"},
         NEW response \in {Absent, "undefined", "null", "falsy", "object"},
         NEW end \in BOOLEAN
  PROVE  Publisher("id", WritePacket(err, response, end)) \in ReplyMessage
<1> DEFINE packet == WritePacket(err, response, end)
           body == Encoded(Coalesce(err, response))
           type == CASE Truthy(err) -> "error"
                     [] ~Truthy(err) /\ response # Absent -> "response"
                     [] OTHER -> "none"
<1>1. body \in {"null", "falsy", "object", "unknown"}
  BY DEF Encoded, Coalesce, Nullish, Absent
<1>2. type \in {"response", "error", "none", Absent}
  OBVIOUS
<1>3. Publisher("id", packet) =
        [correlationId |-> "id", type |-> type, disposed |-> end, body |-> body]
  BY DEF Publisher, WritePacket
<1> HIDE DEF packet, body, type
<1>4. Publisher("id", packet) \in ReplyMessage
  BY <1>1, <1>2, <1>3 DEF ReplyMessage
<1> QED BY <1>4 DEF packet

\* The payloads of a handler and its errors.
LEMMA PayloadKinds ==
  ASSUME TypeOK
  PROVE  /\ payload.value \in {"undefined", "null", "falsy", "object"}
         /\ ToReplyError(payload.error) \in {"falsy", "object", "unknown"}
         /\ payload.ownMessageId \in BOOLEAN
BY PayloadAssumption DEF TypeOK, ToReplyError

\* The reply p, sent at its place, and its message.
LEMMA ReplySent ==
  ASSUME ExchangeInv, NEW p \in R!Packet, payload' = payload,
         sent' = Append(sent, p), wire' = Append(wire, Publisher("id", PacketOf(p))),
         \/ chain = "publishing" /\ R!Proper(p, Len(sent) + 1, source, emitted)
         \/ chain = "errorReply" /\ p = R!Error,
         source \notin {"none", "subscribed"} => source' = source /\ emitted' = emitted
  PROVE  /\ Len(wire') = Len(sent') /\ Len(sent') = Len(sent) + 1
         /\ \A i \in 1 .. Len(sent) : sent'[i] = sent[i]
         /\ WireIsSent'
<1>0. PICK n : n = Len(sent) + 1
  OBVIOUS
<1> DEFINE m == Publisher("id", PacketOf(p))
           err == IF ~p.err THEN Absent
                  ELSE IF chain = "errorReply" THEN "unknown" ELSE ToReplyError(payload.error)
           response == IF p.value = 0 THEN Absent ELSE payload.value
<1>1. PacketOf(p) = WritePacket(err, response, p.end)
  BY DEF PacketOf
<1>2. /\ payload.value \in {"undefined", "null", "falsy", "object"}
      /\ ToReplyError(payload.error) \in {"falsy", "object", "unknown"}
  BY PayloadKinds DEF ExchangeInv
<1>3. p.end \in BOOLEAN /\ p.err \in BOOLEAN
  BY DEF R!Packet
<1>4. err \in {Absent, "falsy", "object", "unknown"}
  BY <1>2
<1>5. response \in {Absent, "undefined", "null", "falsy", "object"}
  BY <1>2
<1>6. m \in ReplyMessage
  BY <1>1, <1>3, <1>4, <1>5, MessageType
<1>7. /\ p.value = 0 => p.end
      /\ p.err => p.value = 0
      /\ p.end /\ p.err /\ chain # "errorReply" =>
           /\ source = "errored"
           /\ R!Proper(p, n, source, emitted)
  BY <1>0, <1>3 DEF R!Proper, R!Error
<1>8. ASSUME NEW packet \in Deserialized(ReadReply(m)), p.value # 0
      PROVE  /\ Shows(packet) = [got |-> <<packet.response>>,
                                 outcome |-> IF p.end THEN "completed" ELSE "open"]
             /\ Same(packet.response)
  <2>1. m = Publisher("id", WritePacket(Absent, payload.value, p.end))
    BY <1>1, <1>7, <1>8
  <2> HIDE DEF m
  <2> QED BY <1>2, <1>3, <1>8, <2>1, ValueMessage DEF Same
<1>9. ASSUME NEW packet \in Deserialized(ReadReply(m)), p.value = 0
      PROVE  Shows(packet) = [got |-> <<>>, outcome |-> IF Truthy(err) THEN "failed" ELSE "completed"]
  <2>1. m = Publisher("id", WritePacket(err, Absent, TRUE))
    BY <1>1, <1>3, <1>7, <1>9
  <2> HIDE DEF m, err
  <2> QED BY <1>4, <1>9, <2>1, EndMessage
<1>10. /\ Len(sent) \in Nat
       /\ Len(sent') = n /\ sent'[n] = p
       /\ \A i \in 1 .. Len(sent) : sent'[i] = sent[i]
  BY <1>0, Typed, AppendProperties
<1>11. /\ wire' \in Seq(ReplyMessage) /\ Len(wire') = n /\ wire'[n] = m
       /\ \A i \in 1 .. Len(sent) : wire'[i] = wire[i]
  <2> HIDE DEF m
  <2> QED BY <1>0, <1>6, Typed, AppendProperties DEF m
<1>12. ASSUME NEW packet \in Deserialized(ReadReply(m))
       PROVE  Faithful(n, packet)'
  <2>1. CASE p.value # 0
    BY <1>8, <1>10, <1>12, <2>1 DEF Faithful, Same
  <2>2. CASE p.value = 0
    <3>1. /\ Shows(packet).got = <<>> /\ Shows(packet).outcome \in {"completed", "failed"}
          /\ Shows(packet).outcome = "completed" => ~Truthy(err)
      BY <1>9, <1>12, <2>2
    <3>2. ASSUME p.err, ~Truthy(err)
          PROVE  R!Proper(p, n, source', emitted') /\ ToReplyError(payload.error) = "falsy"
      <4>1. chain # "errorReply" /\ ToReplyError(payload.error) = "falsy"
        BY <1>2, <3>2 DEF Truthy
      <4>2. source = "errored" /\ R!Proper(p, n, source, emitted)
        BY <1>3, <1>7, <3>2, <4>1
      <4> QED BY <4>1, <4>2
    <3> QED BY <1>10, <2>2, <3>1, <3>2 DEF Faithful
  <2> QED BY <2>1, <2>2
<1>13. WireIsSent'
  <2>1. ASSUME NEW i \in 1 .. Len(sent), NEW packet \in Deserialized(ReadReply(wire'[i]))
        PROVE  Faithful(i, packet)'
    BY <1>10, <1>11, <2>1, FaithfulKept DEF ExchangeInv, WireIsSent
  <2>2. ASSUME NEW i \in 1 .. Len(sent'), NEW packet \in Deserialized(ReadReply(wire'[i]))
        PROVE  Faithful(i, packet)'
    <3> HIDE DEF m
    <3>1. i \in 1 .. Len(sent) \/ i = n
      BY <1>0, <1>10
    <3> QED BY <1>11, <1>12, <2>1, <2>2, <3>1
  <2> QED BY <1>11, <2>2 DEF WireIsSent
<1> QED BY <1>0, <1>10, <1>11, <1>13

-----------------------------------------------------------------------------
(* Every step keeps the invariant *)

\* The reply appended last is the last one.
LEMMA LastAppended ==
  ASSUME NEW T, NEW s \in Seq(T), NEW p \in T
  PROVE  Len(Append(s, p)) > Len(s) /\ Last(Append(s, p)) = p
<1>1. Len(s) \in Nat /\ Len(Append(s, p)) = Len(s) + 1 /\ Append(s, p)[Len(s) + 1] = p
  BY AppendProperties, LenProperties
<1> QED BY <1>1 DEF Last

\* What a step of the server does to what is outside of it: the response goes on,
\* and sends at most one reply, at its place.
LEMMA ResponseGoesOn ==
  ASSUME ExchangeInv, Responds
  PROVE  /\ R!StreamInv'
         /\ source \notin {"none", "subscribed"} => source' = source /\ emitted' = emitted
         /\ emitted' \in {emitted, emitted + 1}
         /\ singleReply' = singleReply
         /\ \/ sent' = sent /\ wire' = wire
            \/ \E p \in R!Packet :
                 /\ sent' = Append(sent, p)
                 /\ wire' = Append(wire, Publisher("id", PacketOf(p)))
                 /\ \/ chain = "publishing" /\ R!Proper(p, Len(sent) + 1, source, emitted)
                    \/ chain = "errorReply" /\ p = R!Error
<1>1. R!StreamInv /\ R!Next
  BY RespondsNext DEF ExchangeInv, OneResponse, Responds
<1>2. R!StreamInv'
  BY <1>1, R!StepInv, SameStream
<1>3. /\ singleReply' = singleReply
      /\ emitted' \in {emitted, emitted + 1}
      /\ source \notin {"none", "subscribed"} => source' = source /\ emitted' = emitted
      /\ \/ sent' = sent
         \/ /\ chain = "publishing" /\ sent' = Append(sent, Head(queue))
            /\ Head(queue) \in R!Packet
            /\ R!Proper(Head(queue), Len(sent) + 1, source, emitted)
         \/ chain = "errorReply" /\ sent' = Append(sent, R!Error)
  BY <1>1, R!StepShape, SameStream
<1>4. R!Error \in R!Packet
  BY R!Packets, SameStream
<1>5. wire' = IF Len(sent') > Len(sent)
              THEN Append(wire, Publisher("id", PacketOf(Last(sent')))) ELSE wire
  BY MatchedById DEF Responds, Published
<1>6. sent \in Seq(R!Packet) /\ Len(sent) \in Nat
  BY Typed
<1>7. CASE sent' = sent
  BY <1>2, <1>3, <1>5, <1>6, <1>7
<1>8. ASSUME NEW p \in R!Packet, sent' = Append(sent, p)
      PROVE  wire' = Append(wire, Publisher("id", PacketOf(p)))
  BY <1>5, <1>6, <1>8, LastAppended
<1>9. CASE chain = "publishing" /\ sent' = Append(sent, Head(queue))
           /\ Head(queue) \in R!Packet
           /\ R!Proper(Head(queue), Len(sent) + 1, source, emitted)
  BY <1>2, <1>3, <1>8, <1>9
<1>10. CASE chain = "errorReply" /\ sent' = Append(sent, R!Error)
  BY <1>2, <1>3, <1>4, <1>8, <1>10
<1> QED BY <1>3, <1>7, <1>9, <1>10

\* A step of the response keeps the invariant: it writes at most the message
\* of one more reply to the wire.
LEMMA RespondsInv == ExchangeInv /\ Responds => ExchangeInv'
<1> SUFFICES ASSUME ExchangeInv, Responds PROVE ExchangeInv'
  OBVIOUS
<1>1. /\ UNCHANGED <<payload, oldServer, request, arrived>> /\ UNCHANGED <<got, outcome>>
      /\ UNCHANGED <<taken, completing, lost, delivering>>
      /\ ~oldServer
  BY DEF Responds, requestVars, replyVars, callerVars
<1>2. /\ WireIsSent' /\ Len(wire') = Len(sent') /\ Len(sent') \in Nat
      /\ Len(sent) \in Nat /\ Len(sent) <= Len(sent')
      /\ \A i \in 1 .. Len(sent) : sent'[i] = sent[i]
  <2>1. CASE sent' = sent /\ wire' = wire
    <3>1. ASSUME NEW i \in 1 .. Len(sent), NEW packet \in Deserialized(ReadReply(wire[i]))
          PROVE  Faithful(i, packet)'
      BY <1>1, <2>1, <3>1, FaithfulKept, ResponseGoesOn DEF ExchangeInv, WireIsSent
    <3> QED BY <2>1, <3>1, Typed DEF ExchangeInv, WireIsSent
  <2>2. ASSUME NEW p \in R!Packet,
               sent' = Append(sent, p), wire' = Append(wire, Publisher("id", PacketOf(p))),
               \/ chain = "publishing" /\ R!Proper(p, Len(sent) + 1, source, emitted)
               \/ chain = "errorReply" /\ p = R!Error
        PROVE  /\ WireIsSent' /\ Len(wire') = Len(sent') /\ Len(sent') = Len(sent) + 1
               /\ \A i \in 1 .. Len(sent) : sent'[i] = sent[i]
    BY <1>1, <2>2, ReplySent, ResponseGoesOn
  <2>3. Len(sent) \in Nat
    BY Typed
  <2> QED BY <2>1, <2>2, <2>3, ResponseGoesOn
<1>3. OneResponse'
  BY <1>1, ResponseGoesOn DEF ExchangeInv, OneResponse, Message
<1>4. InOrder' /\ NoneForgotten' /\ TakenIsAccountedFor'
  BY <1>1, <1>2, CallerKept
<1>5. TypeOK'
  <2>1. S!TypeOK'
    BY ResponseGoesOn, SameTypes DEF R!StreamInv
  <2>2. taken \in 0 .. Len(sent')
    BY <1>2, Typed
  <2> QED BY <1>1, <1>2, <2>1, <2>2 DEF ExchangeInv, TypeOK
<1>6. CompletesOne'
  BY <1>1, <1>2, Typed DEF ExchangeInv, CompletesOne
<1> QED BY <1>2, <1>3, <1>4, <1>5, <1>6 DEF ExchangeInv

\* The invariant holds before the request is sent.
LEMMA InitExchange == Init => ExchangeInv
<1> SUFFICES ASSUME Init PROVE ExchangeInv
  OBVIOUS
<1>1. R!Init /\ R!StreamInv
  BY R!InitInv, SameStream DEF Init
<1>2. sent = <<>> /\ source = "none" /\ emitted = 0
  BY <1>1 DEF R!Init
<1>3. ~singleReply /\ Len(<<>>) = 0 /\ ToSet(<<>>) = {} /\ Cardinality({}) = 0
  BY MatchedById, FS_EmptySet DEF Init, ToSet
<1>4. TypeOK
  <2>1. S!TypeOK
    BY <1>1, SameStream DEF R!StreamInv
  <2>2. taken \in 0 .. Len(sent) /\ lost \subseteq 1 .. taken /\ Len(wire) = Len(sent)
    BY <1>2, <1>3 DEF Init
  <2>3. ToSet(delivering) \subseteq (1 .. taken) \ lost
    BY <1>3 DEF Init
  <2> QED BY <2>1, <2>2, <2>3, Zenon DEF Init, TypeOK
<1>5. OneResponse
  BY <1>1, <1>2, <1>3 DEF Init, OneResponse
<1>6. CompletesOne /\ WireIsSent /\ InOrder /\ NoneForgotten /\ TakenIsAccountedFor
  BY <1>2, <1>3 DEF Init, CompletesOne, WireIsSent, InOrder, NoneForgotten, TakenIsAccountedFor
<1> QED BY <1>4, <1>5, <1>6 DEF ExchangeInv

\* The single answer of an old server keeps the invariant.
LEMMA OldServerInv == ExchangeInv /\ OldServerResponds => ExchangeInv'
<1> SUFFICES ASSUME ExchangeInv, OldServerResponds PROVE ExchangeInv'
  OBVIOUS
<1>1. /\ UNCHANGED <<payload, oldServer, request, arrived>> /\ UNCHANGED <<got, outcome>>
      /\ UNCHANGED <<taken, completing, lost, delivering>>
      /\ oldServer /\ sent = <<>> /\ sent' = <<OnlyReply>>
      /\ MaxValues > 0 /\ MaxValues \in Nat
      /\ source' = "completed" /\ emitted' = 1 /\ singleReply' = singleReply
      /\ wire' = <<OldReply(Message, payload.value)>> /\ Message.messageId = "id"
  <2>1. /\ UNCHANGED <<singleReply, requestVars, replyVars, callerVars>>
        /\ oldServer /\ sent = <<>> /\ sent' = <<OnlyReply>>
        /\ MaxValues > 0 /\ source' = "completed" /\ emitted' = 1
        /\ wire' = <<OldReply(Message, payload.value)>>
    BY DEF OldServerResponds, OnlyReply
  <2>2. MaxValues \in Nat /\ Message.messageId = "id"
    BY <2>1, SameStream DEF ExchangeInv, OneResponse
  <2>3. /\ UNCHANGED <<payload, oldServer, request, arrived>> /\ UNCHANGED <<got, outcome>>
        /\ UNCHANGED <<taken, completing, lost, delivering>> /\ singleReply' = singleReply
    BY <2>1 DEF requestVars, replyVars, callerVars
  <2> QED BY <2>1, <2>2, <2>3, Zenon
<1>2. OnlyReply \in S!Packet /\ OnlyReply.value = 1 /\ OnlyReply.end = TRUE
  <2>1. S!Value(1) \in S!Packet
    BY <1>1 DEF S!Value, S!Packet
  <2>2. S!Value(1).value = 1
    BY DEF S!Value
  <2> QED BY <2>1, <2>2 DEF OnlyReply, S!Packet
<1>3. payload.value \in {"undefined", "null", "falsy", "object"}
  BY PayloadKinds DEF ExchangeInv
<1> DEFINE m == OldReply(Message, payload.value)
<1>4. ASSUME NEW packet \in Deserialized(ReadReply(m))
      PROVE  Faithful(1, packet)'
  <2>1. /\ Shows(packet) = [got |-> <<packet.response>>, outcome |-> "completed"]
        /\ Same(packet.response)
    <3> HIDE DEF m
    <3>1. m = OldReply(Message, payload.value)
      BY DEF m
    <3> QED BY <1>3, <1>4, <3>1, OldMessage DEF Same
  <2>2. sent'[1].value = 1 /\ sent'[1].end = TRUE
    BY <1>1, <1>2
  <2> QED BY <1>1, <2>1, <2>2 DEF Faithful, Same
<1>5. m \in ReplyMessage
  <2>1. Encoded(payload.value) \in {"null", "falsy", "object"}
    BY <1>3 DEF Encoded, Nullish, Absent
  <2> QED BY <1>1, <2>1 DEF ReplyMessage, OldReply
<1>6. WireIsSent' /\ Len(wire') = 1 /\ Len(sent') = 1
  <2> HIDE DEF m
  <2>1. wire' = <<m>> /\ wire'[1] = m /\ Len(wire') = 1 /\ Len(sent') = 1
    BY <1>1 DEF m
  <2> QED BY <1>4, <1>5, <2>1 DEF WireIsSent
<1>7. OneResponse'
  BY <1>1 DEF ExchangeInv, OneResponse, Message, OnlyReply
<1>8. InOrder' /\ NoneForgotten' /\ TakenIsAccountedFor'
  BY <1>1, CallerKept
<1>9. TypeOK'
  <2>1. S!TypeOK'
    <3>1. S!TypeOK /\ confirmed \in 0 .. Len(sent)
      BY DEF ExchangeInv, TypeOK, S!TypeOK
    <3>2. emitted' \in 0 .. MaxValues /\ confirmed \in 0 .. Len(sent')
      BY <1>1, <1>6, <3>1
    <3>3. sent' \in Seq(S!Packet)
      BY <1>1, <1>2
    <3>4. UNCHANGED <<batch, ending, queue, chain, failed, stopped, byClose, cancelled, replied,
                      first, ended, gaveUp, result, confirmed>>
      BY DEF OldServerResponds, streamVars
    <3> QED BY <1>1, <3>1, <3>2, <3>3, <3>4 DEF S!TypeOK
  <2>2. taken \in 0 .. Len(sent')
    BY <1>1, <1>6, Typed
  <2> QED BY <1>1, <1>6, <2>1, <2>2 DEF ExchangeInv, TypeOK
<1>10. CompletesOne'
  BY <1>1, <1>6, Typed DEF ExchangeInv, CompletesOne
<1> QED BY <1>6, <1>7, <1>8, <1>9, <1>10 DEF ExchangeInv

\* The steps that neither send nor move a reply: those of the request, the end of
\* the call, the beginning and the failure of a completion.
LEMMA NoReplyMoves ==
  ASSUME ExchangeInv,
         UNCHANGED <<responseVars, payload, oldServer, wire, taken, lost, delivering, got>>,
         request' \in {"none", "sending", "sent", "failed"}, arrived' \in BOOLEAN,
         completing' \in BOOLEAN, completing' => taken < Len(sent),
         outcome' \in {outcome, "failed", "left"}
  PROVE  ExchangeInv'
<1>1. S!TypeOK' /\ OneResponse' /\ WireIsSent'
  BY ResponseKept
<1>2. UNCHANGED <<sent, wire, payload, oldServer, taken, lost, delivering, got>>
  BY DEF responseVars
<1>3. InOrder' /\ NoneForgotten' /\ TakenIsAccountedFor'
  BY <1>2, CallerKept
<1>4. CompletesOne'
  BY <1>2 DEF CompletesOne
<1>5. outcome' \in {"open", "completed", "failed", "left"}
  BY DEF ExchangeInv, TypeOK
<1>6. TypeOK'
  BY <1>1, <1>2, <1>5, Zenon DEF ExchangeInv, TypeOK
<1> QED BY <1>1, <1>3, <1>4, <1>6 DEF ExchangeInv

\* Steps of the request and of the caller move no reply.
LEMMA RequestInv ==
  ASSUME ExchangeInv,
         \/ Publish \/ PublishThrows \/ RequestArrives \/ RequestSent \/ RequestFails
         \/ CallFails \/ Unsubscribe \/ ProcessMessage \/ CompletionFails
         \/ UNCHANGED vars
  PROVE  ExchangeInv'
<1>1. /\ request \in {"none", "sending", "sent", "failed"} /\ arrived \in BOOLEAN
      /\ completing \in BOOLEAN /\ (completing => taken < Len(sent))
  BY Zenon DEF ExchangeInv, TypeOK, CompletesOne
<1>2. /\ UNCHANGED <<responseVars, payload, oldServer, wire, taken, lost, delivering, got>>
      /\ request' \in {"none", "sending", "sent", "failed"}
      /\ arrived' \in BOOLEAN
      /\ completing' \in BOOLEAN /\ (completing' => taken < Len(sent))
      /\ outcome' \in {outcome, "failed", "left"}
  <2> USE <1>1 DEF requestVars, replyVars, callerVars, CallEnds
  <2>1. CASE Publish
    BY <2>1, Zenon DEF Publish
  <2>6. CASE RequestArrives
    BY <2>6, Zenon DEF RequestArrives
  <2>7. CASE RequestSent
    BY <2>7, Zenon DEF RequestSent
  <2>2. CASE PublishThrows \/ RequestFails
    BY <2>2 DEF PublishThrows, RequestFails
  <2>3. CASE CallFails \/ Unsubscribe
    BY <2>3 DEF CallFails, Unsubscribe
  <2>4. CASE ProcessMessage \/ CompletionFails
    BY <2>4 DEF ProcessMessage, CompletionFails
  <2>5. CASE UNCHANGED vars
    BY <2>5 DEF vars
  <2> QED BY <2>1, <2>2, <2>3, <2>4, <2>5, <2>6, <2>7
<1> QED BY <1>1, <1>2, NoReplyMoves

\* Finitely many replies were lost.
LEMMA LostIsFinite ==
  ASSUME ExchangeInv
  PROVE  IsFiniteSet(lost)
<1>1. taken \in Nat /\ lost \subseteq 1 .. taken
  BY Typed
<1>2. IsFiniteSet(1 .. taken)
  BY <1>1, FS_Interval
<1> QED BY <1>1, <1>2, FS_Subset

\* A reply that was completed is the next to be delivered while the caller waits.
LEMMA CompletedInv == ExchangeInv /\ Completed => ExchangeInv'
<1> SUFFICES ASSUME ExchangeInv, Completed PROVE ExchangeInv'
  OBVIOUS
<1>1. /\ UNCHANGED <<responseVars, payload, oldServer, request, arrived, wire, lost, got, outcome>>
      /\ sent' = sent
      /\ completing' = FALSE /\ taken' = taken + 1 /\ taken < Len(sent)
  BY DEF Completed, requestVars, callerVars, responseVars, ExchangeInv, CompletesOne
<1>2. /\ Len(sent) \in Nat /\ taken \in Nat
      /\ lost \subseteq 1 .. taken
      /\ delivering \in Seq(Nat) /\ Len(delivering) \in Nat
      /\ \A a \in 1 .. Len(delivering) : delivering[a] \in (1 .. taken) \ lost
      /\ got \in Seq(Got) /\ Len(got) \in Nat
  BY Typed
<1>3. delivering' = IF outcome = "open" THEN Append(delivering, taken + 1) ELSE delivering
  <2>1. wire[taken + 1].correlationId = "id"
    <3>1. wire[taken + 1] \in ReplyMessage
      BY <1>1, <1>2, Typed
    <3> QED BY <3>1 DEF ReplyMessage
  <2> QED BY <2>1 DEF Completed, HandsOver
<1>4. /\ delivering' \in Seq(Nat)
      /\ outcome = "open" => Len(delivering') = Len(delivering) + 1
      /\ \A a \in 1 .. Len(delivering') :
           \/ a \in 1 .. Len(delivering) /\ delivering'[a] = delivering[a]
           \/ a = Len(delivering) + 1 /\ delivering'[a] = taken + 1
      /\ \A a \in 1 .. Len(delivering) : a \in 1 .. Len(delivering') /\ delivering'[a] = delivering[a]
      /\ outcome = "open" => \E a \in 1 .. Len(delivering') : delivering'[a] = taken + 1
  <2>1. CASE outcome = "open"
    <3>1. /\ delivering' \in Seq(Nat) /\ Len(delivering') = Len(delivering) + 1
          /\ \A a \in 1 .. Len(delivering) : delivering'[a] = delivering[a]
          /\ delivering'[Len(delivering) + 1] = taken + 1
      BY <1>2, <1>3, <2>1, AppendProperties
    <3>2. Len(delivering) + 1 \in 1 .. Len(delivering')
      BY <1>2, <3>1
    <3>3. ASSUME NEW a \in 1 .. Len(delivering')
          PROVE  a \in 1 .. Len(delivering) \/ a = Len(delivering) + 1
      BY <1>2, <3>1
    <3>4. ASSUME NEW a \in 1 .. Len(delivering)
          PROVE  a \in 1 .. Len(delivering')
      BY <1>2, <3>1
    <3> QED BY <3>1, <3>2, <3>3, <3>4, Zenon
  <2>2. CASE outcome # "open"
    BY <1>2, <1>3, <2>2
  <2> QED BY <2>1, <2>2
<1>5. S!TypeOK' /\ OneResponse' /\ WireIsSent'
  BY <1>1, ResponseKept
<1>6. \A a \in 1 .. Len(delivering') : delivering'[a] \in (1 .. taken') \ lost'
  <2> SUFFICES ASSUME NEW a \in 1 .. Len(delivering')
               PROVE  delivering'[a] \in (1 .. taken') \ lost'
    OBVIOUS
  <2>1. CASE a \in 1 .. Len(delivering) /\ delivering'[a] = delivering[a]
    <3>1. delivering[a] \in (1 .. taken) \ lost
      BY <1>2, <2>1
    <3> QED BY <1>1, <1>2, <2>1, <3>1
  <2>2. CASE delivering'[a] = taken + 1
    BY <1>1, <1>2, <2>2
  <2> QED BY <1>4, <2>1, <2>2, Zenon
<1>7. TypeOK'
  <2>1. ToSet(delivering') \subseteq (1 .. taken') \ lost'
    BY <1>4, <1>6, ToSetMember
  <2>2. taken' \in 0 .. Len(sent') /\ lost' \subseteq 1 .. taken'
    BY <1>1, <1>2
  <2>3. completing' \in BOOLEAN
    BY <1>1
  <2> QED BY <1>1, <1>5, <2>1, <2>2, <2>3, Zenon DEF ExchangeInv, TypeOK
<1>8. InOrder'
  <2>1. ASSUME NEW a \in 1 .. Len(delivering'), NEW b \in 1 .. Len(delivering'), a < b
        PROVE  delivering'[a] < delivering'[b]
    <3>1. a \in 1 .. Len(delivering) /\ delivering'[a] = delivering[a]
      <4>1. Len(delivering') <= Len(delivering) + 1 /\ Len(delivering') \in Nat
        BY <1>2, <1>3, <1>4
      <4> QED BY <1>2, <1>4, <2>1, <4>1
    <3>2. delivering[a] \in 1 .. taken
      BY <1>2, <3>1
    <3>3. CASE b \in 1 .. Len(delivering) /\ delivering'[b] = delivering[b]
      BY <2>1, <3>1, <3>3 DEF ExchangeInv, InOrder
    <3>4. CASE delivering'[b] = taken + 1
      BY <1>2, <3>1, <3>2, <3>4
    <3> QED BY <1>4, <3>3, <3>4, Zenon
  <2>2. \A k \in 1 .. Len(got) : got[k].value \in (1 .. taken') \ lost
    BY <1>1, <1>2 DEF ExchangeInv, InOrder
  <2> QED BY <1>1, <1>4, <2>1, <2>2 DEF ExchangeInv, InOrder, Same
<1>9. NoneForgotten'
  <2> SUFFICES ASSUME outcome = "open"
               PROVE  /\ \A k \in 1 .. Len(got), a \in 1 .. Len(delivering') :
                           got[k].value < delivering'[a]
                      /\ \A i \in (1 .. taken') \ lost :
                           \/ \E k \in 1 .. Len(got) : got[k].value = i
                           \/ \E a \in 1 .. Len(delivering') : delivering'[a] = i
    BY <1>1 DEF NoneForgotten
  <2>1. \A k \in 1 .. Len(got) : got[k].value \in 1 .. taken
    BY DEF ExchangeInv, InOrder
  <2>2. ASSUME NEW k \in 1 .. Len(got), NEW a \in 1 .. Len(delivering')
        PROVE  got[k].value < delivering'[a]
    <3>1. CASE a \in 1 .. Len(delivering) /\ delivering'[a] = delivering[a]
      BY <2>2, <3>1 DEF ExchangeInv, NoneForgotten
    <3>2. CASE delivering'[a] = taken + 1
      <4>1. got[k].value \in 1 .. taken
        BY <2>1
      <4> QED BY <1>2, <3>2, <4>1
    <3> QED BY <1>4, <3>1, <3>2, Zenon
  <2>3. ASSUME NEW i \in (1 .. taken') \ lost
        PROVE  \/ \E k \in 1 .. Len(got) : got[k].value = i
               \/ \E a \in 1 .. Len(delivering') : delivering'[a] = i
    <3>1. CASE i = taken + 1
      BY <1>4, <3>1
    <3>2. CASE i # taken + 1
      <4>1. i \in (1 .. taken) \ lost
        BY <1>1, <1>2, <3>2
      <4>2. \/ \E k \in 1 .. Len(got) : got[k].value = i
            \/ \E a \in 1 .. Len(delivering) : delivering[a] = i
        BY <4>1 DEF ExchangeInv, NoneForgotten
      <4> QED BY <1>4, <4>2
    <3> QED BY <3>1, <3>2
  <2> QED BY <2>2, <2>3
<1>10. TakenIsAccountedFor'
  <2>1. Cardinality(lost) \in Nat
    <3>1. IsFiniteSet(lost)
      BY LostIsFinite
    <3> QED BY <3>1, FS_CardinalityType
  <2>2. TakenIsAccountedFor
    BY DEF ExchangeInv
  <2> QED BY <1>1, <1>2, <1>4, <2>1, <2>2 DEF TakenIsAccountedFor
<1>11. CompletesOne'
  BY <1>1 DEF CompletesOne
<1> QED BY <1>5, <1>7, <1>8, <1>9, <1>10, <1>11 DEF ExchangeInv

\* A reply that was lost is accounted for.
LEMMA LosesReplyInv == ExchangeInv /\ LosesReply => ExchangeInv'
<1> SUFFICES ASSUME ExchangeInv, LosesReply PROVE ExchangeInv'
  OBVIOUS
<1>1. /\ UNCHANGED <<responseVars, payload, oldServer, request, arrived, wire, delivering, got,
                     outcome>>
      /\ sent' = sent
      /\ completing' = FALSE /\ taken' = taken + 1 /\ lost' = lost \union {taken + 1}
      /\ taken < Len(sent)
  BY DEF LosesReply, requestVars, callerVars, responseVars
<1>2. /\ Len(sent) \in Nat /\ taken \in Nat
      /\ lost \subseteq 1 .. taken
      /\ delivering \in Seq(Nat) /\ Len(delivering) \in Nat
      /\ \A a \in 1 .. Len(delivering) : delivering[a] \in (1 .. taken) \ lost
      /\ got \in Seq(Got) /\ Len(got) \in Nat
  BY Typed
<1>3. (1 .. taken') \ lost' = (1 .. taken) \ lost
  BY <1>1, <1>2
<1>4. S!TypeOK' /\ OneResponse' /\ WireIsSent'
  BY <1>1, ResponseKept
<1>5. TypeOK'
  <2>1. taken' \in 0 .. Len(sent') /\ lost' \subseteq 1 .. taken'
    BY <1>1, <1>2
  <2>2. ToSet(delivering') \subseteq (1 .. taken') \ lost'
    BY <1>1, <1>3 DEF ExchangeInv, TypeOK
  <2>3. completing' \in BOOLEAN
    BY <1>1
  <2> QED BY <1>1, <1>4, <2>1, <2>2, <2>3, Zenon DEF ExchangeInv, TypeOK
<1>6. InOrder' /\ NoneForgotten'
  BY <1>1, <1>3 DEF ExchangeInv, InOrder, Same, NoneForgotten
<1>7. TakenIsAccountedFor'
  <2>1. IsFiniteSet(lost) /\ taken + 1 \notin lost
    BY <1>2, LostIsFinite
  <2>2. Cardinality(lost') = Cardinality(lost) + 1 /\ Cardinality(lost) \in Nat
    BY <1>1, <2>1, FS_AddElement, FS_CardinalityType
  <2> QED BY <1>1, <1>2, <2>2 DEF ExchangeInv, TakenIsAccountedFor
<1>8. CompletesOne'
  BY <1>1 DEF CompletesOne
<1> QED BY <1>4, <1>5, <1>6, <1>7, <1>8 DEF ExchangeInv

\* The first of a sequence leaves it, the others move up.
LEMMA FirstRemoved ==
  ASSUME NEW T, NEW s \in Seq(T), Len(s) > 0
  PROVE  /\ RemoveAt(s, 1) \in Seq(T) /\ Len(RemoveAt(s, 1)) = Len(s) - 1
         /\ \A i \in 1 .. Len(s) - 1 : i + 1 \in 1 .. Len(s) /\ RemoveAt(s, 1)[i] = s[i + 1]
<1>1. Len(s) \in Nat /\ s # <<>>
  BY LenProperties, EmptySeq
<1> DEFINE t == RemoveAt(s, 1)
           u == Tail(s)
<1>2. /\ u \in Seq(T) /\ Len(u) = Len(s) - 1
      /\ \A i \in 1 .. Len(u) : u[i] = s[i + 1]
  BY <1>1, HeadTailProperties
<1>3. t = u
  <2>1. t = SubSeq(s, 1, 0) \o SubSeq(s, 2, Len(s))
    BY DEF RemoveAt
  <2>2. SubSeq(s, 1, 0) = <<>> /\ SubSeq(s, 2, Len(s)) = u
    BY <1>1, SubSeqEmpty, TailIsSubSeq
  <2> HIDE DEF u
  <2> QED BY <1>2, <2>1, <2>2, ConcatEmptySeq
<1>4. \A i \in 1 .. Len(u) : i + 1 \in 1 .. Len(s)
  <2> HIDE DEF u
  <2> QED BY <1>1, <1>2
<1> HIDE DEF u
<1> QED BY <1>2, <1>3, <1>4

\* The labels of what a packet brings.
LEMMA Labels ==
  ASSUME NEW n, NEW payloads,
         NEW labels, labels = [i \in 1 .. Len(payloads) |-> [value |-> n, payload |-> payloads[i]]]
  PROVE  /\ payloads = <<>> => labels = <<>>
         /\ \A r : payloads = <<r>> => labels = <<[value |-> n, payload |-> r]>>
<1>1. ASSUME payloads = <<>>
      PROVE  labels = <<>>
  <2>1. labels = [i \in 1 .. 0 |-> [value |-> n, payload |-> payloads[i]]]
    BY <1>1
  <2>2. labels \in Seq({}) /\ Len(labels) = 0
    BY <2>1
  <2> QED BY <2>2, EmptySeq
<1>2. ASSUME NEW r, payloads = <<r>>
      PROVE  labels = <<[value |-> n, payload |-> r]>>
  <2> DEFINE e == [value |-> n, payload |-> r]
  <2>1. labels = [i \in 1 .. 1 |-> [value |-> n, payload |-> payloads[i]]]
    BY <1>2
  <2>2. payloads[1] = r
    BY <1>2
  <2>3. labels[1] = e
    BY <2>1, <2>2
  <2>4. \A i \in 1 .. 1 : labels[i] = e
    BY <2>3
  <2> HIDE DEF e
  <2>5. labels \in Seq({e}) /\ Len(labels) = 1
    BY <2>1, <2>4
  <2>6. <<e>> \in Seq({e}) /\ Len(<<e>>) = 1 /\ <<e>>[1] = e
    OBVIOUS
  <2>7. labels = <<e>>
    BY <2>4, <2>5, <2>6, SeqEqual
  <2> QED BY <2>7 DEF e
<1> QED BY <1>1, <1>2

\* A packet that shows the caller no value adds none to what it got.
LEMMA NothingLabelled ==
  ASSUME NEW n, NEW payloads, payloads = <<>>, Labelled(payloads, n), got \in Seq(Got)
  PROVE  got' = got
<1>1. PICK labels : labels = [i \in 1 .. Len(payloads) |-> [value |-> n, payload |-> payloads[i]]]
  OBVIOUS
<1>2. labels = <<>>
  BY <1>1, Labels
<1>3. got' = got \o labels
  BY <1>1 DEF Labelled
<1> QED BY <1>2, <1>3, ConcatEmptySeq

\* What the turn of the reply d does: nothing to a call that is over; else the
\* caller gets its value, or its end.
GetsValue(d) ==
  /\ outcome = "open" /\ sent[d].value = d
  /\ \E e \in Got : got' = Append(got, e) /\ e.value = d /\ Same(e.payload)
  /\ outcome' = IF sent[d].end THEN "completed" ELSE "open"

GetsEnd(d) ==
  /\ outcome = "open" /\ sent[d].value = 0
  /\ got' = got /\ outcome' \in {"completed", "failed"}
  /\ outcome' = "completed" /\ sent[d].err =>
       R!Proper(sent[d], d, source, emitted) /\ ToReplyError(payload.error) = "falsy"

GetsNothing == outcome # "open" /\ got' = got /\ outcome' = outcome

\* A value is sent at its own place.
LEMMA ValueInPlace ==
  ASSUME ExchangeInv, NEW d \in 1 .. Len(sent), sent[d].value # 0
  PROVE  sent[d].value = d /\ d \in 1 .. MaxValues /\ d <= emitted
<1>1. R!Proper(sent[d], d, source, emitted)
  BY SentInPlace DEF R!Error
<1> QED BY <1>1, SentInPlace, SameStream DEF R!Proper

\* Delivering a reply takes the oldest one of the chain, and shows the caller a
\* value, an end, or nothing.
LEMMA Delivers ==
  ASSUME ExchangeInv, Deliver
  PROVE  /\ Len(delivering) > 0 /\ delivering' = RemoveAt(delivering, 1)
         /\ UNCHANGED <<responseVars, requestVars, wire, taken, completing, lost>>
         /\ GetsValue(delivering[1]) \/ GetsEnd(delivering[1]) \/ GetsNothing
<1>1. /\ DeserializedAt(1) /\ delivering' = RemoveAt(delivering, 1)
      /\ 1 \in DOMAIN delivering
      /\ UNCHANGED <<responseVars, requestVars, wire, taken, completing, lost>>
  BY DEF Deliver, Turn
<1>2. /\ Len(delivering) \in Nat /\ Len(delivering) > 0
      /\ delivering[1] \in (1 .. taken) \ lost /\ delivering[1] \in 1 .. Len(sent)
      /\ got \in Seq(Got)
  BY <1>1, Typed
<1>3. PICK d : d = delivering[1]
  OBVIOUS
<1>4. PICK packet \in Deserialized(ReadReply(wire[d])) :
        LET caller == Delivered([got |-> <<>>, outcome |-> outcome], packet)
        IN  outcome' = caller.outcome /\ Labelled(caller.got, sent[d].value)
  BY <1>1, <1>3 DEF DeserializedAt
<1>5. d \in 1 .. Len(sent) /\ Faithful(d, packet)
  BY <1>2, <1>3 DEF ExchangeInv, WireIsSent
<1>6. CASE outcome # "open"
  <2>1. outcome' = outcome /\ Labelled(<<>>, sent[d].value)
    <3>1. Delivered([got |-> <<>>, outcome |-> outcome], packet)
            = [got |-> <<>>, outcome |-> outcome]
      BY <1>6, NothingToAClosedCall
    <3> QED BY <1>4, <3>1
  <2>2. got' = got
    BY <1>2, <2>1, NothingLabelled
  <2> QED BY <1>1, <1>2, <1>6, <2>1, <2>2 DEF GetsNothing
<1>7. CASE outcome = "open"
  <2>1. outcome' = Shows(packet).outcome /\ Labelled(Shows(packet).got, sent[d].value)
    BY <1>4, <1>7 DEF Shows
  <2>2. CASE sent[d].value # 0
    <3> DEFINE r == packet.response
               e == [value |-> d, payload |-> r]
    <3>1. Shows(packet).got = <<r>> /\ Same(r)
          /\ Shows(packet).outcome = IF sent[d].end THEN "completed" ELSE "open"
      BY <1>5, <2>2 DEF Faithful
    <3>2. sent[d].value = d /\ d \in 1 .. MaxValues
      BY <1>5, <2>2, ValueInPlace
    <3>3. e \in Got
      BY <3>1, <3>2 DEF Got, Same
    <3>4. got' = got \o <<e>>
      <4>1. Labelled(<<r>>, d)
        BY <2>1, <3>1, <3>2
      <4> HIDE DEF r
      <4> QED BY <4>1, Labels DEF Labelled
    <3>5. e.value = d /\ e.payload = r
      OBVIOUS
    <3>6. got' = Append(got, e)
      <4> HIDE DEF e
      <4> QED BY <1>2, <3>3, <3>4, AppendIsConcat
    <3>7. \E g \in Got : got' = Append(got, g) /\ g.value = d /\ Same(g.payload)
      <4> HIDE DEF e, r
      <4> QED BY <3>1, <3>3, <3>5, <3>6
    <3> QED BY <1>1, <1>2, <1>3, <1>7, <2>1, <3>1, <3>2, <3>7 DEF GetsValue
  <2>3. CASE sent[d].value = 0
    <3>1. /\ Shows(packet).got = <<>> /\ Shows(packet).outcome \in {"completed", "failed"}
          /\ Shows(packet).outcome = "completed" /\ sent[d].err =>
               /\ R!Proper(sent[d], d, source, emitted)
               /\ ToReplyError(payload.error) = "falsy"
      BY <1>5, <2>3 DEF Faithful
    <3>2. got' = got
      BY <1>2, <2>1, <3>1, NothingLabelled
    <3> QED BY <1>1, <1>2, <1>3, <1>7, <2>1, <2>3, <3>1, <3>2 DEF GetsEnd
  <2> QED BY <2>2, <2>3
<1> QED BY <1>6, <1>7

\* The turn of the first reply is over, and what it brought, if it did.
LEMMA TurnKeeps ==
  ASSUME ExchangeInv, Len(delivering) > 0, delivering' = RemoveAt(delivering, 1),
         UNCHANGED <<responseVars, requestVars, wire, taken, completing, lost>>,
         GetsValue(delivering[1]) \/ (got' = got /\ outcome' \in {"completed", "failed", "left"})
  PROVE  ExchangeInv'
<1>1. /\ sent' = sent /\ UNCHANGED <<payload, oldServer, request, arrived>>
      /\ taken' = taken /\ lost' = lost /\ completing' = completing
  BY DEF responseVars, requestVars
<1>2. /\ Len(sent) \in Nat /\ taken \in Nat /\ taken <= Len(sent)
      /\ lost \subseteq 1 .. taken
      /\ delivering \in Seq(Nat) /\ Len(delivering) \in Nat
      /\ \A a \in 1 .. Len(delivering) : delivering[a] \in (1 .. taken) \ lost
      /\ got \in Seq(Got) /\ Len(got) \in Nat
  BY Typed
<1>3. /\ delivering' \in Seq(Nat) /\ Len(delivering') = Len(delivering) - 1
      /\ \A a \in 1 .. Len(delivering') :
           a + 1 \in 1 .. Len(delivering) /\ delivering'[a] = delivering[a + 1]
  BY <1>2, FirstRemoved
<1>4. PICK d : d = delivering[1]
  OBVIOUS
<1>5. d \in (1 .. taken) \ lost /\ 1 \in 1 .. Len(delivering) /\ d \in Nat
  BY <1>2, <1>4
<1>6. \A a \in 1 .. Len(delivering') : d < delivering'[a] /\ delivering'[a] \in (1 .. taken) \ lost
  <2> SUFFICES ASSUME NEW a \in 1 .. Len(delivering')
               PROVE  d < delivering'[a] /\ delivering'[a] \in (1 .. taken) \ lost
    OBVIOUS
  <2>1. a + 1 \in 1 .. Len(delivering) /\ delivering'[a] = delivering[a + 1] /\ 1 < a + 1
    BY <1>2, <1>3
  <2> QED BY <1>2, <1>4, <1>5, <2>1 DEF ExchangeInv, InOrder
<1>7. S!TypeOK' /\ OneResponse' /\ WireIsSent'
  BY <1>1, ResponseKept
<1>8. outcome' \in {"open", "completed", "failed", "left"}
  BY DEF GetsValue
<1>9. TypeOK'
  <2>1. ToSet(delivering') \subseteq (1 .. taken) \ lost
    BY <1>3, <1>6, ToSetMember
  <2>2. wire' = wire
    OBVIOUS
  <2> QED BY <1>1, <1>7, <1>8, <2>1, <2>2, Zenon DEF ExchangeInv, TypeOK
<1>10. CompletesOne'
  BY <1>1 DEF ExchangeInv, CompletesOne
<1>11. \A a, b \in 1 .. Len(delivering') : a < b => delivering'[a] < delivering'[b]
  <2> SUFFICES ASSUME NEW a \in 1 .. Len(delivering'), NEW b \in 1 .. Len(delivering'), a < b
               PROVE  delivering'[a] < delivering'[b]
    OBVIOUS
  <2>1. a + 1 \in 1 .. Len(delivering) /\ b + 1 \in 1 .. Len(delivering) /\ a + 1 < b + 1
    BY <1>2, <1>3
  <2> QED BY <1>3, <2>1 DEF ExchangeInv, InOrder
<1>12. CASE got' = got /\ outcome' # "open"
  BY <1>1, <1>3, <1>7, <1>9, <1>10, <1>11, <1>12
     DEF ExchangeInv, InOrder, Same, NoneForgotten, TakenIsAccountedFor
<1>13. CASE GetsValue(d)
  <2>1. PICK e \in Got : got' = Append(got, e) /\ e.value = d /\ Same(e.payload)
    BY <1>13 DEF GetsValue
  <2>2. outcome = "open" /\ sent[d].value = d
    BY <1>13 DEF GetsValue
  <2>3. /\ got' \in Seq(Got) /\ Len(got') = Len(got) + 1 /\ got'[Len(got) + 1] = e
        /\ \A k \in 1 .. Len(got) : got'[k] = got[k]
    BY <1>2, <2>1, AppendProperties
  <2>4. \A k \in 1 .. Len(got') : (k \in 1 .. Len(got) /\ got'[k] = got[k]) \/ got'[k] = e
    BY <1>2, <2>3
  <2>5. Len(got) + 1 \in 1 .. Len(got') /\ \A k \in 1 .. Len(got) : k \in 1 .. Len(got')
    BY <1>2, <2>3
  <2>6. InOrder'
    <3>1. ASSUME NEW k \in 1 .. Len(got')
          PROVE  /\ got'[k].value \in (1 .. taken) \ lost
                 /\ sent[got'[k].value].value = got'[k].value
                 /\ Same(got'[k].payload)
      <4>1. CASE k \in 1 .. Len(got) /\ got'[k] = got[k]
        BY <4>1 DEF ExchangeInv, InOrder
      <4>2. CASE got'[k] = e
        BY <1>5, <2>1, <2>2, <4>2
      <4> QED BY <2>4, <4>1, <4>2
    <3> QED BY <1>1, <1>3, <1>11, <2>3, <3>1 DEF InOrder, Same
  <2>7. NoneForgotten'
    <3>1. ASSUME NEW k \in 1 .. Len(got'), NEW a \in 1 .. Len(delivering')
          PROVE  got'[k].value < delivering'[a]
      <4>1. CASE k \in 1 .. Len(got) /\ got'[k] = got[k]
        <5>1. a + 1 \in 1 .. Len(delivering) /\ delivering'[a] = delivering[a + 1]
          BY <1>3
        <5> QED BY <2>2, <4>1, <5>1 DEF ExchangeInv, NoneForgotten
      <4>2. CASE got'[k] = e
        BY <1>6, <2>1, <4>2
      <4> QED BY <2>4, <4>1, <4>2
    <3>2. ASSUME NEW i \in (1 .. taken) \ lost
          PROVE  \/ \E k \in 1 .. Len(got') : got'[k].value = i
                 \/ \E a \in 1 .. Len(delivering') : delivering'[a] = i
      <4>1. CASE \E k \in 1 .. Len(got) : got[k].value = i
        BY <2>3, <2>5, <4>1
      <4>2. ASSUME NEW a \in 1 .. Len(delivering), delivering[a] = i
            PROVE  \/ \E k \in 1 .. Len(got') : got'[k].value = i
                   \/ \E b \in 1 .. Len(delivering') : delivering'[b] = i
        <5>1. CASE a = 1
          BY <1>4, <2>1, <2>3, <2>5, <4>2, <5>1
        <5>2. CASE a # 1
          <6>1. PICK b : b = a - 1
            OBVIOUS
          <6>2. b \in 1 .. Len(delivering') /\ b + 1 = a
            BY <1>2, <1>3, <5>2, <6>1
          <6> QED BY <1>3, <4>2, <6>2
        <5> QED BY <5>1, <5>2
      <4> QED BY <2>2, <4>1, <4>2 DEF ExchangeInv, NoneForgotten
    <3> QED BY <1>1, <3>1, <3>2 DEF NoneForgotten
  <2>8. TakenIsAccountedFor'
    <3>1. Cardinality(lost) \in Nat
      BY LostIsFinite, FS_CardinalityType
    <3> QED BY <1>1, <1>2, <1>3, <2>2, <2>3, <3>1 DEF ExchangeInv, TakenIsAccountedFor
  <2> QED BY <1>7, <1>9, <1>10, <2>6, <2>7, <2>8 DEF ExchangeInv
<1> QED BY <1>4, <1>12, <1>13

\* Delivering a reply keeps the invariant.
LEMMA DeliversInv == ExchangeInv /\ Deliver => ExchangeInv'
<1> SUFFICES ASSUME ExchangeInv, Deliver PROVE ExchangeInv'
  OBVIOUS
<1>1. Len(delivering) > 0 /\ delivering' = RemoveAt(delivering, 1)
      /\ UNCHANGED <<responseVars, requestVars, wire, taken, completing, lost>>
      /\ (GetsValue(delivering[1]) \/ GetsEnd(delivering[1]) \/ GetsNothing)
  BY Delivers
<1>2. GetsEnd(delivering[1]) => got' = got /\ outcome' \in {"completed", "failed", "left"}
  BY DEF GetsEnd
<1>3. GetsNothing => got' = got /\ outcome' \in {"completed", "failed", "left"}
  BY DEF GetsNothing, ExchangeInv, TypeOK
<1> QED BY <1>1, <1>2, <1>3, TurnKeeps

\* A reply whose deserializer rejects fails the call, and the next have their turn.
LEMMA RejectsInv ==
  ASSUME ExchangeInv, DeserializeFails
  PROVE  /\ ExchangeInv'
         /\ UNCHANGED <<responseVars, requestVars, wire, taken, completing, lost, got>>
         /\ outcome' = IF outcome = "open" THEN "failed" ELSE outcome
<1>1. /\ delivering' = RemoveAt(delivering, 1) /\ 1 \in DOMAIN delivering
      /\ UNCHANGED <<responseVars, requestVars, wire, taken, completing, lost, got>>
      /\ outcome' = IF outcome = "open" THEN "failed" ELSE outcome
  BY DEF DeserializeFails, Turn, CallEnds
<1>2. Len(delivering) > 0
  BY <1>1, Typed
<1>3. outcome' \in {"completed", "failed", "left"}
  BY <1>1 DEF ExchangeInv, TypeOK
<1> QED BY <1>1, <1>2, <1>3, TurnKeeps

\* Every step of the exchange keeps the invariant.
LEMMA ExchangeStep == ExchangeInv /\ [Next]_vars => ExchangeInv'
<1> SUFFICES ASSUME ExchangeInv, [Next]_vars PROVE ExchangeInv'
  OBVIOUS
<1>1. CASE \/ Publish \/ PublishThrows \/ RequestArrives \/ RequestSent \/ RequestFails
           \/ CallFails \/ Unsubscribe \/ ProcessMessage \/ CompletionFails
           \/ UNCHANGED vars
  BY <1>1, RequestInv
<1>2. CASE Responds \/ OldServerResponds
  BY <1>2, RespondsInv, OldServerInv
<1>3. CASE Completed \/ LosesReply
  BY <1>3, CompletedInv, LosesReplyInv
<1>4. CASE Deliver \/ DeserializeFails
  BY <1>4, DeliversInv, RejectsInv
<1> QED BY <1>1, <1>2, <1>3, <1>4 DEF Next

\* The response, its messages, the replies on their way and what the caller has
\* stay in step, whatever the server, the broker and the caller do.
THEOREM ExchangeInvariant == Spec => []ExchangeInv
BY InitExchange, ExchangeStep, PTL DEF Spec

-----------------------------------------------------------------------------
(* What the invariant gives *)

\* Types; each reply sent has its message, none is taken that was not sent, and
\* none is delivered that was lost.
THEOREM ExchangeTypes == Spec => []TypeOK
<1>1. ExchangeInv => TypeOK
  BY DEF ExchangeInv
<1> QED BY <1>1, ExchangeInvariant, PTL

\* Settling a reply before it is delivered forgets none while the caller waits.
THEOREM NoReplyForgotten == Spec => []TakenIsAccountedFor
<1>1. ExchangeInv => TakenIsAccountedFor
  BY DEF ExchangeInv
<1> QED BY <1>1, ExchangeInvariant, PTL

\* The caller gets each payload as what it was, whichever reply carried it.
THEOREM PayloadsArrive == Spec => []ValuesIntact
<1>1. ExchangeInv => ValuesIntact
  <2> SUFFICES ASSUME ExchangeInv, NEW i \in DOMAIN got
               PROVE  IF Nullish(payload.value) THEN Nullish(got[i].payload)
                      ELSE got[i].payload = payload.value
    BY DEF ValuesIntact
  <2>1. i \in 1 .. Len(got)
    BY Typed
  <2> QED BY <2>1 DEF ExchangeInv, InOrder, Same
<1> QED BY <1>1, ExchangeInvariant, PTL

-----------------------------------------------------------------------------
(* Exchange implements Response *)

LEMMA InitPromise == Init => Promise!Init
<1> SUFFICES ASSUME Init PROVE Promise!Init
  OBVIOUS
<1>1. R!Init
  BY SameStream DEF Init
<1>2. emitted = 0 /\ source = "none"
  BY <1>1 DEF R!Init
<1>3. Over = "no"
  BY <1>2 DEF Over, ReadsAsCompleted
<1>4. LostValues = {}
  BY DEF Init, LostValues
<1>5. GotValues = <<>>
  <2>1. got = <<>> /\ DOMAIN got = {}
    BY DEF Init
  <2>2. GotValues = [i \in {} |-> got[i].value]
    BY <2>1 DEF GotValues
  <2>3. <<>> = [i \in {} |-> got[i].value]
    OBVIOUS
  <2> QED BY <2>2, <2>3
<1>6. outcome = "open"
  BY DEF Init
<1> QED BY <1>2, <1>3, <1>4, <1>5, <1>6 DEF Promise!Init

\* What the caller has, without the payloads.
LEMMA GotValuesAre ==
  ASSUME ExchangeInv
  PROVE  /\ GotValues \in Seq(1 .. MaxValues) /\ Len(GotValues) = Len(got)
         /\ DOMAIN GotValues = 1 .. Len(got)
         /\ \A k \in 1 .. Len(got) : GotValues[k] = got[k].value
         /\ ToSet(GotValues) = {got[k].value : k \in 1 .. Len(got)}
<1>1. got \in Seq(Got) /\ Len(got) \in Nat /\ DOMAIN got = 1 .. Len(got)
  BY Typed, LenProperties
<1>2. \A k \in 1 .. Len(got) : got[k].value \in 1 .. MaxValues
  <2>1. \A k \in 1 .. Len(got) : got[k] \in Got
    BY <1>1, ElementOfSeq
  <2> QED BY <2>1 DEF Got
<1>3. GotValues = [k \in 1 .. Len(got) |-> got[k].value]
  BY <1>1 DEF GotValues
<1>4. GotValues \in Seq(1 .. MaxValues) /\ Len(GotValues) = Len(got)
  BY <1>1, <1>2, <1>3
<1>5. DOMAIN GotValues = 1 .. Len(got) /\ \A k \in 1 .. Len(got) : GotValues[k] = got[k].value
  BY <1>3
<1> QED BY <1>4, <1>5 DEF ToSet

\* One more value is one more value.
LEMMA GotValuesGrow ==
  ASSUME ExchangeInv, ExchangeInv', NEW e \in Got, got' = Append(got, e)
  PROVE  GotValues' = Append(GotValues, e.value)
<1>1. got \in Seq(Got) /\ Len(got) \in Nat
  BY Typed
<1>2. /\ Len(got') = Len(got) + 1 /\ got'[Len(got) + 1] = e
      /\ \A k \in 1 .. Len(got) : got'[k] = got[k]
  BY <1>1, AppendProperties
<1>3. /\ GotValues \in Seq(1 .. MaxValues) /\ Len(GotValues) = Len(got)
      /\ \A k \in 1 .. Len(got) : GotValues[k] = got[k].value
  BY GotValuesAre
<1>4. /\ GotValues' \in Seq(1 .. MaxValues) /\ Len(GotValues') = Len(got')
      /\ \A k \in 1 .. Len(got') : GotValues'[k] = got'[k].value
  <2>1. got' \in Seq(Got) /\ Len(got') \in Nat /\ DOMAIN got' = 1 .. Len(got')
    BY <1>1, AppendProperties, LenProperties
  <2>2. \A k \in 1 .. Len(got') : got'[k].value \in 1 .. MaxValues
    <3>1. \A k \in 1 .. Len(got') : got'[k] \in Got
      BY <2>1, ElementOfSeq
    <3> QED BY <3>1 DEF Got
  <2>3. GotValues' = [k \in 1 .. Len(got') |-> got'[k].value]
    BY <2>1 DEF GotValues
  <2> QED BY <2>1, <2>2, <2>3
<1>5. e.value \in 1 .. MaxValues
  BY DEF Got
<1>6. /\ Append(GotValues, e.value) \in Seq(1 .. MaxValues)
      /\ Len(Append(GotValues, e.value)) = Len(GotValues) + 1
      /\ Append(GotValues, e.value)[Len(GotValues) + 1] = e.value
      /\ \A k \in 1 .. Len(GotValues) : Append(GotValues, e.value)[k] = GotValues[k]
  BY <1>3, <1>5, AppendProperties
<1>7. \A k \in 1 .. Len(GotValues') : GotValues'[k] = Append(GotValues, e.value)[k]
  <2> SUFFICES ASSUME NEW k \in 1 .. Len(GotValues')
               PROVE  GotValues'[k] = Append(GotValues, e.value)[k]
    OBVIOUS
  <2>1. CASE k = Len(got) + 1
    BY <1>2, <1>3, <1>4, <1>6, <2>1
  <2>2. CASE k # Len(got) + 1
    <3>1. k \in 1 .. Len(got)
      BY <1>1, <1>2, <1>4, <2>2
    <3> QED BY <1>2, <1>3, <1>4, <1>6, <3>1
  <2> QED BY <2>1, <2>2
<1>8. Len(GotValues') = Len(Append(GotValues, e.value))
  BY <1>2, <1>3, <1>4, <1>6
<1> QED BY <1>4, <1>6, <1>7, <1>8, SeqEqual

\* Response and Exchange mean the same by the elements of a sequence.
LEMMA SameSet == \A s : Promise!ToSet(s) = ToSet(s)
BY DEF Promise!ToSet, ToSet

\* Steps that change none of what Response speaks of are stuttering steps of it.
LEMMA NothingNew ==
  ASSUME emitted' = emitted, Over' = Over, LostValues' = LostValues, GotValues' = GotValues,
         outcome' = outcome
  PROVE  UNCHANGED Promise!vars
BY DEF Promise!vars

\* The end of the call is a step of Response, if it was not over.
LEMMA CallStops ==
  ASSUME emitted' = emitted, Over' = Over, LostValues' = LostValues, GotValues' = GotValues,
         outcome' \in {outcome, "failed", "left"}, outcome # "open" => outcome' = outcome
  PROVE  [Promise!Next]_Promise!vars
<1>1. CASE outcome' = outcome
  BY <1>1, NothingNew
<1>2. CASE outcome' # outcome
  BY <1>2 DEF Promise!Next, Promise!Stop
<1> QED BY <1>1, <1>2

\* The losses are those of the replies taken, which the response does not change.
LEMMA LossesKept ==
  ASSUME ExchangeInv, lost' = lost, \A i \in 1 .. Len(sent) : sent'[i] = sent[i]
  PROVE  LostValues' = LostValues
<1>1. lost \subseteq 1 .. Len(sent)
  BY Typed
<1> QED BY <1>1 DEF LostValues

\* A step of the server is the production of a value or of the end.
LEMMA RespondsProduces ==
  ASSUME ExchangeInv, Responds
  PROVE  [Promise!Next]_Promise!vars
<1>1. /\ payload' = payload /\ lost' = lost /\ got' = got /\ outcome' = outcome
  BY DEF Responds, requestVars, replyVars, callerVars
<1>2. /\ emitted' \in {emitted, emitted + 1}
      /\ source \notin {"none", "subscribed"} => source' = source /\ emitted' = emitted
  BY ResponseGoesOn
<1>3. \A i \in 1 .. Len(sent) : sent'[i] = sent[i]
  <2>1. sent \in Seq(R!Packet)
    BY Typed
  <2>2. ASSUME NEW p \in R!Packet, sent' = Append(sent, p)
        PROVE  \A i \in 1 .. Len(sent) : sent'[i] = sent[i]
    BY <2>1, <2>2, AppendProperties
  <2>3. sent' = sent \/ \E p \in R!Packet : sent' = Append(sent, p)
    BY ResponseGoesOn
  <2> QED BY <2>2, <2>3
<1>4. LostValues' = LostValues /\ GotValues' = GotValues
  BY <1>1, <1>3, LossesKept DEF GotValues
<1>5. CASE Over = "no"
  <2>1. Over' \in {"no", "completed", "errored"}
    BY DEF Over
  <2> QED BY <1>1, <1>2, <1>4, <1>5, <2>1 DEF Promise!Next, Promise!Produce
<1>6. CASE Over # "no"
  <2>1. source \in {"completed", "errored"}
    BY <1>6 DEF Over, ReadsAsCompleted
  <2>2. source' = source /\ emitted' = emitted
    BY <1>2, <2>1
  <2>3. Over' = Over
    BY <1>1, <2>2 DEF Over, ReadsAsCompleted
  <2> QED BY <1>1, <1>4, <2>2, <2>3, NothingNew
<1> QED BY <1>5, <1>6

\* The answer of an old server is a value of Response, or its end.
LEMMA OldServerProduces ==
  ASSUME ExchangeInv, OldServerResponds
  PROVE  [Promise!Next]_Promise!vars
<1>1. /\ payload' = payload /\ lost' = lost /\ got' = got /\ outcome' = outcome
      /\ sent = <<>> /\ emitted' = 1 /\ source' = "completed"
  BY DEF OldServerResponds, requestVars, replyVars, callerVars
<1>2. emitted = 0 /\ source = "none"
  BY <1>1 DEF OldServerResponds, ExchangeInv, OneResponse
<1>3. LostValues' = LostValues /\ GotValues' = GotValues
  BY <1>1, LossesKept DEF GotValues
<1>4. Over = "no" /\ Over' = "completed"
  BY <1>1, <1>2 DEF Over, ReadsAsCompleted
<1> QED BY <1>1, <1>2, <1>3, <1>4 DEF Promise!Next, Promise!Produce

\* The reply that is lost may carry a value, and then that value is.
LEMMA LossIsSeen ==
  ASSUME ExchangeInv, LosesReply
  PROVE  [Promise!Next]_Promise!vars
<1>1. /\ payload' = payload /\ got' = got /\ outcome' = outcome /\ emitted' = emitted
      /\ source' = source /\ sent' = sent /\ taken < Len(sent)
      /\ lost' = lost \union {taken + 1}
  BY DEF LosesReply, requestVars, callerVars, responseVars
<1>2. Over' = Over /\ GotValues' = GotValues
  BY <1>1 DEF Over, ReadsAsCompleted, GotValues
<1>3. taken + 1 \in 1 .. Len(sent)
  BY <1>1, Typed
<1>4. LostValues' = LostValues \union ({sent[taken + 1].value} \ {0})
  BY <1>1 DEF LostValues
<1>5. CASE sent[taken + 1].value = 0
  BY <1>1, <1>2, <1>4, <1>5, NothingNew
<1>6. CASE sent[taken + 1].value # 0
  <2>1. PICK n : n = sent[taken + 1].value
    OBVIOUS
  <2>2. n = taken + 1 /\ n \in 1 .. emitted
    BY <1>3, <1>6, <2>1, ValueInPlace, SentInPlace
  <2>3. LostValues' = LostValues \union {n}
    BY <1>4, <1>6, <2>1
  <2> QED BY <1>1, <1>2, <2>2, <2>3 DEF Promise!Next, Promise!Lose
<1> QED BY <1>5, <1>6

\* A reply at its place comes after all the values before it, whether or not it
\* carries one itself.
LEMMA ValuesBefore ==
  ASSUME ExchangeInv, NEW d \in 1 .. Len(sent), R!Proper(sent[d], d, source, emitted),
         NEW j \in 1 .. d - 1
  PROVE  j \in 1 .. Len(sent) /\ sent[j].value = j
<1>1. /\ Len(sent) \in Nat /\ emitted \in Nat
      /\ sent[d].value \in Nat
  BY SentInPlace DEF R!Packet
<1>2. j \in 1 .. Len(sent) /\ j < d /\ j # Len(sent)
  BY <1>1
<1>3. R!Proper(sent[j], j, source, emitted)
  BY <1>2, SentInPlace
<1>4. emitted >= d - 1
  BY <1>1 DEF R!Proper
<1>5. CASE sent[j].value = 0
  <2>1. sent[j].end /\ emitted = j - 1
    BY <1>3, <1>5 DEF R!Proper
  <2> QED BY <1>1, <1>2, <1>4, <2>1
<1> QED BY <1>2, <1>3, <1>5 DEF R!Proper

\* When the turn of a reply comes and the call is open, the caller has the values
\* before it, but for those that were lost; and no value after them.
LEMMA HasBefore ==
  ASSUME ExchangeInv, outcome = "open", Len(delivering) > 0,
         NEW d, d = delivering[1], R!Proper(sent[d], d, source, emitted)
  PROVE  /\ d \in 1 .. Len(sent) /\ d \in Nat
         /\ Promise!Has(GotValues, 1 .. d - 1)
         /\ \A k \in 1 .. Len(got) : got[k].value < d
<1>1. /\ Len(sent) \in Nat /\ taken \in Nat /\ taken <= Len(sent)
      /\ Len(delivering) \in Nat /\ 1 \in 1 .. Len(delivering)
      /\ d \in (1 .. taken) \ lost
  BY Typed
<1>2. d \in 1 .. Len(sent) /\ d \in Nat
  BY <1>1
<1>3. \A k \in 1 .. Len(got) : got[k].value < d
  BY <1>1 DEF ExchangeInv, NoneForgotten
<1>4. ASSUME NEW j \in 1 .. d - 1
      PROVE  j \in ToSet(GotValues) \/ j \in LostValues
  <2>1. j \in 1 .. taken
    BY <1>1, <1>2
  <2>2. sent[j].value = j /\ j # 0
    BY <1>2, ValuesBefore
  <2>3. CASE j \in lost
    BY <2>2, <2>3 DEF LostValues
  <2>4. CASE j \notin lost
    <3>1. ASSUME NEW a \in 1 .. Len(delivering), delivering[a] = j
          PROVE  FALSE
      <4>1. a = 1 \/ 1 < a
        BY <1>1
      <4>2. a # 1 => delivering[1] < delivering[a]
        BY <1>1, <4>1 DEF ExchangeInv, InOrder
      <4> QED BY <1>2, <3>1, <4>2
    <3>2. \E k \in 1 .. Len(got) : got[k].value = j
      BY <2>1, <2>4, <3>1 DEF ExchangeInv, NoneForgotten
    <3> QED BY <3>2, GotValuesAre
  <2> QED BY <2>3, <2>4
<1> QED BY <1>2, <1>3, <1>4, SameSet DEF Promise!Has

\* The value d is received: in its turn, and only once.
LEMMA ValueReceived ==
  ASSUME ExchangeInv, ExchangeInv', Len(delivering) > 0, NEW d, d = delivering[1],
         R!Proper(sent[d], d, source, emitted), sent[d].value # 0, GetsValue(d),
         LostValues' = LostValues
  PROVE  /\ outcome = "open" /\ d \in 1 .. emitted
         /\ Promise!Receives(d)
         /\ Promise!Has(GotValues', 1 .. d)
<1>1. outcome = "open"
  BY DEF GetsValue
<1>2. /\ d \in 1 .. Len(sent) /\ d \in Nat
      /\ Promise!Has(GotValues, 1 .. d - 1)
      /\ \A k \in 1 .. Len(got) : got[k].value < d
  BY <1>1, HasBefore
<1>3. d \in 1 .. emitted
  BY <1>2, ValueInPlace, SentInPlace
<1>4. PICK e \in Got : got' = Append(got, e) /\ e.value = d
  BY DEF GetsValue
<1>5. GotValues' = Append(GotValues, d)
  BY <1>4, GotValuesGrow
<1>6. /\ DOMAIN GotValues = 1 .. Len(got) /\ Len(GotValues) = Len(got)
      /\ GotValues \in Seq(1 .. MaxValues)
      /\ \A k \in 1 .. Len(got) : GotValues[k] = got[k].value /\ got[k].value \in 1 .. MaxValues
      /\ ToSet(GotValues) = {got[k].value : k \in 1 .. Len(got)}
  <2>1. \A k \in 1 .. Len(got) : got[k] \in Got
    BY Typed, ElementOfSeq
  <2> QED BY <2>1, GotValuesAre DEF Got
<1>7. \A k \in DOMAIN GotValues : GotValues[k] < d
  BY <1>2, <1>6
<1>8. d \notin ToSet(GotValues)
  <2> SUFFICES ASSUME NEW k \in 1 .. Len(got), got[k].value = d PROVE FALSE
    BY <1>6
  <2>1. d < d
    BY <1>2
  <2> QED BY <1>2, <2>1
<1>9. Promise!Receives(d)
  BY <1>2, <1>5, <1>7, <1>8, SameSet DEF Promise!Receives
<1>10. ToSet(GotValues') = ToSet(GotValues) \union {d}
  <2>1. /\ Len(GotValues) \in Nat /\ Len(GotValues') = Len(GotValues) + 1
        /\ GotValues'[Len(GotValues) + 1] = d /\ GotValues' \in Seq(Nat)
        /\ GotValues \in Seq(Nat)
        /\ \A k \in 1 .. Len(GotValues) : GotValues'[k] = GotValues[k]
    <3>1. GotValues \in Seq(Nat)
      <4>1. 1 .. MaxValues \subseteq Nat
        BY SameStream
      <4> QED BY <1>6, <4>1, SeqMonotonic
    <3> QED BY <1>2, <1>5, <3>1, AppendProperties, LenProperties
  <2>2. ToSet(GotValues') = {GotValues'[k] : k \in 1 .. Len(GotValues')}
        /\ ToSet(GotValues) = {GotValues[k] : k \in 1 .. Len(GotValues)}
    BY <2>1, ToSetMember
  <2>3. PICK n, m : n = Len(GotValues) /\ m = Len(GotValues')
    OBVIOUS
  <2>4. 1 .. m = (1 .. n) \union {n + 1}
    BY <2>1, <2>3
  <2>5. \A k \in 1 .. n : GotValues'[k] = GotValues[k]
    BY <2>1, <2>3
  <2>6. GotValues'[n + 1] = d
    BY <2>1, <2>3
  <2>7. ASSUME NEW x PROVE x \in ToSet(GotValues') <=> x \in ToSet(GotValues) \/ x = d
    BY <2>2, <2>3, <2>4, <2>5, <2>6
  <2> QED BY <2>7
<1>11. Promise!Has(GotValues', 1 .. d)
  <2>1. \A j \in 1 .. d : j \in 1 .. d - 1 \/ j = d
    BY <1>2
  <2> QED BY <1>2, <1>10, <2>1, SameSet DEF Promise!Has
<1> QED BY <1>1, <1>3, <1>9, <1>11

\* A turn is the receipt of a value, of a completion or of both, a failure, or
\* nothing to a call that is over.
LEMMA DeliversPromise ==
  ASSUME ExchangeInv, ExchangeInv', Deliver
  PROVE  [Promise!Next]_Promise!vars
<1>1. /\ Len(delivering) > 0
      /\ UNCHANGED <<responseVars, requestVars, wire, taken, completing, lost>>
      /\ GetsValue(delivering[1]) \/ GetsEnd(delivering[1]) \/ GetsNothing
  BY Delivers
<1>2. /\ payload' = payload /\ emitted' = emitted /\ source' = source /\ sent' = sent
      /\ lost' = lost
  BY <1>1 DEF requestVars, responseVars
<1>3. Over' = Over /\ LostValues' = LostValues
  BY <1>2 DEF Over, ReadsAsCompleted, LostValues
<1>4. PICK d : d = delivering[1]
  OBVIOUS
<1>5. d \in 1 .. Len(sent) /\ Len(sent) \in Nat /\ emitted \in Nat
  BY <1>1, <1>4, Typed, SentInPlace
<1>6. /\ sent[d] \in R!Packet
      /\ R!Proper(sent[d], d, source, emitted) \/ sent[d] = R!Error
  BY <1>5, SentInPlace
<1>7. CASE GetsValue(d)
  <2>1. sent[d].value # 0
    BY <1>5, <1>7 DEF GetsValue
  <2>2. R!Proper(sent[d], d, source, emitted)
    BY <1>6, <2>1 DEF R!Error
  <2>3. /\ outcome = "open" /\ d \in 1 .. emitted
        /\ Promise!Receives(d) /\ Promise!Has(GotValues', 1 .. d)
    BY <1>1, <1>3, <1>4, <1>7, <2>1, <2>2, ValueReceived
  <2>4. CASE sent[d].end
    <3>1. source = "completed" /\ emitted = d
      BY <2>1, <2>2, <2>4 DEF R!Proper
    <3>2. Over = "completed"
      BY <3>1 DEF Over, ReadsAsCompleted
    <3>3. outcome' = "completed"
      BY <1>7, <2>4 DEF GetsValue
    <3>4. Promise!Complete
      BY <1>2, <1>3, <2>3, <3>1, <3>2, <3>3 DEF Promise!Complete
    <3> QED BY <3>4 DEF Promise!Next
  <2>5. CASE ~sent[d].end
    <3>1. outcome' = outcome
      BY <1>7, <2>5 DEF GetsValue
    <3>2. Promise!Receive
      BY <1>2, <1>3, <2>3, <3>1 DEF Promise!Receive
    <3> QED BY <3>2 DEF Promise!Next
  <2> QED BY <2>4, <2>5
<1>8. CASE GetsEnd(d)
  <2>1. GotValues' = GotValues /\ outcome = "open" /\ outcome' \in {"completed", "failed"}
    BY <1>8 DEF GetsEnd, GotValues
  <2>2. CASE outcome' = "failed"
    BY <1>2, <1>3, <2>1, <2>2 DEF Promise!Next, Promise!Stop
  <2>3. CASE outcome' = "completed"
    <3>1. R!Proper(sent[d], d, source, emitted)
          /\ (sent[d].err => ToReplyError(payload.error) = "falsy")
      <4>1. sent[d].err => R!Proper(sent[d], d, source, emitted) /\ ToReplyError(payload.error) = "falsy"
        BY <1>8, <2>3 DEF GetsEnd
      <4>2. ~sent[d].err => R!Proper(sent[d], d, source, emitted)
        BY <1>6 DEF R!Error
      <4> QED BY <4>1, <4>2
    <3>2. /\ emitted = d - 1
          /\ source = IF sent[d].err THEN "errored" ELSE "completed"
      BY <1>8, <3>1 DEF R!Proper, GetsEnd
    <3>3. Over = "completed"
      BY <3>1, <3>2 DEF Over, ReadsAsCompleted
    <3>4. Promise!Has(GotValues, 1 .. emitted)
      BY <1>1, <1>4, <2>1, <3>1, <3>2, HasBefore
    <3>5. Promise!Complete
      BY <1>2, <1>3, <2>1, <2>3, <3>3, <3>4 DEF Promise!Complete, Promise!Has
    <3> QED BY <3>5 DEF Promise!Next
  <2> QED BY <2>1, <2>2, <2>3
<1>9. CASE GetsNothing
  <2>1. GotValues' = GotValues /\ outcome' = outcome
    BY <1>9 DEF GetsNothing, GotValues
  <2> QED BY <1>2, <1>3, <2>1, NothingNew
<1> QED BY <1>1, <1>4, <1>7, <1>8, <1>9

\* Every step of the exchange is a step of Response or stutters.
LEMMA StepPromise == ExchangeInv /\ ExchangeInv' /\ [Next]_vars => [Promise!Next]_Promise!vars
<1> SUFFICES ASSUME ExchangeInv, ExchangeInv', [Next]_vars PROVE [Promise!Next]_Promise!vars
  OBVIOUS
<1>1. CASE Responds \/ OldServerResponds
  BY <1>1, RespondsProduces, OldServerProduces
<1>2. CASE LosesReply
  BY <1>2, LossIsSeen
<1>3. CASE Deliver
  BY <1>3, DeliversPromise
<1>4. ASSUME UNCHANGED <<responseVars, payload, lost, got>>
      PROVE  emitted' = emitted /\ Over' = Over /\ LostValues' = LostValues /\ GotValues' = GotValues
  BY <1>4 DEF responseVars, Over, ReadsAsCompleted, LostValues, GotValues
<1>5. CASE \/ Publish \/ PublishThrows \/ RequestArrives \/ RequestSent \/ RequestFails
           \/ CallFails \/ Unsubscribe \/ ProcessMessage \/ CompletionFails \/ Completed
           \/ DeserializeFails \/ UNCHANGED vars
  <2>1. /\ UNCHANGED <<responseVars, payload, lost, got>>
        /\ outcome' \in {outcome, "failed", "left"} /\ (outcome # "open" => outcome' = outcome)
    <3> USE DEF requestVars, replyVars, callerVars, CallEnds
    <3>1. CASE Publish \/ RequestArrives \/ RequestSent
      BY <3>1 DEF Publish, RequestArrives, RequestSent
    <3>2. CASE PublishThrows \/ RequestFails \/ CallFails \/ Unsubscribe
      BY <3>2 DEF PublishThrows, RequestFails, CallFails, Unsubscribe
    <3>3. CASE ProcessMessage \/ CompletionFails \/ Completed
      BY <3>3 DEF ProcessMessage, CompletionFails, Completed
    <3>4. CASE DeserializeFails
      BY <3>4, RejectsInv
    <3>5. CASE UNCHANGED vars
      BY <3>5 DEF vars
    <3> QED BY <1>5, <3>1, <3>2, <3>3, <3>4, <3>5
  <2> QED BY <1>4, <2>1, CallStops
<1> QED BY <1>1, <1>2, <1>3, <1>5 DEF Next

\* What the caller sees is what Response promises, whatever happens to the sends,
\* the replies, their deserializers and the call: values in order, each once, and
\* a completion only after all of them.
THEOREM ResponsePromised == Spec => ImplementsResponse
<1>1. Init => Promise!Init
  BY InitPromise
<1>2. ExchangeInv /\ ExchangeInv' /\ [Next]_vars => [Promise!Next]_Promise!vars
  BY StepPromise
<1> QED BY <1>1, <1>2, ExchangeInvariant, PTL DEF Spec, ImplementsResponse, Promise!Spec
===============================================================================
