------------------------------ MODULE ReplyWire ------------------------------
(***************************************************************************)
(* A request on its way to the server: the message of toRequests() and     *)
(* what sendReply() reads in it.  A reply on its way from the handler to   *)
(* the caller: the packet that the server schedules, the message that      *)
(* getPublisher() makes of it, the packet that readReply() makes of that,  *)
(* and the calls of Nest's observer that deliverReply() ends in.           *)
(*                                                                         *)
(* A payload is known by what the code tells apart: "undefined", "null",   *)
(* "falsy" (0, "", false), "object" (any other value), "Error" (an Error   *)
(* object) and "unknown" (the error that stands for one nobody may see).   *)
(* `Absent` is a property that is not there.                               *)
(***************************************************************************)
EXTENDS Sequences, SequencesExt

Absent == "absent"

Nullish(x) == x \in {Absent, "undefined", "null"}
Truthy(x) == x \in {"object", "Error", "unknown"}

\* x ?? y
Coalesce(x, y) == IF Nullish(x) THEN y ELSE x

\* Mutant: the request id is the messageId, which the application may choose.
OnlyMessageId(ownMessageId) ==
  [messageId |-> IF ownMessageId THEN "own" ELSE "id", requestId |-> Absent]

\* The request message: the id goes in a property of its own and, unless the
\* application chose a messageId, there too.  (In an AMQP annotated message
\* under other names, which the SDK reads back as these.)
ToRequest(ownMessageId) ==
  [messageId |-> IF ownMessageId THEN "own" ELSE "id", requestId |-> "id"]

\* What sendReply() makes of it: whether the client is one that gets a single
\* reply, and what the replies are matched by.
IsSingleReply(message) == message.requestId = Absent
ReplyCorrelation(message) ==
  IF IsSingleReply(message) THEN message.messageId ELSE message.requestId

WritePacket(err, response, isDisposed) ==
  [err |-> err, response |-> response, isDisposed |-> isDisposed]

\* What the client gets when the handler of its request fails.
ToReplyError(err) == IF err \in {"Error", "undefined", "null"} THEN "unknown" ELSE err

\* The SDK encodes a body as JSON: undefined becomes null, an Error a plain object.
Encoded(body) ==
  CASE Nullish(body) -> "null" [] body = "Error" -> "object" [] OTHER -> body

\* Mutant: falsy values are sent as null (|| for ??).
FalsyIsNull(correlationId, packet) ==
  [correlationId |-> correlationId,
   type |-> CASE Truthy(packet.err) -> "error"
              [] ~Truthy(packet.err) /\ packet.response # Absent -> "response"
              [] OTHER -> "none",
   disposed |-> packet.isDisposed,
   body |-> IF Truthy(packet.err) THEN packet.err
            ELSE IF Truthy(packet.response) THEN packet.response ELSE "null"]

\* The reply message of a packet: its properties and its body.
Publisher(correlationId, packet) ==
  [correlationId |-> correlationId,
   type |-> CASE Truthy(packet.err) -> "error"
              [] ~Truthy(packet.err) /\ packet.response # Absent -> "response"
              [] OTHER -> "none",
   disposed |-> packet.isDisposed,
   body |-> Encoded(Coalesce(packet.err, packet.response))]

\* A reply of a server before 1.2.0: a body without properties, matched by the
\* messageId.
OldReply(message, response) ==
  [correlationId |-> message.messageId,
   type |-> Absent, disposed |-> FALSE, body |-> Encoded(response)]

ReadReply(message) ==
  CASE message.type = "error" ->
         WritePacket(Coalesce(message.body, "unknown"), Absent, TRUE)
    [] message.type = "none" -> WritePacket(Absent, Absent, TRUE)
    [] message.type = "response" -> WritePacket(Absent, message.body, message.disposed)
    [] OTHER -> WritePacket(Absent, message.body, TRUE)

\* The deserializer of the options: the default one keeps the packet, one of
\* the application may give the undefined that JSON has no word for back.
Deserialized(packet) ==
  {packet} \union
    IF packet.response = "null" THEN {[packet EXCEPT !.response = "undefined"]} ELSE {}

\* Mutant: an undefined last value is handed over as it is.
PassesUndefined(packet) ==
  IF Truthy(packet.err) THEN <<WritePacket(packet.err, Absent, FALSE)>> ELSE <<packet>>

\* The packets that the observer is called back with.
DeliverReply(packet) ==
  IF Truthy(packet.err) THEN <<WritePacket(packet.err, Absent, FALSE)>>
  ELSE IF packet.isDisposed /\ packet.response = "undefined"
  THEN <<WritePacket(Absent, "undefined", FALSE), WritePacket(Absent, Absent, TRUE)>>
  ELSE <<packet>>

\* Nest's createObserver(): what a packet does to a caller that got the
\* payloads `got` so far and whose Observable is in state `outcome`.
Observe(caller, packet) ==
  LET some == packet.response \notin {Absent, "undefined"}
  IN  CASE caller.outcome # "open" -> caller
        [] caller.outcome = "open" /\ Truthy(packet.err) -> [caller EXCEPT !.outcome = "failed"]
        [] OTHER ->
             [got |-> IF some \/ ~packet.isDisposed
                      THEN Append(caller.got, packet.response) ELSE caller.got,
              outcome |-> IF packet.isDisposed THEN "completed" ELSE "open"]

\* What a reply message read as `packet` does to the caller: its callback is
\* called once, or a second time with the end.
Delivered(caller, packet) ==
  LET packets == DeliverReply(packet)
      once == Observe(caller, packets[1])
  IN  IF Len(packets) = 1 THEN once ELSE Observe(once, packets[2])
=============================================================================
