----------------------------- MODULE ReplyStream -----------------------------
(***************************************************************************)
(* How the server answers one request: sendReply() and what it uses        *)
(* (getPublisher(), replyFailed(), FollowedObservable) of                  *)
(* lib/server/azure-service-bus.server.ts, with close() giving up on it.   *)
(*                                                                         *)
(* The handler's Observable emits at any time.  What it emits in one tick  *)
(* is batched and queued when the tick ends (process.nextTick); the queued *)
(* replies are published one after another by a chain of promises.  Ticks  *)
(* and promise callbacks run before the program takes the next event       *)
(* (Quiet), so the end of a send and the timer of close() come in between. *)
(*                                                                         *)
(* External: the Observable, the SDK and the broker.  A send settles with  *)
(* either outcome, and one that fails may have reached the broker.         *)
(***************************************************************************)
EXTENDS Integers, Sequences, SequencesExt

CONSTANT MaxValues   \* bound: how many values the Observable emits at most

ASSUME MaxValuesAssumption == MaxValues \in Nat

VARIABLES
  singleReply,  \* the client is a 1.1.0 one: it gets one reply
  source,       \* the Observable, as its subscriber sees it
  emitted,      \* how many values it emitted
  batch,        \* the replies of this tick
  ending,       \* end() was called in this tick
  queue,        \* the replies whose turn in the chain has not passed
  chain,        \* what the first of them waits for: "idle", "publishing", "errorReply"
  failed,       \* a reply could not be sent
  stopped,      \* the stream was stopped
  byClose,      \* ... by close() (cancelledByClose)
  cancelled,    \* close() cancelled a reply while it was being sent
  replied,      \* the request had its first reply, or gave up on it
  first,        \* the promise `first` resolved
  ended,        \* the promise `ended` resolved
  gaveUp,       \* close() gave up on the handlers (generation was bumped)
  result,       \* sendReply(): "handler" (not called yet), "pending", "returned", "cancelled"
  sent,         \* the replies that reached the queue, in order
  confirmed     \* how many sends succeeded

streamVars == <<batch, ending, queue, chain, failed, stopped, byClose,
                cancelled, replied, first, ended>>
vars == <<singleReply, source, emitted, streamVars, gaveUp, result, sent, confirmed>>

\* A reply packet: the value it carries (0: none), whether it ends the
\* response (isDisposed), and whether it is an error.
Packet == [value : 0 .. MaxValues, end : BOOLEAN, err : BOOLEAN]
Value(n) == [value |-> n, end |-> FALSE, err |-> FALSE]
End == [value |-> 0, end |-> TRUE, err |-> FALSE]
Error == [value |-> 0, end |-> TRUE, err |-> TRUE]

Init ==
  /\ singleReply \in BOOLEAN
  /\ source = "none"
  /\ emitted = 0
  /\ batch = <<>>
  /\ ending = FALSE
  /\ queue = <<>>
  /\ chain = "idle"
  /\ failed = FALSE
  /\ stopped = FALSE
  /\ byClose = FALSE
  /\ cancelled = FALSE
  /\ replied = FALSE
  /\ first = FALSE
  /\ ended = FALSE
  /\ gaveUp = FALSE
  /\ result = "handler"
  /\ sent = <<>>
  /\ confirmed = 0

\* `finished`: the response ended and its replies had their turn.
Finished == ended /\ queue = <<>>

\* sendReply() goes on: the first reply is out, or the response is over.
Wakes == result = "pending" /\ (first \/ Finished)

\* No tick and no promise callback is left to run.
Quiet ==
  /\ batch = <<>> /\ ~ending
  /\ queue = <<>> \/ chain # "idle"
  /\ ~Wakes

-----------------------------------------------------------------------------
(* The Observable *)

\* sendReply() is called and subscribes, unless close() gave up before.
Start ==
  /\ result = "handler"
  /\ IF gaveUp
     THEN result' = "cancelled" /\ UNCHANGED source
     ELSE result' = "pending" /\ source' = "subscribed"
  /\ UNCHANGED <<singleReply, emitted, streamVars, gaveUp, sent, confirmed>>

\* Mutant: a packet replaces the one before it in the tick.
OverwritesBatch(packet) ==
  /\ batch' = IF batch # <<>> /\ packet.end /\ ~packet.err /\ ~Last(batch).end
              THEN <<[Last(batch) EXCEPT !.end = TRUE]>>
              ELSE <<packet>>
  /\ UNCHANGED queue

\* Mutant: an end that comes in a later tick than the last value is lost.
DropsLateEnd(packet) ==
  /\ batch' = IF packet.end /\ ~packet.err /\ emitted > 0
              THEN IF batch = <<>> THEN batch
                   ELSE Append(Front(batch), [Last(batch) EXCEPT !.end = TRUE])
              ELSE Append(batch, packet)
  /\ UNCHANGED queue

\* Mutant: an error, too, travels as the end of the value of its tick.
MergesErrors(packet) ==
  /\ batch' = IF batch # <<>> /\ packet.end
              THEN Append(Front(batch), [Last(batch) EXCEPT !.end = TRUE])
              ELSE Append(batch, packet)
  /\ UNCHANGED queue

\* schedule() for a client since 1.2.0: the packet joins the batch of this
\* tick; a completion in the tick of a value travels on that value.
Schedule(packet) ==
  /\ batch' = IF /\ batch # <<>>
                 /\ packet.end /\ ~packet.err
                 /\ ~Last(batch).end
              THEN Append(Front(batch), [Last(batch) EXCEPT !.end = TRUE])
              ELSE Append(batch, packet)
  /\ UNCHANGED queue

\* Mutant: every packet is a reply.
AnswersAll(packets) ==
  /\ queue' = queue \o packets
  /\ UNCHANGED batch

\* schedule() for a 1.1.0 client: of the packets of its response (a value and
\* its completion by take(1), or the end) the first is its one reply.
ScheduleOnce(packets) ==
  /\ queue' = Append(queue, [Head(packets) EXCEPT !.end = TRUE])
  /\ UNCHANGED batch

\* A value.  For a 1.1.0 client take(1) completes the response with it.
Emit ==
  /\ source = "subscribed"
  /\ emitted < MaxValues
  /\ emitted' = emitted + 1
  /\ IF singleReply
     THEN /\ ScheduleOnce(<<Value(emitted'), End>>)
          /\ source' = "completed"
          /\ ending' = TRUE
     ELSE /\ Schedule(Value(emitted'))
          /\ UNCHANGED <<source, ending>>
  /\ UNCHANGED <<singleReply, chain, failed, stopped, byClose, cancelled, replied,
                 first, ended, gaveUp, result, sent, confirmed>>

\* The end of the response, or its error.
Ends(how, packet) ==
  /\ source = "subscribed"
  /\ source' = how
  /\ IF singleReply THEN ScheduleOnce(<<packet>>) ELSE Schedule(packet)
  /\ ending' = TRUE
  /\ UNCHANGED <<singleReply, emitted, chain, failed, stopped, byClose, cancelled,
                 replied, first, ended, gaveUp, result, sent, confirmed>>

Complete == Ends("completed", End)
Fail == Ends("errored", Error)

\* Mutant: the response does not end with its Observable.
NeverEnds ==
  /\ batch # <<>> \/ ending
  /\ queue' = queue \o batch
  /\ batch' = <<>>
  /\ ending' = FALSE
  /\ UNCHANGED <<singleReply, source, emitted, chain, failed, stopped, byClose,
                 cancelled, replied, first, ended, gaveUp, result, sent, confirmed>>

\* The callbacks of process.nextTick: the batch is queued, then the end.
TickEnds ==
  /\ batch # <<>> \/ ending
  /\ queue' = queue \o batch
  /\ batch' = <<>>
  /\ ended' = (ended \/ ending)
  /\ ending' = FALSE
  /\ UNCHANGED <<singleReply, source, emitted, chain, failed, stopped, byClose,
                 cancelled, replied, first, gaveUp, result, sent, confirmed>>

-----------------------------------------------------------------------------
(* The chain of replies: respond() *)

\* Mutant: a reply that close() cancelled counts as one.
AlwaysReplied(wasCancelled) ==
  /\ queue' = Tail(queue)
  /\ chain' = "idle"
  /\ replied' = TRUE
  /\ first' = TRUE

\* Mutant: the reply is forgotten but the chain does not go on.
KeepsTurn(wasCancelled) ==
  /\ queue' = Tail(queue)
  /\ replied' = (replied \/ ~wasCancelled)
  /\ first' = TRUE
  /\ UNCHANGED chain

\* The turn of the first reply is over: .then(() => ... firstSent()).
TurnOver(wasCancelled) ==
  /\ queue' = Tail(queue)
  /\ chain' = "idle"
  /\ replied' = (replied \/ ~wasCancelled)
  /\ first' = TRUE

\* Mutant: the replies queued before a stop are still sent.
PublishesAfterStop ==
  /\ queue # <<>>
  /\ chain = "idle"
  /\ ~failed
  /\ chain' = "publishing"
  /\ UNCHANGED <<singleReply, source, emitted, batch, ending, queue, failed, stopped,
                 byClose, cancelled, replied, first, ended, gaveUp, result, sent, confirmed>>

\* The turn of a reply: getPublisher() sends it.
Publish ==
  /\ queue # <<>>
  /\ chain = "idle"
  /\ ~failed /\ ~stopped
  /\ chain' = "publishing"
  /\ UNCHANGED <<singleReply, source, emitted, batch, ending, queue, failed, stopped,
                 byClose, cancelled, replied, first, ended, gaveUp, result, sent, confirmed>>

\* After a failure or a stop, the rest are skipped.
Skip ==
  /\ queue # <<>>
  /\ chain = "idle"
  /\ failed \/ stopped
  /\ TurnOver(cancelled)
  /\ UNCHANGED <<singleReply, source, emitted, batch, ending, failed, stopped,
                 byClose, cancelled, ended, gaveUp, result, sent, confirmed>>

Published ==
  /\ chain = "publishing"
  /\ Quiet
  /\ sent' = Append(sent, Head(queue))
  /\ confirmed' = confirmed + 1
  /\ TurnOver(cancelled)
  /\ UNCHANGED <<singleReply, source, emitted, batch, ending, failed, stopped,
                 byClose, cancelled, ended, gaveUp, result>>

Unsubscribed == IF source = "subscribed" THEN "unsubscribed" ELSE source

\* A reply could not be sent, although it may have reached the queue.  If
\* close() cut the response it is left at that; else the response is stopped
\* and a client since 1.2.0 is sent an error in its place.
PublishFails ==
  /\ chain = "publishing"
  /\ Quiet
  /\ failed' = TRUE
  /\ sent' \in {sent, Append(sent, Head(queue))}
  /\ IF byClose
     THEN /\ cancelled' = TRUE
          /\ TurnOver(TRUE)
          /\ UNCHANGED <<source, stopped, ended>>
     ELSE /\ stopped' = TRUE
          /\ source' = Unsubscribed
          /\ ended' = TRUE
          /\ UNCHANGED cancelled
          /\ IF singleReply
             THEN TurnOver(cancelled)
             ELSE chain' = "errorReply" /\ UNCHANGED <<queue, replied, first>>
  /\ UNCHANGED <<singleReply, emitted, batch, ending, byClose, gaveUp, result, confirmed>>

\* replyFailed(): the error reply was sent, or could not be sent either.
ErrorReplySettles ==
  /\ chain = "errorReply"
  /\ Quiet
  /\ \/ sent' = Append(sent, Error) /\ confirmed' = confirmed + 1
     \/ sent' \in {sent, Append(sent, Error)} /\ UNCHANGED confirmed
  /\ TurnOver(cancelled)
  /\ UNCHANGED <<singleReply, source, emitted, batch, ending, failed, stopped,
                 byClose, cancelled, ended, gaveUp, result>>

-----------------------------------------------------------------------------
(* The end of sendReply(), and close() *)

Return ==
  /\ Wakes
  /\ result' = IF byClose /\ ~replied THEN "cancelled" ELSE "returned"
  /\ UNCHANGED <<singleReply, source, emitted, streamVars, gaveUp, sent, confirmed>>

\* giveUpOnInFlight(): the streams still followed are stopped.
GiveUp ==
  /\ ~gaveUp
  /\ Quiet
  /\ gaveUp' = TRUE
  /\ IF result # "handler" /\ ~Finished /\ ~stopped
     THEN /\ stopped' = TRUE
          /\ byClose' = TRUE
          /\ source' = Unsubscribed
          /\ ended' = TRUE
     ELSE UNCHANGED <<stopped, byClose, source, ended>>
  /\ UNCHANGED <<singleReply, emitted, batch, ending, queue, chain, failed,
                 cancelled, replied, first, result, sent, confirmed>>

-----------------------------------------------------------------------------

Settles == Published \/ PublishFails \/ ErrorReplySettles

Next ==
  \/ Start \/ Emit \/ Complete \/ Fail \/ TickEnds
  \/ Publish \/ Skip \/ Settles
  \/ Return \/ GiveUp

\* Ticks and promise callbacks run, and the SDK's sends settle.
Fairness ==
  /\ WF_vars(TickEnds) /\ WF_vars(Publish \/ Skip) /\ WF_vars(Return)
  /\ WF_vars(Settles)

Spec == Init /\ [][Next]_vars

FairSpec == Spec /\ Fairness

-----------------------------------------------------------------------------
(* Properties *)

\* Every variable of sendReply() has its type, and the reply being sent is the
\* first of the chain.
TypeOK ==
  /\ singleReply \in BOOLEAN
  /\ source \in {"none", "subscribed", "completed", "errored", "unsubscribed"}
  /\ emitted \in 0 .. MaxValues
  /\ ending \in BOOLEAN
  /\ batch \in Seq(Packet) /\ queue \in Seq(Packet) /\ sent \in Seq(Packet)
  /\ chain \in {"idle", "publishing", "errorReply"}
  /\ failed \in BOOLEAN /\ stopped \in BOOLEAN /\ byClose \in BOOLEAN
  /\ cancelled \in BOOLEAN /\ replied \in BOOLEAN /\ first \in BOOLEAN
  /\ ended \in BOOLEAN /\ gaveUp \in BOOLEAN
  /\ result \in {"handler", "pending", "returned", "cancelled"}
  /\ confirmed \in 0 .. Len(sent)
  /\ chain # "idle" => queue # <<>>

\* What the client takes from the reply queue: it stops at the first end.
Seen == {i \in 1 .. Len(sent) : \A j \in 1 .. i - 1 : ~sent[j].end}

\* The values the client gets are those of the response, in order, from the
\* first and without a gap: neither the batching, nor a failed send, nor
\* close() makes it miss one in the middle.
GapFree ==
  \A i \in Seen : sent[i].value # 0 => sent[i].value = i

\* A client since 1.2.0 sees the response complete only when it did, with all
\* its values: a response that was cut never looks like a whole one.
NoFalseEnd ==
  ~singleReply =>
    \A i \in Seen :
      sent[i].end /\ ~sent[i].err =>
        source = "completed" /\ (\A n \in 1 .. emitted : \E j \in Seen : sent[j].value = n)

\* A 1.1.0 client would take a second message as the answer to its next
\* request: it is never sent one.
OneReplyForOldClients ==
  singleReply => Len(sent) <= 1

\* sendReply() returns (and the request is completed) only after a reply was
\* sent or could not be for another reason than close(); it rejects (and the
\* request is delivered again) only when no reply is known to have arrived.
SettledAsAnswered ==
  /\ result = "returned" => confirmed > 0 \/ (failed /\ ~cancelled)
  /\ result = "cancelled" => confirmed = 0

\* Once close() cut the response, no further reply starts being sent: at
\* most the one in flight ends.
NothingStartsAfterCut ==
  [][byClose => chain' = chain \/ chain' = "idle"]_vars

\* Once the response ended or was stopped, its replies have their turn: the
\* stream leaves `following`, which close() waits for, and sendReply() returns.
ResponseIsOver ==
  (source \in {"completed", "errored", "unsubscribed"})
     ~> (Finished /\ result \in {"returned", "cancelled"})

\* A reply failed and the error in its place could not be sent either.
EndNotSent == failed /\ chain = "idle" /\ \A i \in 1 .. Len(sent) : ~sent[i].end

\* A client since 1.2.0 hears the end of the response (its completion, its
\* error or an error in place of the rest), unless close() cut it, or a reply
\* and then the error reply failed without arriving.
ClientHearsTheEnd ==
  (~singleReply /\ source \in {"completed", "errored"})
     ~> ((\E i \in Seen : sent[i].end) \/ EndNotSent \/ byClose)
=============================================================================
