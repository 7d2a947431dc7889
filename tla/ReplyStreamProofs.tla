-------------------------- MODULE ReplyStreamProofs --------------------------
(* Theorems about ReplyStream, for every number of values. *)
EXTENDS ReplyStream, SequenceTheorems, TLAPS

(***************************************************************************)
(* The inductive invariant, in named parts.                                *)
(***************************************************************************)

\* p is what belongs at position n of a response whose Observable is in state
\* src after e values: value n, or an end without a value; and an end is there
\* only when the Observable ended so, with all its values up to this position.
Proper(p, n, src, e) ==
  /\ p.value \in {0, n} /\ p.value <= e
  /\ p.value = 0 => p.end
  /\ p.err => p.value = 0
  /\ p.end => /\ src = IF p.err THEN "errored" ELSE "completed"
              /\ e = IF p.value = 0 THEN n - 1 ELSE n

\* What was sent is the response up to some position, but for the error that
\* stands for a reply that failed: it is the last.
SentIsProper ==
  \A i \in 1 .. Len(sent) :
    \/ Proper(sent[i], i, source, emitted)
    \/ sent[i] = Error /\ failed /\ chain = "idle" /\ i = Len(sent)

\* The replies queued go on where those sent end, as long as any of them will
\* still be sent; so do those of this tick.
QueueIsProper ==
  ~failed /\ (~stopped \/ chain = "publishing") =>
    \A i \in 1 .. Len(queue) : Proper(queue[i], Len(sent) + i, source, emitted)

BatchIsProper ==
  \A i \in 1 .. Len(batch) : Proper(batch[i], Len(sent) + Len(queue) + i, source, emitted)

\* While the Observable goes on, each value it emitted is somewhere.
NothingMissing ==
  /\ source = "subscribed" => emitted = Len(sent) + Len(queue) + Len(batch)
  /\ source = "none" => /\ emitted = 0 /\ ~ending /\ ~ended
                        /\ batch = <<>> /\ queue = <<>> /\ sent = <<>>

\* A 1.1.0 client: one reply in all, and no error in place of it.
AtMostOne ==
  singleReply =>
    /\ Len(sent) + Len(queue) <= 1
    /\ batch = <<>>
    /\ chain # "errorReply"
    /\ source = "subscribed" => emitted = 0

\* What a failure, a stop and a cancellation have to do with each other.
Cuts ==
  /\ failed => stopped
  /\ byClose => stopped
  /\ stopped => ended /\ (failed \/ byClose)
  /\ ended => batch = <<>> /\ ~ending
  /\ ended \/ ending => source \notin {"none", "subscribed"}
  /\ cancelled => failed /\ byClose
  /\ failed /\ byClose => cancelled
  /\ chain = "publishing" => ~failed
  /\ chain = "errorReply" => failed /\ ~byClose

\* Which turns were over when.
Turns ==
  /\ confirmed > 0 => replied
  /\ first => replied \/ cancelled
  /\ replied => confirmed > 0 \/ (failed /\ ~cancelled)
  /\ byClose /\ chain = "idle" /\ queue # <<>> => confirmed > 0 \/ cancelled
  /\ ~first /\ ~byClose /\ (ending \/ ended) => batch # <<>> \/ queue # <<>>

\* Where sendReply() is.
Calls ==
  /\ source = "none" => result = "handler" \/ (result = "cancelled" /\ gaveUp)
  /\ result = "handler" => source = "none"
  /\ result = "cancelled" => chain = "idle" /\ (stopped \/ source = "none")

StreamInv ==
  /\ TypeOK
  /\ SentIsProper
  /\ QueueIsProper
  /\ BatchIsProper
  /\ NothingMissing
  /\ AtMostOne
  /\ Cuts
  /\ Turns
  /\ Calls
  /\ SettledAsAnswered

-----------------------------------------------------------------------------
(* Sequences *)

\* The packets are what they should be.
LEMMA Packets ==
  /\ End \in Packet /\ Error \in Packet
  /\ \A n \in 0 .. MaxValues : Value(n) \in Packet
<1>1. 0 \in 0 .. MaxValues
  BY MaxValuesAssumption
<1> QED BY <1>1 DEF Packet, End, Error, Value

\* A reply that is marked as the end stays the same reply otherwise.
LEMMA WithEnd ==
  ASSUME NEW p \in Packet, NEW e, e = [p EXCEPT !.end = TRUE]
  PROVE  e \in Packet /\ e.value = p.value /\ e.end = TRUE /\ e.err = p.err
<1>1. e.value = p.value /\ e.end = TRUE /\ e.err = p.err
  BY DEF Packet
<1>2. e \in Packet
  BY DEF Packet
<1> QED BY <1>1, <1>2

\* A completion that travels on the last packet changes no other.
ReplaceLast(s, e) == Append(Front(s), e)

\* Replacing the last reply leaves the others and the length alone.
LEMMA OnLast ==
  ASSUME NEW s \in Seq(Packet), s # <<>>, NEW e \in Packet
  PROVE  /\ ReplaceLast(s, e) \in Seq(Packet)
         /\ Len(ReplaceLast(s, e)) = Len(s)
         /\ \A i \in 1 .. Len(s) : ReplaceLast(s, e)[i] = IF i = Len(s) THEN e ELSE s[i]
<1> DEFINE t == ReplaceLast(s, e)
<1>1. Len(s) \in Nat \ {0} /\ \A i \in 1 .. Len(s) - 1 : s[i] \in Packet
  BY EmptySeq, LenProperties
<1>2. /\ Front(s) \in Seq(Packet)
      /\ Len(Front(s)) = Len(s) - 1
      /\ \A i \in 1 .. Len(s) - 1 : Front(s)[i] = s[i]
  <2> DEFINE n == Len(s) - 1
  <2>1. n \in Nat /\ \A i \in 1 .. n : s[i] \in Packet
    BY <1>1
  <2>2. /\ SubSeq(s, 1, n) \in Seq(Packet)
        /\ Len(SubSeq(s, 1, n)) = n
        /\ \A i \in 1 .. n : SubSeq(s, 1, n)[i] = s[i]
    <3> HIDE DEF n
    <3> QED BY <2>1
  <2> QED BY <2>2 DEF Front
<1>3. /\ t \in Seq(Packet)
      /\ Len(t) = Len(Front(s)) + 1
      /\ \A i \in 1 .. Len(Front(s)) : t[i] = Front(s)[i]
      /\ t[Len(Front(s)) + 1] = e
  BY <1>2, AppendProperties DEF ReplaceLast
<1> QED BY <1>1, <1>2, <1>3

\* An appended reply comes last, after the same replies.
LEMMA Appended ==
  ASSUME NEW s \in Seq(Packet), NEW p \in Packet, NEW t, t = Append(s, p)
  PROVE  /\ t \in Seq(Packet) /\ t # <<>>
         /\ Len(t) = Len(s) + 1
         /\ \A i \in 1 .. Len(t) : t[i] = IF i = Len(s) + 1 THEN p ELSE s[i]
<1>1. /\ t \in Seq(Packet)
      /\ Len(t) = Len(s) + 1
      /\ \A i \in 1 .. Len(s) : t[i] = s[i]
      /\ t[Len(s) + 1] = p
  BY AppendProperties
<1>2. Len(s) \in Nat
  BY LenProperties
<1>3. t # <<>>
  BY <1>1, <1>2, EmptySeq
<1> QED BY <1>1, <1>2, <1>3

\* A turn takes the first packet and moves the others up.
LEMMA Turned ==
  ASSUME NEW s \in Seq(Packet), s # <<>>, NEW t, t = Tail(s)
  PROVE  /\ t \in Seq(Packet) /\ Len(t) = Len(s) - 1
         /\ Head(s) \in Packet /\ Head(s) = s[1] /\ 1 \in 1 .. Len(s)
         /\ \A i \in 1 .. Len(t) : t[i] = s[i + 1] /\ i + 1 \in 1 .. Len(s)
<1>1. /\ Head(s) \in Packet /\ t \in Seq(Packet)
      /\ Len(t) = Len(s) - 1
      /\ \A i \in 1 .. Len(t) : t[i] = s[i + 1]
  BY HeadTailProperties
<1>2. Len(s) \in Nat \ {0}
  BY EmptySeq, LenProperties
<1>3. Head(s) = s[1]
  OBVIOUS
<1> QED BY <1>1, <1>2, <1>3

\* What is proper stays so until the Observable ends, and when nothing changes.
LEMMA ProperKept ==
  \A p, n, src, src2, e :
    Proper(p, n, src, e) /\ (src \notin {"completed", "errored"} \/ src2 = src)
      => Proper(p, n, src2, e)
BY DEF Proper

\* Replies that are a proper prefix of what was emitted stay one when the
\* handler emits another value.
LEMMA ProperGrows ==
  \A p, src : \A n, e \in Nat :
    Proper(p, n, src, e) /\ src \notin {"completed", "errored"} => Proper(p, n, src, e + 1)
BY DEF Proper

\* Lengths of the queues of replies, for the arithmetic of positions.
LEMMA Lengths ==
  ASSUME TypeOK
  PROVE  /\ Len(sent) \in Nat /\ Len(queue) \in Nat /\ Len(batch) \in Nat
         /\ sent = <<>> <=> Len(sent) = 0
         /\ queue = <<>> <=> Len(queue) = 0
         /\ batch = <<>> <=> Len(batch) = 0
BY EmptySeq, LenProperties DEF TypeOK

-----------------------------------------------------------------------------
(* Every step keeps the invariant *)

\* The invariant holds before the handler returned its Observable.
LEMMA InitInv == Init => StreamInv
<1> SUFFICES ASSUME Init PROVE StreamInv
  OBVIOUS
<1> USE DEF Init
<1>1. 0 \in 0 .. MaxValues /\ Len(<<>>) = 0 /\ 0 \in 0 .. 0 /\ <<>> \in Seq(Packet)
  BY MaxValuesAssumption
<1>2. TypeOK
  BY <1>1, Zenon DEF TypeOK
<1>3. SentIsProper /\ QueueIsProper /\ BatchIsProper
  BY <1>1 DEF SentIsProper, QueueIsProper, BatchIsProper
<1>4. NothingMissing /\ AtMostOne
  BY <1>1 DEF NothingMissing, AtMostOne
<1>5. Cuts /\ Turns /\ Calls /\ SettledAsAnswered
  BY DEF Cuts, Turns, Calls, SettledAsAnswered
<1> QED BY <1>2, <1>3, <1>4, <1>5 DEF StreamInv

\* Subscribing to the Observable sends nothing.
LEMMA StartInv == StreamInv /\ Start => StreamInv'
<1> SUFFICES ASSUME StreamInv, Start PROVE StreamInv'
  OBVIOUS
<1> USE DEF StreamInv, Start, streamVars
<1>1. TypeOK'
  BY DEF TypeOK
<1>2. SentIsProper' /\ QueueIsProper' /\ BatchIsProper' /\ NothingMissing'
  BY DEF TypeOK, SentIsProper, QueueIsProper, BatchIsProper, NothingMissing, Calls
<1>3. AtMostOne' /\ Cuts' /\ Turns' /\ Calls' /\ SettledAsAnswered'
  BY DEF TypeOK, AtMostOne, Cuts, Turns, Calls, NothingMissing, SettledAsAnswered
<1> QED BY <1>1, <1>2, <1>3

\* When sendReply() settles, no reply changes.
LEMMA ReturnInv == StreamInv /\ Return => StreamInv'
<1> SUFFICES ASSUME StreamInv, Return PROVE StreamInv'
  OBVIOUS
<1> USE DEF StreamInv, Return, streamVars
<1>1. TypeOK'
  BY DEF TypeOK
<1>2. SentIsProper' /\ QueueIsProper' /\ BatchIsProper' /\ NothingMissing'
  BY DEF TypeOK, SentIsProper, QueueIsProper, BatchIsProper, NothingMissing
<1>3. AtMostOne' /\ Cuts' /\ Turns'
  BY DEF AtMostOne, Cuts, Turns
<1>4. Calls'
  BY DEF TypeOK, Cuts, Turns, Calls, Wakes, Finished, NothingMissing
<1>5. SettledAsAnswered'
  BY DEF TypeOK, Cuts, Turns, Calls, Wakes, Finished, SettledAsAnswered
<1> QED BY <1>1, <1>2, <1>3, <1>4, <1>5

\* A batch that starts being published leaves the chain for the sender.
LEMMA PublishInv == StreamInv /\ Publish => StreamInv'
<1> SUFFICES ASSUME StreamInv, Publish PROVE StreamInv'
  OBVIOUS
<1> USE DEF StreamInv, Publish
<1>1. TypeOK'
  BY DEF TypeOK
<1>2. SentIsProper' /\ QueueIsProper' /\ BatchIsProper' /\ NothingMissing'
  BY DEF TypeOK, SentIsProper, QueueIsProper, BatchIsProper, NothingMissing
<1>3. AtMostOne' /\ Cuts' /\ Turns' /\ Calls' /\ SettledAsAnswered'
  BY DEF TypeOK, AtMostOne, Cuts, Turns, Calls, NothingMissing, SettledAsAnswered
<1> QED BY <1>1, <1>2, <1>3

\* close() gives up on the response only when no tick or callback is left, so
\* nothing is lost between the Observable and the chain.
LEMMA GiveUpInv == StreamInv /\ GiveUp => StreamInv'
<1> SUFFICES ASSUME StreamInv, GiveUp PROVE StreamInv'
  OBVIOUS
<1> USE DEF StreamInv
<1>1. /\ gaveUp' = TRUE
      /\ UNCHANGED <<singleReply, emitted, batch, ending, queue, chain, failed,
                     cancelled, replied, first, result, sent, confirmed>>
  BY DEF GiveUp
<1>2. CASE ~(result # "handler" /\ ~Finished /\ ~stopped)
  <2>1. UNCHANGED <<stopped, byClose, source, ended>>
    BY <1>2, Zenon DEF GiveUp
  <2>2. TypeOK'
    BY <1>1, <2>1 DEF TypeOK
  <2>3. SentIsProper' /\ QueueIsProper' /\ BatchIsProper' /\ NothingMissing' /\ AtMostOne'
    BY <1>1, <2>1 DEF SentIsProper, QueueIsProper, BatchIsProper, NothingMissing, AtMostOne
  <2>4. Cuts' /\ Turns' /\ Calls' /\ SettledAsAnswered'
    BY <1>1, <2>1 DEF Cuts, Turns, Calls, SettledAsAnswered
  <2> QED BY <2>2, <2>3, <2>4
<1>3. CASE result # "handler" /\ ~Finished /\ ~stopped
  <2>1. stopped' = TRUE /\ byClose' = TRUE /\ ended' = TRUE /\ source' = Unsubscribed /\ ~gaveUp
    BY <1>3, Zenon DEF GiveUp
  <2>2. source # "none" /\ source' \notin {"none", "subscribed"}
        /\ (source \notin {"completed", "errored"} \/ source' = source)
        /\ source' \in {"completed", "errored", "unsubscribed"}
    BY <1>3, <2>1 DEF Calls, Unsubscribed, TypeOK
  <2>3. batch = <<>> /\ ~ending /\ (queue = <<>> \/ chain # "idle")
    BY DEF GiveUp, Quiet
  <2>4. TypeOK'
    BY <1>1, <2>1, <2>2 DEF TypeOK
  <2>5. SentIsProper' /\ QueueIsProper' /\ BatchIsProper'
    BY <1>1, <1>3, <2>1, <2>2, ProperKept
       DEF SentIsProper, QueueIsProper, BatchIsProper, Cuts
  <2>6. NothingMissing' /\ AtMostOne'
    BY <1>1, <2>2 DEF NothingMissing, AtMostOne
  <2>7. Cuts'
    BY <1>1, <1>3, <2>1, <2>2, <2>3 DEF Cuts, TypeOK
  <2>8. Turns' /\ Calls' /\ SettledAsAnswered'
    BY <1>1, <1>3, <2>1, <2>2, <2>3 DEF Turns, Calls, SettledAsAnswered
  <2> QED BY <2>4, <2>5, <2>6, <2>7, <2>8
<1> QED BY <1>2, <1>3

\* A value is the next of the response; for a 1.1.0 client it is the only one.
LEMMA EmitInv == StreamInv /\ Emit => StreamInv'
<1> SUFFICES ASSUME StreamInv, Emit PROVE StreamInv'
  OBVIOUS
<1> USE DEF StreamInv
<1>1. /\ source = "subscribed" /\ emitted < MaxValues /\ emitted' = emitted + 1
      /\ UNCHANGED <<singleReply, chain, failed, stopped, byClose, cancelled, replied,
                     first, ended, gaveUp, result, sent, confirmed>>
  BY DEF Emit
<1>2. ~stopped /\ ~ended /\ ~ending /\ ~failed /\ ~byClose /\ ~cancelled
  BY <1>1 DEF Cuts
<1>3. emitted \in Nat /\ emitted' \in 0 .. MaxValues /\ emitted' # 0
  BY <1>1, MaxValuesAssumption DEF TypeOK
<1>4. /\ Len(sent) \in Nat /\ Len(queue) \in Nat /\ Len(batch) \in Nat
      /\ emitted = Len(sent) + Len(queue) + Len(batch)
  BY <1>1, Lengths DEF NothingMissing
<1>5. CASE singleReply
  <2>1. /\ queue' = Append(queue, [Value(emitted') EXCEPT !.end = TRUE])
        /\ batch' = batch /\ source' = "completed" /\ ending' = TRUE
    BY <1>5 DEF Emit, ScheduleOnce
  <2>2. emitted = 0 /\ batch = <<>>
    BY <1>1, <1>5 DEF AtMostOne
  <2>3. Len(sent) = 0 /\ Len(queue) = 0 /\ queue = <<>>
    BY <1>4, <2>2, Lengths
  <2>4. Value(emitted') \in Packet
    BY <1>3, Packets
  <2> DEFINE p == [Value(emitted') EXCEPT !.end = TRUE]
  <2>5. p \in Packet /\ p.value = 1 /\ p.end = TRUE /\ p.err = FALSE
    <3>1. p \in Packet /\ p.value = Value(emitted').value /\ p.end = TRUE /\ p.err = Value(emitted').err
      BY <2>4, WithEnd
    <3> QED BY <1>1, <2>2, <3>1 DEF Value
  <2> HIDE DEF p
  <2>6. queue' \in Seq(Packet) /\ queue' # <<>> /\ Len(queue') = 1 /\ queue'[1] = p
    BY <2>1, <2>3, <2>5, Appended DEF TypeOK, p
  <2>7. TypeOK'
    BY <1>1, <1>3, <2>1, <2>6 DEF TypeOK
  <2>8. SentIsProper' /\ BatchIsProper'
    BY <1>1, <2>1, <2>2, <2>3 DEF SentIsProper, BatchIsProper
  <2>9. QueueIsProper'
    <3>1. Proper(p, 1, "completed", 1)
      BY <2>5 DEF Proper
    <3>2. emitted' = 1 /\ Len(sent') = 0 /\ Len(queue') = 1 /\ Len(sent') + 1 = 1
      BY <1>1, <2>2, <2>3, <2>6
    <3>3. \A i \in 1 .. Len(queue') : queue'[i] = p /\ Len(sent') + i = 1
      BY <2>6, <3>2
    <3> QED BY <2>1, <3>1, <3>2, <3>3 DEF QueueIsProper
  <2>10. NothingMissing' /\ AtMostOne'
    BY <1>1, <2>1, <2>2, <2>3, <2>6 DEF NothingMissing, AtMostOne
  <2>11. Cuts'
    BY <1>1, <1>2, <2>1 DEF Cuts
  <2>12. Turns' /\ Calls' /\ SettledAsAnswered'
    BY <1>1, <1>2, <2>1, <2>6 DEF Turns, Calls, SettledAsAnswered
  <2> QED BY <2>7, <2>8, <2>9, <2>10, <2>11, <2>12
<1>6. CASE ~singleReply
  <2>1. Value(emitted') \in Packet /\ Value(emitted').end = FALSE /\ Value(emitted').value = emitted'
    BY <1>3, Packets DEF Value
  <2>2. /\ batch' = Append(batch, Value(emitted'))
        /\ UNCHANGED <<queue, source, ending>>
    BY <1>6, <2>1 DEF Emit, Schedule
  <2>3. /\ batch' \in Seq(Packet) /\ batch' # <<>> /\ Len(batch') = Len(batch) + 1
        /\ \A i \in 1 .. Len(batch') :
              batch'[i] = IF i = Len(batch) + 1 THEN Value(emitted') ELSE batch[i]
    BY <2>1, <2>2, Appended DEF TypeOK
  <2>4. TypeOK'
    BY <1>1, <1>3, <2>2, <2>3 DEF TypeOK
  <2>5. SentIsProper' /\ QueueIsProper'
    <3>1. ASSUME NEW i \in 1 .. Len(sent)
          PROVE  Proper(sent[i], i, source, emitted')
      <4>1. Proper(sent[i], i, source, emitted) /\ i \in Nat
        BY <1>2, <1>4 DEF SentIsProper
      <4> QED BY <1>1, <1>3, <4>1, ProperGrows
    <3>2. ASSUME NEW i \in 1 .. Len(queue)
          PROVE  Proper(queue[i], Len(sent) + i, source, emitted')
      <4>1. Proper(queue[i], Len(sent) + i, source, emitted) /\ Len(sent) + i \in Nat
        BY <1>2, <1>4 DEF QueueIsProper
      <4> QED BY <1>1, <1>3, <4>1, ProperGrows
    <3> QED BY <1>1, <2>2, <3>1, <3>2 DEF SentIsProper, QueueIsProper
  <2>6. BatchIsProper'
    <3> SUFFICES ASSUME NEW i \in 1 .. Len(batch')
                 PROVE  Proper(batch'[i], Len(sent) + Len(queue) + i, source, emitted')
      BY <1>1, <2>2 DEF BatchIsProper
    <3>1. CASE i = Len(batch) + 1
      <4> DEFINE n == Len(sent) + Len(queue) + i
      <4>1. emitted' = n /\ batch'[i] = Value(emitted')
        BY <1>1, <1>4, <2>3, <3>1
      <4>2. Value(emitted').err = FALSE
        BY DEF Value
      <4> HIDE DEF n
      <4>3. Proper(batch'[i], n, source, emitted')
        BY <1>3, <2>1, <4>1, <4>2 DEF Proper
      <4> QED BY <4>3 DEF n
    <3>2. CASE i # Len(batch) + 1
      <4>1. i \in 1 .. Len(batch) /\ batch'[i] = batch[i]
        BY <1>4, <2>3, <3>2
      <4>2. Proper(batch[i], Len(sent) + Len(queue) + i, source, emitted)
            /\ Len(sent) + Len(queue) + i \in Nat
        BY <1>4, <4>1 DEF BatchIsProper
      <4> QED BY <1>1, <1>3, <4>1, <4>2, ProperGrows
    <3> QED BY <3>1, <3>2
  <2>7. NothingMissing' /\ AtMostOne'
    BY <1>1, <1>4, <1>6, <2>2, <2>3 DEF NothingMissing, AtMostOne
  <2>8. Cuts'
    BY <1>1, <1>2, <2>2 DEF Cuts
  <2>9. Turns' /\ Calls' /\ SettledAsAnswered'
    BY <1>1, <1>2, <2>2, <2>3 DEF Turns, Calls, SettledAsAnswered
  <2> QED BY <2>4, <2>5, <2>6, <2>7, <2>8, <2>9
<1> QED BY <1>5, <1>6 DEF TypeOK

\* The end of the response comes after all its values, or on the last of them.
LEMMA EndsInv ==
  ASSUME StreamInv, NEW how, NEW packet, Ends(how, packet),
         \/ how = "completed" /\ packet = End
         \/ how = "errored" /\ packet = Error
  PROVE  StreamInv'
<1> USE DEF StreamInv
<1>1. /\ source = "subscribed" /\ source' = how /\ ending' = TRUE
      /\ UNCHANGED <<singleReply, emitted, chain, failed, stopped, byClose, cancelled,
                     replied, first, ended, gaveUp, result, sent, confirmed>>
  BY DEF Ends
<1>2. ~stopped /\ ~ended /\ ~ending /\ ~failed /\ ~byClose /\ ~cancelled
  BY <1>1 DEF Cuts
<1>3. /\ packet \in Packet /\ packet.value = 0 /\ packet.end = TRUE
      /\ \/ how = "completed" /\ packet.err = FALSE
         \/ how = "errored" /\ packet.err = TRUE
  <2>1. packet \in Packet
    BY Packets
  <2>2. CASE how = "completed" /\ packet = End
    BY <2>1, <2>2 DEF End
  <2>3. CASE how = "errored" /\ packet = Error
    BY <2>1, <2>3 DEF Error
  <2> QED BY <2>2, <2>3
<1>4. /\ Len(sent) \in Nat /\ Len(queue) \in Nat /\ Len(batch) \in Nat
      /\ emitted = Len(sent) + Len(queue) + Len(batch)
  BY <1>1, Lengths DEF NothingMissing
<1>5. Cuts'
  <2>1. batch' = batch \/ ~ended'
    BY <1>1, <1>2
  <2> QED BY <1>1, <1>2, <1>3 DEF Cuts
<1>6. Calls' /\ SettledAsAnswered'
  BY <1>1, <1>2, <1>3 DEF Calls, SettledAsAnswered
<1>7. CASE singleReply
  <2> DEFINE p == [packet EXCEPT !.end = TRUE]
  <2>1. queue' = Append(queue, p) /\ batch' = batch
    BY <1>7 DEF Ends, ScheduleOnce
  <2>2. emitted = 0 /\ batch = <<>>
    BY <1>1, <1>7 DEF AtMostOne
  <2>3. Len(sent) = 0 /\ Len(queue) = 0 /\ queue = <<>>
    BY <1>4, <2>2, Lengths
  <2>4. p \in Packet /\ p.value = 0 /\ p.end = TRUE /\ p.err = packet.err
    BY <1>3, WithEnd
  <2> HIDE DEF p
  <2>5. queue' \in Seq(Packet) /\ queue' # <<>> /\ Len(queue') = 1 /\ queue'[1] = p
    BY <2>1, <2>3, <2>4, Appended DEF TypeOK
  <2>6. TypeOK'
    BY <1>1, <1>3, <2>1, <2>5 DEF TypeOK
  <2>7. SentIsProper' /\ BatchIsProper'
    BY <1>1, <2>1, <2>2, <2>3 DEF SentIsProper, BatchIsProper
  <2>8. QueueIsProper'
    <3>1. Proper(p, 1, how, 0)
      BY <1>3, <2>4 DEF Proper
    <3>2. emitted' = 0 /\ Len(sent') = 0 /\ Len(queue') = 1 /\ Len(sent') + 1 = 1
      BY <1>1, <2>2, <2>3, <2>5
    <3>3. \A i \in 1 .. Len(queue') : queue'[i] = p /\ Len(sent') + i = 1
      BY <2>5, <3>2
    <3> QED BY <1>1, <3>1, <3>2, <3>3 DEF QueueIsProper
  <2>9. NothingMissing' /\ AtMostOne'
    BY <1>1, <1>3, <2>1, <2>2, <2>3, <2>5 DEF NothingMissing, AtMostOne
  <2>10. Turns'
    BY <1>1, <1>2, <2>1, <2>5 DEF Turns
  <2> QED BY <1>5, <1>6, <2>6, <2>7, <2>8, <2>9, <2>10
<1>8. CASE ~singleReply
  <2>1. queue' = queue
    BY <1>8 DEF Ends, Schedule
  <2>2. /\ batch' \in Seq(Packet) /\ batch' # <<>>
        /\ \A i \in 1 .. Len(batch') :
              Proper(batch'[i], Len(sent) + Len(queue) + i, how, emitted)
    <3>1. CASE batch # <<>> /\ packet.end /\ ~packet.err /\ ~Last(batch).end
      <4> DEFINE onLast == [Last(batch) EXCEPT !.end = TRUE]
      <4>1. batch' = ReplaceLast(batch, onLast)
        BY <1>8, <3>1 DEF Ends, Schedule, ReplaceLast
      <4>2. Len(batch) # 0 /\ Last(batch) = batch[Len(batch)] /\ Last(batch) \in Packet
        BY <3>1, <1>4, Lengths DEF Last, TypeOK
      <4>3. onLast \in Packet /\ onLast.value = Last(batch).value /\ onLast.end = TRUE /\ onLast.err = Last(batch).err
        BY <4>2, WithEnd
      <4> HIDE DEF onLast
      <4>4. /\ batch' \in Seq(Packet) /\ Len(batch') = Len(batch)
            /\ \A i \in 1 .. Len(batch) : batch'[i] = IF i = Len(batch) THEN onLast ELSE batch[i]
        <5>1. batch \in Seq(Packet)
          BY DEF TypeOK
        <5>2. batch # <<>>
          BY <3>1
        <5>3. onLast \in Packet
          BY <4>3
        <5> QED BY <4>1, <5>1, <5>2, <5>3, OnLast
      <4>5. how = "completed"
        BY <1>3, <3>1
      <4>6. Proper(Last(batch), Len(sent) + Len(queue) + Len(batch), source, emitted)
        <5>1. Len(batch) \in 1 .. Len(batch)
          BY <1>4, <4>2
        <5> QED BY <4>2, <5>1 DEF BatchIsProper
      <4>7. Proper(onLast, Len(sent) + Len(queue) + Len(batch), how, emitted)
        <5> DEFINE n == Len(sent) + Len(queue) + Len(batch)
        <5>1. emitted = n /\ n \in Nat \ {0}
          BY <1>4, <4>2
        <5>2. Proper(Last(batch), n, source, emitted)
          BY <4>6
        <5> HIDE DEF n
        <5>3. Last(batch).value = n
          BY <3>1, <5>2 DEF Proper
        <5>4. onLast.err = FALSE
          <6>1. Last(batch).err \in BOOLEAN
            BY <4>2 DEF Packet
          <6> QED BY <3>1, <4>3, <5>2, <6>1 DEF Proper
        <5>5. Proper(onLast, n, how, emitted)
          BY <4>3, <4>5, <5>1, <5>3, <5>4 DEF Proper
        <5> QED BY <5>5 DEF n
      <4>8. \A i \in 1 .. Len(batch) :
              Proper(batch'[i], Len(sent) + Len(queue) + i, how, emitted)
        <5> SUFFICES ASSUME NEW i \in 1 .. Len(batch)
                     PROVE  Proper(batch'[i], Len(sent) + Len(queue) + i, how, emitted)
          OBVIOUS
        <5>1. CASE i = Len(batch)
          BY <4>4, <4>7, <5>1
        <5>2. CASE i # Len(batch)
          <6>1. batch'[i] = batch[i] /\ Proper(batch[i], Len(sent) + Len(queue) + i, source, emitted)
            BY <4>4, <5>2 DEF BatchIsProper
          <6> QED BY <1>1, <6>1, ProperKept
        <5> QED BY <5>1, <5>2
      <4>9. batch' # <<>>
        BY <4>2, <4>4, EmptySeq
      <4> QED BY <4>4, <4>8, <4>9
    <3>2. CASE ~(batch # <<>> /\ packet.end /\ ~packet.err /\ ~Last(batch).end)
      <4>1. batch' = Append(batch, packet)
        BY <1>8, <3>2 DEF Ends, Schedule
      <4>2. /\ batch' \in Seq(Packet) /\ batch' # <<>> /\ Len(batch') = Len(batch) + 1
            /\ \A i \in 1 .. Len(batch') :
                  batch'[i] = IF i = Len(batch) + 1 THEN packet ELSE batch[i]
        BY <1>3, <4>1, Appended DEF TypeOK
      <4>3. Proper(packet, Len(sent) + Len(queue) + (Len(batch) + 1), how, emitted)
        <5> DEFINE n == Len(sent) + Len(queue) + (Len(batch) + 1)
        <5>1. emitted = n - 1 /\ emitted \in Nat
          BY <1>4
        <5> HIDE DEF n
        <5>2. Proper(packet, n, how, emitted)
          BY <1>3, <5>1 DEF Proper
        <5> QED BY <5>2 DEF n
      <4>4. ASSUME NEW i \in 1 .. Len(batch')
            PROVE  Proper(batch'[i], Len(sent) + Len(queue) + i, how, emitted)
        <5>1. CASE i = Len(batch) + 1
          BY <4>2, <4>3, <5>1
        <5>2. CASE i # Len(batch) + 1
          <6>1. i \in 1 .. Len(batch) /\ batch'[i] = batch[i]
            BY <1>4, <4>2, <5>2
          <6> QED BY <1>1, <6>1, ProperKept DEF BatchIsProper
        <5> QED BY <5>1, <5>2
      <4> QED BY <4>2, <4>4
    <3> QED BY <3>1, <3>2
  <2>3. TypeOK'
    BY <1>1, <1>3, <2>1, <2>2 DEF TypeOK
  <2>4. SentIsProper' /\ QueueIsProper'
    BY <1>1, <2>1, ProperKept DEF SentIsProper, QueueIsProper
  <2>5. BatchIsProper'
    BY <1>1, <2>1, <2>2 DEF BatchIsProper
  <2>6. NothingMissing' /\ AtMostOne'
    BY <1>1, <1>3, <1>8 DEF NothingMissing, AtMostOne
  <2>7. Turns'
    BY <1>1, <1>2, <2>1, <2>2 DEF Turns
  <2> QED BY <1>5, <1>6, <2>3, <2>4, <2>5, <2>6, <2>7
<1> QED BY <1>7, <1>8 DEF TypeOK

\* The end of a tick moves the batch to the chain, in order.
LEMMA TickEndsInv == StreamInv /\ TickEnds => StreamInv'
<1> SUFFICES ASSUME StreamInv, TickEnds PROVE StreamInv'
  OBVIOUS
<1> USE DEF StreamInv
<1>1. /\ batch # <<>> \/ ending
      /\ queue' = queue \o batch /\ batch' = <<>>
      /\ ended' = (ended \/ ending) /\ ending' = FALSE
      /\ UNCHANGED <<singleReply, source, emitted, chain, failed, stopped, byClose,
                     cancelled, replied, first, gaveUp, result, sent, confirmed>>
  BY DEF TickEnds
<1>2. ~ended /\ ~stopped /\ ~failed /\ ~byClose /\ ended' = ending
  BY <1>1 DEF Cuts, TypeOK
<1>3. /\ Len(sent) \in Nat /\ Len(queue) \in Nat /\ Len(batch) \in Nat
      /\ Len(batch') = 0
  BY <1>1, Lengths
<1>4. /\ queue' \in Seq(Packet) /\ Len(queue') = Len(queue) + Len(batch)
      /\ \A i \in 1 .. Len(queue') :
            queue'[i] = IF i <= Len(queue) THEN queue[i] ELSE batch[i - Len(queue)]
  BY <1>1, ConcatProperties DEF TypeOK
<1>5. (queue # <<>> \/ batch # <<>>) => queue' # <<>>
  <2>1. queue # <<>> \/ batch # <<>> => Len(queue') # 0
    BY <1>3, <1>4, Lengths
  <2> QED BY <1>4, <2>1, EmptySeq
<1>6. TypeOK'
  <2>1. /\ ending' = FALSE
        /\ UNCHANGED <<singleReply, source, emitted, chain, failed, stopped, byClose,
                       cancelled, replied, first, gaveUp, result, sent, confirmed>>
    BY <1>1
  <2>2. chain' # "idle" => queue' # <<>>
    BY <1>5, <2>1 DEF TypeOK
  <2>3. queue' \in Seq(Packet)
    BY <1>4
  <2>4. batch' \in Seq(Packet) /\ sent' \in Seq(Packet)
    BY <1>1 DEF TypeOK
  <2>5. ended' \in BOOLEAN /\ ending' \in BOOLEAN
    BY <1>2, <2>1 DEF TypeOK
  <2> QED BY <2>1, <2>2, <2>3, <2>4, <2>5 DEF TypeOK
<1>7. SentIsProper' /\ BatchIsProper'
  BY <1>1, <1>3 DEF SentIsProper, BatchIsProper
<1>8. QueueIsProper'
  <2> SUFFICES ASSUME NEW i \in 1 .. Len(queue')
               PROVE  Proper(queue'[i], Len(sent) + i, source, emitted)
    BY <1>1 DEF QueueIsProper
  <2>1. CASE i <= Len(queue)
    <3>1. i \in 1 .. Len(queue) /\ queue'[i] = queue[i]
      BY <1>3, <1>4, <2>1
    <3> QED BY <1>2, <3>1 DEF QueueIsProper
  <2>2. CASE ~(i <= Len(queue))
    <3> DEFINE j == i - Len(queue)
               k == Len(sent) + Len(queue) + j
               n == Len(sent) + i
    <3>1. j \in 1 .. Len(batch) /\ queue'[i] = batch[j] /\ k = n
      BY <1>3, <1>4, <2>2
    <3> HIDE DEF j
    <3>2. Proper(batch[j], k, source, emitted)
      BY <3>1 DEF BatchIsProper
    <3> HIDE DEF k, n
    <3>3. Proper(queue'[i], n, source, emitted)
      BY <3>1, <3>2
    <3> QED BY <3>3 DEF n
  <2> QED BY <2>1, <2>2
<1>9. NothingMissing'
  <2>1. source # "none"
    BY <1>1 DEF NothingMissing
  <2> QED BY <1>1, <1>3, <1>4, <2>1 DEF NothingMissing
<1>10. AtMostOne'
  BY <1>1, <1>3, <1>4 DEF AtMostOne
<1>11. Cuts'
  BY <1>1, <1>2 DEF Cuts
<1>12. Turns'
  BY <1>1, <1>2, <1>5 DEF Turns
<1>13. Calls' /\ SettledAsAnswered'
  BY <1>1 DEF Calls, SettledAsAnswered
<1> QED BY <1>6, <1>7, <1>8, <1>9, <1>10, <1>11, <1>12, <1>13

\* A reply that is skipped was cut by close() or follows one that failed.
LEMMA SkipInv == StreamInv /\ Skip => StreamInv'
<1> SUFFICES ASSUME StreamInv, Skip PROVE StreamInv'
  OBVIOUS
<1> USE DEF StreamInv
<1>1. /\ queue # <<>> /\ chain = "idle" /\ (failed \/ stopped)
      /\ queue' = Tail(queue) /\ chain' = "idle" /\ first' = TRUE
      /\ replied' = (replied \/ ~cancelled)
      /\ UNCHANGED <<singleReply, source, emitted, batch, ending, failed, stopped,
                     byClose, cancelled, ended, gaveUp, result, sent, confirmed>>
  BY DEF Skip, TurnOver
<1>2. stopped /\ ended /\ batch = <<>> /\ source \notin {"none", "subscribed"}
  BY <1>1 DEF Cuts
<1>3. queue' \in Seq(Packet) /\ Len(queue') = Len(queue) - 1
  BY <1>1, Turned DEF TypeOK
<1>4. Len(sent) \in Nat /\ Len(queue) \in Nat /\ Len(batch) = 0
  BY <1>2, Lengths
<1>5. TypeOK'
  <2>1. replied' \in BOOLEAN
    BY <1>1 DEF TypeOK
  <2> QED BY <1>1, <1>3, <2>1 DEF TypeOK
<1>6. SentIsProper' /\ QueueIsProper' /\ BatchIsProper'
  BY <1>1, <1>2, <1>4 DEF SentIsProper, QueueIsProper, BatchIsProper
<1>7. NothingMissing' /\ AtMostOne'
  BY <1>1, <1>2, <1>3, <1>4 DEF NothingMissing, AtMostOne
<1>8. Cuts'
  BY <1>1 DEF Cuts
<1>9. Turns'
  BY <1>1, <1>2 DEF Turns, Cuts
<1>10. Calls' /\ SettledAsAnswered'
  BY <1>1 DEF Calls, SettledAsAnswered
<1> QED BY <1>5, <1>6, <1>7, <1>8, <1>9, <1>10

\* The first reply queued becomes the last one sent.
LEMMA PublishedInv == StreamInv /\ Published => StreamInv'
<1> SUFFICES ASSUME StreamInv, Published PROVE StreamInv'
  OBVIOUS
<1> USE DEF StreamInv
<1>1. /\ chain = "publishing"
      /\ sent' = Append(sent, Head(queue)) /\ confirmed' = confirmed + 1
      /\ queue' = Tail(queue) /\ chain' = "idle" /\ first' = TRUE
      /\ replied' = (replied \/ ~cancelled)
      /\ UNCHANGED <<singleReply, source, emitted, batch, ending, failed, stopped,
                     byClose, cancelled, ended, gaveUp, result>>
  BY DEF Published, TurnOver
<1>2. queue # <<>> /\ batch = <<>> /\ ~failed /\ ~cancelled /\ source # "none"
  BY <1>1 DEF Published, Quiet, Cuts, TypeOK, NothingMissing
<1>3. /\ queue' \in Seq(Packet) /\ Len(queue') = Len(queue) - 1
      /\ Head(queue) \in Packet /\ Head(queue) = queue[1] /\ 1 \in 1 .. Len(queue)
      /\ \A i \in 1 .. Len(queue') : queue'[i] = queue[i + 1] /\ i + 1 \in 1 .. Len(queue)
  BY <1>1, <1>2, Turned DEF TypeOK
<1>4. /\ sent' \in Seq(Packet) /\ Len(sent') = Len(sent) + 1
      /\ \A i \in 1 .. Len(sent') : sent'[i] = IF i = Len(sent) + 1 THEN Head(queue) ELSE sent[i]
  BY <1>1, <1>3, Appended DEF TypeOK
<1>5. Len(sent) \in Nat /\ Len(queue) \in Nat /\ Len(batch) = 0
  BY <1>2, Lengths
<1>6. \A i \in 1 .. Len(queue) : Proper(queue[i], Len(sent) + i, source, emitted)
  BY <1>1, <1>2 DEF QueueIsProper
<1>7. confirmed \in Nat /\ confirmed' \in 0 .. Len(sent') /\ confirmed' > 0
  BY <1>1, <1>4, <1>5 DEF TypeOK
<1>8. TypeOK'
  <2>1. replied' \in BOOLEAN
    BY <1>1 DEF TypeOK
  <2> QED BY <1>1, <1>3, <1>4, <1>7, <2>1 DEF TypeOK
<1>9. SentIsProper'
  <2> SUFFICES ASSUME NEW i \in 1 .. Len(sent')
               PROVE  Proper(sent'[i], i, source, emitted)
    BY <1>1 DEF SentIsProper
  <2>1. CASE i = Len(sent) + 1
    BY <1>3, <1>4, <1>6, <2>1
  <2>2. CASE i # Len(sent) + 1
    <3>1. i \in 1 .. Len(sent) /\ sent'[i] = sent[i]
      BY <1>4, <1>5, <2>2
    <3> QED BY <1>2, <3>1 DEF SentIsProper
  <2> QED BY <2>1, <2>2
<1>10. QueueIsProper'
  <2> SUFFICES ASSUME NEW i \in 1 .. Len(queue')
               PROVE  Proper(queue'[i], Len(sent') + i, source, emitted)
    BY <1>1 DEF QueueIsProper
  <2>1. Len(sent') + i = Len(sent) + (i + 1) /\ queue'[i] = queue[i + 1]
    BY <1>3, <1>4, <1>5
  <2>2. Proper(queue[i + 1], Len(sent) + (i + 1), source, emitted)
    BY <1>3, <1>6
  <2> QED BY <2>1, <2>2, Zenon
<1>11. BatchIsProper' /\ NothingMissing' /\ AtMostOne'
  BY <1>1, <1>2, <1>3, <1>4, <1>5 DEF BatchIsProper, NothingMissing, AtMostOne
<1>12. Cuts'
  BY <1>1 DEF Cuts
<1>13. Turns'
  BY <1>1, <1>2, <1>7 DEF Turns
<1>14. Calls' /\ SettledAsAnswered'
  BY <1>1, <1>7 DEF Calls, SettledAsAnswered
<1> QED BY <1>8, <1>9, <1>10, <1>11, <1>12, <1>13, <1>14

\* The first reply queued may or may not be sent, and nothing after it will be.
LEMMA PublishFailsInv == StreamInv /\ PublishFails => StreamInv'
<1> SUFFICES ASSUME StreamInv, PublishFails PROVE StreamInv'
  OBVIOUS
<1> USE DEF StreamInv
<1>1. /\ chain = "publishing" /\ failed' = TRUE
      /\ sent' \in {sent, Append(sent, Head(queue))}
      /\ UNCHANGED <<singleReply, emitted, batch, ending, byClose, gaveUp, result, confirmed>>
  BY DEF PublishFails
<1>2. queue # <<>> /\ batch = <<>> /\ ~ending /\ ~failed /\ ~cancelled /\ source # "none"
  BY <1>1 DEF PublishFails, Quiet, Cuts, TypeOK, NothingMissing
<1>3. /\ Tail(queue) \in Seq(Packet) /\ Len(Tail(queue)) = Len(queue) - 1
      /\ Head(queue) \in Packet /\ Head(queue) = queue[1] /\ 1 \in 1 .. Len(queue)
  BY <1>2, Turned DEF TypeOK
<1>4. Len(sent) \in Nat /\ Len(queue) \in Nat /\ Len(batch) = 0
  BY <1>2, Lengths
<1>5. /\ sent' \in Seq(Packet) /\ Len(sent') \in {Len(sent), Len(sent) + 1}
      /\ \A i \in 1 .. Len(sent') :
            sent'[i] = IF i = Len(sent) + 1 THEN Head(queue) ELSE sent[i]
  <2>1. CASE sent' = sent
    BY <1>4, <2>1 DEF TypeOK
  <2>2. CASE sent' = Append(sent, Head(queue))
    BY <1>3, <2>2, Appended DEF TypeOK
  <2> QED BY <1>1, <2>1, <2>2
<1>6. confirmed' \in 0 .. Len(sent')
  BY <1>1, <1>4, <1>5 DEF TypeOK
<1>7. ASSUME source' \notin {"none", "subscribed"},
             source \in {"completed", "errored"} => source' = source
      PROVE  SentIsProper' /\ QueueIsProper' /\ BatchIsProper'
  <2>1. \A i \in 1 .. Len(queue) : Proper(queue[i], Len(sent) + i, source, emitted)
    BY <1>1, <1>2 DEF QueueIsProper
  <2>2. \A i \in 1 .. Len(sent') : Proper(sent'[i], i, source, emitted)
    <3> SUFFICES ASSUME NEW i \in 1 .. Len(sent')
                 PROVE  Proper(sent'[i], i, source, emitted)
      OBVIOUS
    <3>1. CASE i = Len(sent) + 1
      BY <1>3, <1>5, <2>1, <3>1
    <3>2. CASE i # Len(sent) + 1
      <4>1. i \in 1 .. Len(sent) /\ sent'[i] = sent[i]
        BY <1>4, <1>5, <3>2
      <4> QED BY <1>2, <4>1 DEF SentIsProper
    <3> QED BY <3>1, <3>2
  <2>3. SentIsProper'
    BY <1>1, <1>7, <2>2, ProperKept DEF SentIsProper
  <2> QED BY <1>1, <1>2, <1>4, <2>3 DEF QueueIsProper, BatchIsProper
<1>8. CASE byClose
  <2>1. /\ cancelled' = TRUE /\ queue' = Tail(queue) /\ chain' = "idle" /\ first' = TRUE
        /\ UNCHANGED <<source, stopped, ended>>
    BY <1>8, Zenon DEF PublishFails, TurnOver
  <2>2. replied' = replied
    <3>1. replied' = (replied \/ ~TRUE)
      BY <1>8, Zenon DEF PublishFails, TurnOver
    <3> QED BY <3>1, Zenon DEF TypeOK
  <2>3. stopped /\ ended /\ source \notin {"none", "subscribed"}
    BY <1>8 DEF Cuts
  <2>4. TypeOK'
    BY <1>1, <1>3, <1>5, <1>6, <2>1, <2>2 DEF TypeOK
  <2>5. SentIsProper' /\ QueueIsProper' /\ BatchIsProper'
    BY <1>7, <2>1, <2>3
  <2>6. NothingMissing' /\ AtMostOne'
    BY <1>1, <1>3, <1>4, <1>5, <2>1, <2>3 DEF NothingMissing, AtMostOne
  <2>7. Cuts'
    BY <1>1, <1>8, <2>1, <2>3 DEF Cuts
  <2>8. Turns'
    BY <1>1, <1>2, <2>1, <2>2 DEF Turns
  <2>9. Calls' /\ SettledAsAnswered'
    BY <1>1, <1>2, <2>1 DEF Calls, SettledAsAnswered
  <2> QED BY <2>4, <2>5, <2>6, <2>7, <2>8, <2>9
<1>9. CASE ~byClose
  <2>1. stopped' = TRUE /\ source' = Unsubscribed /\ ended' = TRUE /\ cancelled' = cancelled
    BY <1>9, Zenon DEF PublishFails
  <2>2. /\ source' \in {"completed", "errored", "unsubscribed"}
        /\ source \in {"completed", "errored"} => source' = source
    BY <1>2, <2>1 DEF Unsubscribed, TypeOK
  <2>3. IF singleReply
        THEN /\ queue' = Tail(queue) /\ chain' = "idle" /\ first' = TRUE /\ replied' = TRUE
        ELSE chain' = "errorReply" /\ UNCHANGED <<queue, replied, first>>
    <3>1. CASE singleReply
      BY <1>2, <1>9, <3>1 DEF PublishFails, TurnOver
    <3>2. CASE ~singleReply
      BY <1>9, <3>2, Zenon DEF PublishFails
    <3> QED BY <3>1, <3>2
  <2>4. SentIsProper' /\ QueueIsProper' /\ BatchIsProper'
    BY <1>7, <2>2
  <2>5. CASE singleReply
    <3>1. TypeOK'
      BY <1>1, <1>3, <1>5, <1>6, <2>1, <2>2, <2>3, <2>5 DEF TypeOK
    <3>2. NothingMissing' /\ AtMostOne'
      BY <1>1, <1>3, <1>4, <1>5, <2>2, <2>3, <2>5 DEF NothingMissing, AtMostOne
    <3>3. Cuts'
      BY <1>1, <1>2, <1>9, <2>1, <2>2, <2>3, <2>5 DEF Cuts
    <3>4. Turns'
      BY <1>1, <1>2, <1>9, <2>1, <2>3, <2>5 DEF Turns
    <3>5. Calls' /\ SettledAsAnswered'
      BY <1>1, <1>2, <2>1, <2>2, <2>3, <2>5 DEF Calls, SettledAsAnswered
    <3> QED BY <2>4, <3>1, <3>2, <3>3, <3>4, <3>5
  <2>6. CASE ~singleReply
    <3>1. TypeOK'
      BY <1>1, <1>2, <1>5, <1>6, <2>1, <2>2, <2>3, <2>6 DEF TypeOK
    <3>2. NothingMissing' /\ AtMostOne'
      BY <1>1, <1>4, <1>5, <2>2, <2>3, <2>6 DEF NothingMissing, AtMostOne
    <3>3. Cuts'
      BY <1>1, <1>2, <1>9, <2>1, <2>2, <2>3, <2>6 DEF Cuts
    <3>4. Turns'
      BY <1>1, <1>2, <1>9, <2>1, <2>3, <2>6 DEF Turns
    <3>5. Calls' /\ SettledAsAnswered'
      BY <1>1, <1>2, <2>1, <2>2, <2>3, <2>6 DEF Calls, SettledAsAnswered
    <3> QED BY <2>4, <3>1, <3>2, <3>3, <3>4, <3>5
  <2> QED BY <2>5, <2>6
<1> QED BY <1>8, <1>9

\* The error that stands for a failed reply may or may not be sent.
LEMMA ErrorReplySettlesInv == StreamInv /\ ErrorReplySettles => StreamInv'
<1> SUFFICES ASSUME StreamInv, ErrorReplySettles PROVE StreamInv'
  OBVIOUS
<1> USE DEF StreamInv
<1>1. /\ chain = "errorReply"
      /\ queue' = Tail(queue) /\ chain' = "idle" /\ first' = TRUE
      /\ replied' = (replied \/ ~cancelled)
      /\ UNCHANGED <<singleReply, source, emitted, batch, ending, failed, stopped,
                     byClose, cancelled, ended, gaveUp, result>>
  BY DEF ErrorReplySettles, TurnOver
<1>2. \/ sent' = sent /\ confirmed' = confirmed
      \/ sent' = Append(sent, Error) /\ confirmed' \in {confirmed, confirmed + 1}
  BY DEF ErrorReplySettles
<1>3. /\ queue # <<>> /\ batch = <<>> /\ ended /\ failed /\ ~byClose /\ ~cancelled /\ ~singleReply
      /\ source \notin {"none", "subscribed"}
  BY <1>1 DEF Cuts, AtMostOne, TypeOK
<1>4. replied' = TRUE
  BY <1>1, <1>3 DEF TypeOK
<1>5. queue' \in Seq(Packet)
  BY <1>1, <1>3, Turned DEF TypeOK
<1>6. Len(sent) \in Nat /\ Len(batch) = 0 /\ confirmed \in Nat /\ confirmed <= Len(sent)
  BY <1>3, Lengths DEF TypeOK
<1>7. \A i \in 1 .. Len(sent) : Proper(sent[i], i, source, emitted)
  BY <1>1 DEF SentIsProper
<1>8. /\ sent' \in Seq(Packet) /\ confirmed' \in 0 .. Len(sent')
      /\ \A i \in 1 .. Len(sent') :
            Proper(sent'[i], i, source, emitted) \/ (sent'[i] = Error /\ i = Len(sent'))
  <2>1. CASE sent' = sent /\ confirmed' = confirmed
    BY <1>6, <1>7, <2>1 DEF TypeOK
  <2>2. CASE sent' = Append(sent, Error) /\ confirmed' \in {confirmed, confirmed + 1}
    <3>1. /\ sent' \in Seq(Packet) /\ Len(sent') = Len(sent) + 1
          /\ \A i \in 1 .. Len(sent') : sent'[i] = IF i = Len(sent) + 1 THEN Error ELSE sent[i]
      BY <2>2, Packets, Appended DEF TypeOK
    <3> QED BY <1>6, <1>7, <2>2, <3>1
  <2> QED BY <1>2, <2>1, <2>2
<1>9. TypeOK'
  BY <1>1, <1>4, <1>5, <1>8 DEF TypeOK
<1>10. SentIsProper' /\ QueueIsProper' /\ BatchIsProper'
  BY <1>1, <1>3, <1>6, <1>8 DEF SentIsProper, QueueIsProper, BatchIsProper
<1>11. NothingMissing' /\ AtMostOne'
  BY <1>1, <1>3 DEF NothingMissing, AtMostOne
<1>12. Cuts'
  BY <1>1 DEF Cuts
<1>13. Turns' /\ Calls' /\ SettledAsAnswered'
  BY <1>1, <1>2, <1>3, <1>4, <1>6 DEF Turns, Calls, SettledAsAnswered
<1> QED BY <1>9, <1>10, <1>11, <1>12, <1>13

\* The invariant says nothing of what is not a variable.
LEMMA StutterInv == StreamInv /\ UNCHANGED vars => StreamInv'
BY DEF StreamInv, TypeOK, SentIsProper, QueueIsProper, BatchIsProper, NothingMissing,
       AtMostOne, Cuts, Turns, Calls, SettledAsAnswered, vars, streamVars

\* Every step of a response keeps the invariant.
LEMMA StepInv == StreamInv /\ [Next]_vars => StreamInv'
<1> SUFFICES ASSUME StreamInv, [Next]_vars PROVE StreamInv'
  OBVIOUS
<1>1. CASE Start
  BY <1>1, StartInv
<1>2. CASE Emit
  BY <1>2, EmitInv
<1>3. CASE Complete
  BY <1>3, EndsInv DEF Complete
<1>4. CASE Fail
  BY <1>4, EndsInv DEF Fail
<1>5. CASE TickEnds
  BY <1>5, TickEndsInv
<1>6. CASE Publish
  BY <1>6, PublishInv
<1>7. CASE Skip
  BY <1>7, SkipInv
<1>8. CASE Settles
  BY <1>8, PublishedInv, PublishFailsInv, ErrorReplySettlesInv DEF Settles
<1>9. CASE Return
  BY <1>9, ReturnInv
<1>10. CASE GiveUp
  BY <1>10, GiveUpInv
<1>11. CASE UNCHANGED vars
  BY <1>11, StutterInv
<1> QED
  BY <1>1, <1>2, <1>3, <1>4, <1>5, <1>6, <1>7, <1>8, <1>9, <1>10, <1>11 DEF Next

\* What a step does to the response: its end is final, and what was sent only
\* grows, by the reply that belongs there or by the error in place of the rest.
LEMMA StepShape ==
  ASSUME StreamInv, Next
  PROVE  /\ singleReply' = singleReply
         /\ emitted' \in {emitted, emitted + 1}
         /\ source \notin {"none", "subscribed"} => source' = source /\ emitted' = emitted
         /\ \/ sent' = sent
            \/ /\ chain = "publishing" /\ sent' = Append(sent, Head(queue))
               /\ Head(queue) \in Packet
               /\ Proper(Head(queue), Len(sent) + 1, source, emitted)
            \/ chain = "errorReply" /\ sent' = Append(sent, Error)
<1>1. CASE Start \/ Return
  BY <1>1 DEF Start, Return, streamVars, StreamInv, Calls
<1>2. CASE Emit
  BY <1>2 DEF Emit
<1>3. CASE Complete \/ Fail
  BY <1>3 DEF Complete, Fail, Ends
<1>4. CASE TickEnds \/ Publish \/ Skip
  BY <1>4 DEF TickEnds, Publish, Skip, TurnOver
<1>5. CASE GiveUp
  BY <1>5 DEF GiveUp, Unsubscribed
<1>6. ASSUME chain = "publishing"
      PROVE  Head(queue) \in Packet /\ Proper(Head(queue), Len(sent) + 1, source, emitted)
  <2>1. queue \in Seq(Packet) /\ queue # <<>> /\ ~failed
    BY <1>6 DEF StreamInv, TypeOK, Cuts
  <2>2. Head(queue) \in Packet /\ Head(queue) = queue[1] /\ 1 \in 1 .. Len(queue)
    BY <2>1, Turned
  <2> QED BY <1>6, <2>1, <2>2 DEF StreamInv, QueueIsProper
<1>7. CASE Published \/ PublishFails
  BY <1>6, <1>7 DEF Published, PublishFails, Unsubscribed
<1>8. CASE ErrorReplySettles
  BY <1>8 DEF ErrorReplySettles
<1> QED BY <1>1, <1>2, <1>3, <1>4, <1>5, <1>7, <1>8 DEF Next, Settles

\* What the server keeps while it answers a request is consistent at all times:
\* what was sent, what is queued and what this tick holds are one response.
THEOREM StreamInvariant == Spec => []StreamInv
BY InitInv, StepInv, PTL DEF Spec

-----------------------------------------------------------------------------
(* What the invariant gives *)

\* Every variable keeps its type, however many values the handler emits.
THEOREM StreamTypes == Spec => []TypeOK
<1>1. StreamInv => TypeOK
  BY DEF StreamInv
<1> QED BY StreamInvariant, <1>1, PTL

\* sendReply() settles the request as it was answered.
THEOREM RequestSettledAsAnswered == Spec => []SettledAsAnswered
<1>1. StreamInv => SettledAsAnswered
  BY DEF StreamInv
<1> QED BY StreamInvariant, <1>1, PTL

\* A 1.1.0 client is sent one reply at most.
THEOREM OneReply == Spec => []OneReplyForOldClients
<1>1. StreamInv => OneReplyForOldClients
  BY Lengths DEF StreamInv, AtMostOne, OneReplyForOldClients
<1> QED BY StreamInvariant, <1>1, PTL

\* The values reach the client in order, from the first and without a gap.
THEOREM NoGap == Spec => []GapFree
<1>1. StreamInv => GapFree
  <2> SUFFICES ASSUME StreamInv, NEW i \in Seen, sent[i].value # 0
               PROVE  sent[i].value = i
    BY DEF GapFree
  <2>1. Proper(sent[i], i, source, emitted) \/ sent[i] = Error
    BY DEF StreamInv, SentIsProper, Seen
  <2> QED BY <2>1 DEF Proper, Error
<1> QED BY StreamInvariant, <1>1, PTL

\* A response that was cut or failed never looks complete: the end a client
\* since 1.2.0 sees comes after every value of the response.
THEOREM NoEarlyEnd == Spec => []NoFalseEnd
<1>1. StreamInv => NoFalseEnd
  <2> SUFFICES ASSUME StreamInv, NEW i \in Seen, sent[i].end, ~sent[i].err
               PROVE  /\ source = "completed"
                      /\ \A n \in 1 .. emitted : \E j \in Seen : sent[j].value = n
    BY DEF NoFalseEnd
  <2>1. i \in 1 .. Len(sent) /\ \A j \in 1 .. i - 1 : ~sent[j].end
    BY DEF Seen
  <2>2. \A j \in 1 .. Len(sent) : Proper(sent[j], j, source, emitted) \/ sent[j] = Error
    BY DEF StreamInv, SentIsProper
  <2>3. sent[i] # Error
    BY DEF Error
  <2>4. /\ source = "completed"
        /\ emitted = IF sent[i].value = 0 THEN i - 1 ELSE i
        /\ sent[i].value \in {0, i}
    BY <2>1, <2>2, <2>3 DEF Proper
  <2>5. ASSUME NEW n \in 1 .. emitted
        PROVE  n \in Seen /\ sent[n].value = n
    <3>1. Len(sent) \in Nat /\ emitted \in Nat /\ i \in 1 .. Len(sent)
      BY <2>1, Lengths, MaxValuesAssumption DEF StreamInv, TypeOK
    <3>2. n <= i /\ n \in 1 .. Len(sent)
      BY <2>4, <3>1
    <3>3. n \in Seen
      BY <2>1, <3>1, <3>2 DEF Seen
    <3>4. CASE n = i
      BY <2>4, <3>1, <3>4
    <3>5. CASE n # i
      <4>1. n \in 1 .. i - 1
        BY <3>1, <3>2, <3>5
      <4>2. ~sent[n].end
        BY <2>1, <4>1
      <4>3. Proper(sent[n], n, source, emitted)
        BY <2>2, <3>2, <4>2 DEF Error
      <4> QED BY <3>3, <4>2, <4>3 DEF Proper
    <3> QED BY <3>3, <3>4, <3>5
  <2> QED BY <2>4, <2>5
<1> QED BY StreamInvariant, <1>1, PTL

\* Once close() cut the response no step starts another send.
THEOREM NothingAfterCut == Spec => NothingStartsAfterCut
<1>1. StreamInv /\ [Next]_vars => [byClose => chain' = chain \/ chain' = "idle"]_vars
  <2> SUFFICES ASSUME StreamInv, Next, byClose
               PROVE  chain' = chain \/ chain' = "idle"
    OBVIOUS
  <2>1. stopped
    BY DEF StreamInv, Cuts
  <2>2. CASE Start \/ Emit \/ Complete \/ Fail \/ TickEnds
    BY <2>2 DEF Start, Emit, Complete, Fail, Ends, TickEnds, streamVars
  <2>3. CASE Publish \/ Skip
    BY <2>1, <2>3 DEF Publish, Skip, TurnOver
  <2>4. CASE Settles
    BY <2>4 DEF Settles, Published, PublishFails, ErrorReplySettles, TurnOver
  <2>5. CASE Return \/ GiveUp
    BY <2>5 DEF Return, GiveUp, streamVars
  <2> QED BY <2>2, <2>3, <2>4, <2>5 DEF Next
<1> QED BY StreamInvariant, <1>1, PTL DEF Spec, NothingStartsAfterCut
=============================================================================
