---- MODULE MCReplyRouter ----
(* Instances of ReplyRouter for TLC. *)
EXTENDS ReplyRouter, TLC

CONSTANTS r1, r2, r3, q1, q2, m1, m2, m3, foreign

\* One queue: every request waits on q1.
OneQueueRequests == [r \in Request |-> q1]
OneQueueReplies == [m \in Reply |-> q1]

\* Two queues: r3 alone waits on q2.
TwoQueueRequests == [r \in Request |-> IF r = r3 THEN q2 ELSE q1]
TwoQueueReplies == [m \in Reply |-> IF m = m3 THEN q2 ELSE q1]

\* A reply to each request.
OwnReplies == [m \in Reply |-> CASE m = m1 -> r1 [] m = m2 -> r2 [] m = m3 -> r3]

\* A reply to r1, one to a request of another client, and one to no request.
MixedReplies == [m \in Reply |-> CASE m = m1 -> r1 [] m = m2 -> foreign [] m = m3 -> InvalidId]
====
