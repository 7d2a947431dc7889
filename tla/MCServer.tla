---- MODULE MCServer ----
(* Instances of Server for TLC. *)
EXTENDS Server, TLC

CONSTANTS p1, p2, p3, event, request, other

\* The last delivery is the only one of p2.
TwoPatterns == [m \in Delivery |-> IF m = other THEN p2 ELSE p1]
OnePattern == [m \in Delivery |-> p1]

EventsAndRequests ==
  [m \in Delivery |-> CASE m = event -> "event" [] m = request -> "request"
                        [] OTHER -> "notAllowed"]

\* @Queue({ queueName })
OnQueue == Decorated(TRUE, "name", "absent", "absent")

\* An application with one handler, on a queue.
OneHandler == {[p \in Pattern |-> OnQueue]}

\* @Subscription() with both names, from a factory, and with an empty name; a
\* pattern written by hand with metaOptions: null.
Subscribers ==
  {Decorated(TRUE, "absent", "name", "name"), Decorated(FALSE, "absent", "name", "name"),
   Decorated(TRUE, "absent", "name", "unusable"),
   [declaredHere |-> FALSE, json |-> "object", metaOptions |-> "unusable",
    queueName |-> "absent", topic |-> "absent", subscription |-> "absent"]}

\* @MessagePattern({ cmd }) of another transport.
OfAnother ==
  [declaredHere |-> FALSE, json |-> "object", metaOptions |-> "absent",
   queueName |-> "absent", topic |-> "absent", subscription |-> "absent"]

\* A hybrid application: a queue, a subscription and another transport's handler.
HybridApplications ==
  {[p \in Pattern |-> CASE p = p1 -> OnQueue [] p = p2 -> d [] OTHER -> OfAnother] :
     d \in Subscribers}
====
