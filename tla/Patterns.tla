------------------------------- MODULE Patterns -------------------------------
(***************************************************************************)
(* The handlers that NestJS registers on the server, and what              *)
(* bindEvents() makes of each: parsePattern() and createReceiver() of      *)
(* lib/server/azure-service-bus.server.ts, for handlers declared with      *)
(* @Queue() and @Subscription() (lib/decorators, lib/metadata), by hand,   *)
(* or for another transport.                                               *)
(*                                                                         *)
(* A name is "name", "absent" (undefined or null) or "unusable" (empty, or *)
(* not a string).  `json` is what JSON.parse makes of the pattern string:  *)
(* "object", "other" (a value that is no plain object) or "invalid".       *)
(***************************************************************************)

Name == {"name", "absent", "unusable"}

Declaration ==
  [declaredHere : BOOLEAN, json : {"object", "other", "invalid"},
   metaOptions : {"object", "unusable", "absent"},
   queueName : Name, topic : Name, subscription : Name]

\* What @Queue() and @Subscription() register for their argument: a factory
\* function, or an option that is undefined, leaves a string that is no JSON.
Decorated(plain, queueName, topic, subscription) ==
  [declaredHere |-> TRUE,
   json |-> IF plain THEN "object" ELSE "invalid",
   metaOptions |-> IF plain THEN "object" ELSE "absent",
   queueName |-> queueName, topic |-> topic, subscription |-> subscription]

HasOptions(d) == d.json = "object" /\ d.metaOptions # "absent"

\* Mutant: a handler whose options cannot be read is left to other transports.
IgnoresUnreadable(d) ==
  IF HasOptions(d) /\ d.metaOptions = "object" THEN "options" ELSE "ignored"

ParsePattern(d) ==
  CASE ~d.declaredHere /\ ~HasOptions(d) -> "ignored"
    [] HasOptions(d) /\ d.metaOptions = "object" -> "options"
    [] OTHER -> "error"

\* The entity of the receiver.
CreateReceiver(d) ==
  CASE d.queueName = "name" -> "queue"
    [] d.queueName # "name" /\ d.topic = "name" /\ d.subscription = "name" -> "subscription"
    [] d.queueName # "name" /\ d.topic = "name" /\ d.subscription = "absent" -> "topic as queue"
    [] OTHER -> "error"

\* What bindEvents() does with a handler that has no receiver.
Binding(d) == IF ParsePattern(d) = "options" THEN CreateReceiver(d) ELSE ParsePattern(d)
=============================================================================
