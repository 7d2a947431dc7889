---- MODULE MCExchange ----
(* Instances of Exchange for TLC. *)
EXTENDS Exchange

\* Each kind of value, each kind of error that ToReplyError tells apart (and two
\* of the three that it does not: an Error, undefined and null), and both
\* choices of the messageId.
Payloads ==
  {[value |-> "undefined", error |-> "Error", ownMessageId |-> FALSE],
   [value |-> "null", error |-> "undefined", ownMessageId |-> FALSE],
   [value |-> "falsy", error |-> "falsy", ownMessageId |-> FALSE],
   [value |-> "object", error |-> "object", ownMessageId |-> TRUE]}
====
