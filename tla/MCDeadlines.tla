---- MODULE MCDeadlines ----
(* Instances of Deadlines for TLC. *)
EXTENDS Deadlines

CONSTANTS s1, s2
====
