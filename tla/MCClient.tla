---- MODULE MCClient ----
(* Instances of Client for TLC. *)
EXTENDS Client, TLC

CONSTANTS r1, r2, e1, q1, k1, k2

OneQueue == [r \in Request |-> q1]

\* The requests of a queue are interchangeable, and so are the close() calls.
Interchangeable == Permutations(Request) \union Permutations(Closer)
====
