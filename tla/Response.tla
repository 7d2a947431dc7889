------------------------------- MODULE Response -------------------------------
(***************************************************************************)
(* What send() promises its caller of a response: the values that the      *)
(* handler produced, each once and in their order, and completion only     *)
(* after the response completed and with all of its values.  The caller    *)
(* may fail or leave at any time.  Only a value whose message was lost on  *)
(* the way may be missing.                                                 *)
(***************************************************************************)
EXTENDS Integers, Sequences, SequencesExt

VARIABLES
  produced,  \* how many values the handler's response has so far
  over,      \* "no", "completed" or "errored"
  lost,      \* the values whose message was lost
  got,       \* the values that the caller got
  outcome    \* of the caller's Observable: "open", "completed", "failed", "left"

vars == <<produced, over, lost, got, outcome>>

Init ==
  /\ produced = 0 /\ over = "no"
  /\ lost = {}
  /\ got = <<>> /\ outcome = "open"

Produce ==
  /\ over = "no"
  /\ produced' \in {produced, produced + 1}
  /\ over' \in {"no", "completed", "errored"}
  /\ UNCHANGED <<lost, got, outcome>>

Lose ==
  /\ \E n \in 1 .. produced : lost' = lost \union {n}
  /\ UNCHANGED <<produced, over, got, outcome>>

\* The caller has, or cannot get, the values of S.
Has(values, S) == S \subseteq ToSet(values) \union lost

Receives(n) ==
  /\ n \notin ToSet(got)
  /\ Has(got, 1 .. n - 1)
  /\ \A i \in DOMAIN got : got[i] < n
  /\ got' = Append(got, n)

Receive ==
  /\ outcome = "open"
  /\ \E n \in 1 .. produced : Receives(n)
  /\ UNCHANGED <<produced, over, lost, outcome>>

Complete ==
  /\ outcome = "open"
  /\ over = "completed"
  /\ got' = got \/ \E n \in 1 .. produced : Receives(n)
  /\ Has(got', 1 .. produced)
  /\ outcome' = "completed"
  /\ UNCHANGED <<produced, over, lost>>

Stop ==
  /\ outcome = "open"
  /\ outcome' \in {"failed", "left"}
  /\ UNCHANGED <<produced, over, lost, got>>

Next == Produce \/ Lose \/ Receive \/ Complete \/ Stop

Spec == Init /\ [][Next]_vars
=============================================================================
