------------------------------ MODULE RunLog ------------------------------
(***************************************************************************)
(* What the durable run service promises: a run is one log.  However many  *)
(* workers take turns on it, each event is an atomic step decided on the   *)
(* whole log before it, no idempotency key is used twice, and the first    *)
(* terminal event is the last event.                                       *)
(***************************************************************************)
EXTENDS Integers, Sequences

CONSTANTS Events   \* records with at least the fields kind, key and seen
VARIABLE log

Terminal == {"completed", "failed", "cancelled"}

Closed == \E i \in DOMAIN log : log[i].kind \in Terminal

\* `failed` is the second half of a decision whose first half is an attempt.
Decided(e) ==
  \/ e.kind # "failed" /\ e.seen = Len(log)
  \/ /\ e.kind = "failed" /\ e.seen = Len(log) - 1
     /\ log[Len(log)].kind = "attempt"

Record(e) ==
  /\ e \in Events
  /\ ~Closed
  /\ \A i \in DOMAIN log : log[i].key # e.key
  /\ Decided(e)
  /\ log' = Append(log, e)

Init == log = <<>>

\* Some event is recorded.
Next == Len(log') = Len(log) + 1 /\ Record(log'[Len(log')])

Spec == Init /\ [][Next]_log
=============================================================================
