------------------------------ MODULE MCLedger ------------------------------
(***************************************************************************)
(* Instances of Ledger for TLC.                                            *)
(***************************************************************************)
EXTENDS Ledger, TLC

CONSTANTS w1, w2, i1

\* Two threads of one process, or two processes with a thread each.
OneProcess   == [w \in {w1, w2} |-> i1]
TwoProcesses == [w \in {w1, w2} |-> w]

Interchangeable == Permutations({w1, w2})
=============================================================================
