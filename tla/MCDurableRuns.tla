--------------------------- MODULE MCDurableRuns ---------------------------
(***************************************************************************)
(* Instances of DurableRuns for TLC.                                       *)
(***************************************************************************)
EXTENDS DurableRuns, TLC

CONSTANTS p1, p2

\* Every worker has an id of its own.
OwnIds == [p \in {p1, p2} |-> p]

Interchangeable == Permutations({p1, p2})
=============================================================================
