---------------------------- MODULE MCLoopKernel ----------------------------
(***************************************************************************)
(* A small instance of LoopKernel for TLC.  The workers are not made       *)
(* symmetric: the run also checks liveness.                                *)
(***************************************************************************)
EXTENDS LoopKernel

CONSTANTS w1, w2

MCWorkers == {w1, w2}
=============================================================================
