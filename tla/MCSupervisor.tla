---------------------------- MODULE MCSupervisor ----------------------------
(***************************************************************************)
(* Instance of Supervisor for TLC.                                         *)
(***************************************************************************)
EXTENDS Supervisor

CONSTANTS w1, w2, l1, l2, l3

\* A call with two specs, then one with a third: what the first left behind meets the second.
TwoCalls == <<<<l1, l2>>, <<l3>>>>
=============================================================================
