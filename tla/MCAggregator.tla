---------------------------- MODULE MCAggregator ----------------------------
(***************************************************************************)
(* Small instances of Aggregator for TLC.                                  *)
(***************************************************************************)
EXTENDS Aggregator

CONSTANTS skill, prompt, c1, c2

TwoArtifacts == {skill, prompt}
TwoCards     == {c1, c2}
AnyPhase     == {"prepare", "measure", "decide", "promote"}
=============================================================================
