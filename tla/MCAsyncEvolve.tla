--------------------------- MODULE MCAsyncEvolve ---------------------------
(***************************************************************************)
(* Small instances of AsyncEvolve for TLC.                                 *)
(***************************************************************************)
EXTENDS AsyncEvolve, TLC

CONSTANTS skill, prompt, c1, c2, w1, w2

OneArtifact  == {skill}
TwoArtifacts == {skill, prompt}
OneCard      == {c1}
TwoCards     == {c1, c2}
OneWorker    == {w1}
TwoWorkers   == {w1, w2}
Nothing      == {}
AnyPhase     == {"prepare", "measure", "decide", "promote"}
WorkPhases   == {"prepare", "measure", "decide"}
AnyFailure   == {"rollout", "verify", "score"}
ScoreFails   == {"score"}
CallersBug   == {"contract"}
Target       == {"target_reward"}

Alike == Permutations(Cards) \union Permutations(Workers)
=============================================================================
