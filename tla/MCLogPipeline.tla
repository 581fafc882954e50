--------------------------- MODULE MCLogPipeline ---------------------------
(* Instances of LogPipeline for TLC: sets of handler threads. *)
EXTENDS LogPipeline, TLC

CONSTANTS l1, l2, t1

OneLight == {l1}
TwoLight == {l1, l2}
OneTemp  == {t1}
NoTemp   == {}
Symmetry == Permutations(TwoLight)
=============================================================================
