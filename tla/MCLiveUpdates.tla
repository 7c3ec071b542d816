--------------------------- MODULE MCLiveUpdates ---------------------------
(* Instances of LiveUpdates for TLC.                                       *)
EXTENDS LiveUpdates, TLC

CONSTANTS s1, s2, b1, b2, r1

MCPair == {s1, s2}
MCBuilds == {b1, b2}
MCRerank == {r1}
NoRerank == {}
PairSymmetry == Permutations({s1, s2}) \cup Permutations({b1, b2})
=============================================================================
