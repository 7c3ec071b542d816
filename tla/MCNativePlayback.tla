-------------------------- MODULE MCNativePlayback --------------------------
(* Instances of NativePlayback for TLC: two tasks over three tracks.       *)
EXTENDS NativePlayback

CONSTANTS t1, t2, trackA, trackB, trackC
MCTask == {t1, t2}
MCTrack == {trackA, trackB, trackC}
MCSymmetry == Permutations(MCTask) \cup Permutations(MCTrack)
=============================================================================
