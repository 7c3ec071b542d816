---------------------------- MODULE MCDriftSweep ----------------------------
(* Instances of DriftSweep for TLC: three sessions without other writers,  *)
(* or the second of them with two participants.                             *)
EXTENDS DriftSweep, TLC
CONSTANTS jam1, jam2, jam3, host, guest
Each(x, y, z) == [s \in Sessions |-> IF s = jam1 THEN x ELSE IF s = jam2 THEN y ELSE z]
MCPicks == Each(1, 0, NoPick)
MCCreated == Each(1, 0, 0)
MCSymmetry == Permutations({host, guest})
=============================================================================
