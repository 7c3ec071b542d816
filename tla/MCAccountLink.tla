--------------------------- MODULE MCAccountLink ---------------------------
(* Instances of AccountLink for TLC.                                       *)
EXTENDS AccountLink

CONSTANTS e1, e2, s1, s2, a1, a2

MCExchange == {e1, e2}
MCStates == {s1, s2}
MCAdapter == {a1, a2}
=============================================================================
