-------------------------- MODULE MCPlatformCalls --------------------------
(* Instances of PlatformCalls for TLC: a few calls that overlap.           *)
EXTENDS PlatformCalls

CONSTANTS c1, c2, c3
MCCall == {c1, c2, c3}
=============================================================================
