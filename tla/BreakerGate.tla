---------------------------- MODULE BreakerGate ----------------------------
(***************************************************************************)
(* What a circuit breaker promises, whatever the calls behind it do: once  *)
(* open it stays open until Recovery ticks have passed since it last       *)
(* opened, then lets calls probe the platform, and only a probing breaker  *)
(* closes.                                                                 *)
(***************************************************************************)
EXTENDS Naturals

CONSTANT Recovery   \* recovery_timeout, in ticks

VARIABLES gate, since

Init == gate = "closed" /\ since = 0

Trip ==
  /\ gate' = "open" /\ since' = 0

Tick ==
  /\ gate = "open" /\ since < Recovery
  /\ since' = since + 1
  /\ UNCHANGED gate

Probe ==
  /\ gate = "open" /\ since = Recovery
  /\ gate' = "half_open"
  /\ UNCHANGED since

Close ==
  /\ gate = "half_open"
  /\ gate' = "closed" /\ since' = 0

Next == Trip \/ Tick \/ Probe \/ Close

Spec == Init /\ [][Next]_<<gate, since>>
=============================================================================
