SPECIFICATION FairSpec
CONSTANTS
  c1 = c1
  c2 = c2
  c3 = c3
  Call <- MCCall
  Threshold = 3
  Recovery = 2
  MaxAttempts = 3
INVARIANTS TypeOK ClosedBelowThreshold
PROPERTIES GateKept Recovers
