SPECIFICATION FairSpec
CONSTANTS
  e1 = e1
  e2 = e2
  s1 = s1
  s2 = s2
  a1 = a1
  a2 = a2
  Exchange <- MCExchange
  State <- MCStates
  Adapter <- MCAdapter
  MaxLinks = 3
  None = None
CHECK_DEADLOCK FALSE
INVARIANTS TypeOK TokensPaired
PROPERTIES SettledStays SpotifyRecovers
