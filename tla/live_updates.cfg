SPECIFICATION Spec
CONSTANTS
  s1 = s1
  s2 = s2
  b1 = b1
  b2 = b2
  r1 = r1
  Socket <- MCPair
  Build <- MCBuilds
  Rerank <- MCRerank
  Delay = 2
CHECK_DEADLOCK FALSE
SYMMETRY PairSymmetry
INVARIANTS TypeOK ServedRegistered
PROPERTIES EveryoneTold BuildsApart
