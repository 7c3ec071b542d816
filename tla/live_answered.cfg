SPECIFICATION FairSpec
CONSTANTS
  s1 = s1
  s2 = s2
  b1 = b1
  b2 = b2
  r1 = r1
  Socket <- MCPair
  Build <- MCBuilds
  Rerank <- NoRerank
  Delay = 2
CHECK_DEADLOCK FALSE
PROPERTY ConnectAnswered
