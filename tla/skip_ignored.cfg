SPECIFICATION Spec
CONSTANTS
  Member <- MCMember
  Track <- MCTrack
  Song <- MCSong
  Library <- MCLibrary
  Score <- MCScore
  LastDna = 1
  Top = 2
  Size = 2
  Task <- MCTask
  t1 = t1
  t2 = t2
  t3 = t3
  t4 = t4
  May <- MaySkips
  Host = "host"
  HostTrack <- MCHostTrack
  Public <- NoPublic
  NoRow = NoRow
PROPERTY SkipTakesEffect
