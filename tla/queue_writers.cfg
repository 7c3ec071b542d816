SPECIFICATION Spec
CONSTANTS
  Member <- MCMember
  Track <- MCTrack
  Song <- MCSong
  Library <- MCLibrary
  Score <- MCScore
  LastDna = 1
  Top = 2
  Size = 2
  Task <- MCTask
  t1 = t1
  t2 = t2
  t3 = t3
  t4 = t4
  May <- MayAny
  Host = "host"
  HostTrack <- MCHostTrack
  Public <- MCPublic
  NoRow = NoRow
SYMMETRY RequestSymmetry
INVARIANTS TypeOK CleanQueue EventsSurvive OneCandidatePerKey WaitsEnd
PROPERTIES CurrentKept SkippedGone
