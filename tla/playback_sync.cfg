SPECIFICATION Spec
CONSTANTS
  t1 = t1
  t2 = t2
  trackA = trackA
  trackB = trackB
  trackC = trackC
  Task <- MCTask
  Track <- MCTrack
  MaxQueue = 3
  MaxNative = 4
  Nothing = Nothing
CHECK_DEADLOCK FALSE
SYMMETRY MCSymmetry
INVARIANTS TypeOK StartsCurrent
PROPERTY UndisturbedSync
