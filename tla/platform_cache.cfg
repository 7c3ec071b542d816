SPECIFICATION FairSpec
CONSTANTS
  Readers = {r1, r2}
  r1 = r1
  r2 = r2
  genrePage = genrePage
  pl1 = pl1
  art1 = art1
  art2 = art2
  art3 = art3
  Mixes <- MCMixes
  Saved <- MCSaved
  Pages <- MCPages
  Listed <- MCListed
  Artists <- MCArtists
  Slots = 2
  TopTtl = 1
  DayTtl = 2
  CallTime = 1
  MaxFailures = 1
INVARIANTS TypeOK AnswersFresh PartialWithinADay
CHECK_DEADLOCK TRUE
PROPERTY Recovers
