SPECIFICATION FairSpec
CONSTANTS
  jam1 = jam1
  jam2 = jam2
  jam3 = jam3
  host = host
  guest = guest
  Sessions = {jam1, jam2, jam3}
  Owners = {}
  Picks <- MCPicks
  Created <- MCCreated
  NoSession = none
  Last = 2
  StepTime = 2
  MaxNow = 5
  MaxErrors = 1
  MaxRestarts = 1
INVARIANT OnSchedule
PROPERTIES CatchesUp ClientsTold
CHECK_DEADLOCK TRUE
