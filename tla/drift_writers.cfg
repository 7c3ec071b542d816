SPECIFICATION Spec
CONSTANTS
  jam1 = jam1
  jam2 = jam2
  jam3 = jam3
  host = host
  guest = guest
  Sessions = {jam2}
  Owners = {host, guest}
  Picks <- MCPicks
  Created <- MCCreated
  NoSession = none
  Last = 2
  StepTime = 1
  MaxNow = 2
  MaxErrors = 1
  MaxRestarts = 0
INVARIANTS TypeOK RankedWhenSettled
PROPERTY ForwardOnly
SYMMETRY MCSymmetry
CHECK_DEADLOCK TRUE
