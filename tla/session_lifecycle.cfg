SPECIFICATION FairSpec
CONSTANTS
  q1 = q1
  q2 = q2
  q3 = q3
  ann = ann
  bob = bob
  song1 = song1
  song2 = song2
  silence = silence
  Requests = {q1, q2, q3}
  Users = {ann, bob}
  Codes = {code1, code2, code3}
  Tracks = {song1, song2, silence}
  Jam = jam
  Host = ann
  Mixes <- MCMixes
  PoolSize = 2
  Queues <- MCQueues
  Orders <- MCOrders
  Duration <- MCDuration
  Limit = 5
  Half = 50
  Pcts = {49, 50}
  MaxAttempts = 3
INVARIANTS TypeOK CodesDistinct OneParticipation FillsLimit
PROPERTIES ClosedForGood ExportsListens RequestsEnd
CHECK_DEADLOCK FALSE
