SPECIFICATION FairSpec
CONSTANTS
  Requests = {r1, r2}
  Objects <- MCObjects
  CorrIds = {c1, c2}
  Addresses = {a1, a2}
  MaxRestarts = 0
  Empty = Empty
  NoObject = NoObject
  NoWant = NoWant
  NoEntry = NoEntry
  NoId = NoId
  NoAddr = NoAddr
  Malformed = Malformed
PROPERTY OkMeansTriggered
CHECK_DEADLOCK FALSE
