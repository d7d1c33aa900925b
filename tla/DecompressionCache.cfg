SPECIFICATION FairSpec
CONSTANTS
  Keys = {k1, k2}
  Calls = {c1, c2}
  Paths = {p1, p2}
  TTL = 1
  Timeout = 2
  MaxTime = 4
  NoKey = NoKey
  NoPath = NoPath
  NoCall = NoCall
  NoFile = NoFile
  Empty = Empty
INVARIANTS
  TypeOK
  RemovalInRange
  OneObjectPerKey
  CallContent
  FinishedJobVisible
PROPERTIES
  CallReturns
  ObjectsExpire
CHECK_DEADLOCK FALSE
