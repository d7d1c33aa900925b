SPECIFICATION Spec
CONSTANTS
  Keys = {k1, k2}
  Calls = {c1, c2}
  Paths = {p1, p2}
  TTL = 1
  Timeout = 2
  MaxTime = 4
  NoKey = NoKey
  NoPath = NoPath
  NoCall = NoCall
  NoFile = NoFile
  Empty = Empty
INVARIANT RemovesOnlyExpired
CHECK_DEADLOCK FALSE
