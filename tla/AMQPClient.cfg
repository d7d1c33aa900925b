SPECIFICATION Spec
CONSTANTS
  Requests = {r1, r2}
  Objects <- MCObjects
  CorrIds = {c1, c2}
  Addresses = {a1, a2}
  MaxRestarts = 1
  Empty = Empty
  NoObject = NoObject
  NoWant = NoWant
  NoEntry = NoEntry
  NoId = NoId
  NoAddr = NoAddr
  Malformed = Malformed
SYMMETRY Symmetry
INVARIANTS
  TypeOK
  OwnContent
  EachOnItsOwn
PROPERTY LostStaysLost
CHECK_DEADLOCK FALSE
