SPECIFICATION SystemSpec
CONSTANTS
  Requests = {r1, r2}
  Objects <- MCObjects
  CorrIds = {c1, c2}
  Addresses = {a1, a2}
  MaxRestarts = 1
  CompressMsgs <- MCCompressMsgs
  DecompressMsgs <- MCDecompressMsgs
  BadMsgs = {}
  MaxTag = 3
  MaxCloses = 1
  Empty = Empty
  NoObject = NoObject
  NoWant = NoWant
  NoEntry = NoEntry
  NoId = NoId
  NoAddr = NoAddr
  Malformed = Malformed
  NoDelivery = NoDelivery
SYMMETRY Symmetry
INVARIANT LostHasCause
PROPERTY ServerSpec
CHECK_DEADLOCK FALSE
