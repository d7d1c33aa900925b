SPECIFICATION FairSpec
CONSTANTS
  CompressMsgs = {m1, m2}
  DecompressMsgs = {n1, n2}
  BadMsgs = {m2, n2}
  MaxTag = 5
  MaxCloses = 2
  NoDelivery = NoDelivery
INVARIANTS
  TypeOK
  GoneOnlyAfterHandling
  AnswersKnownTag
  ResponseBeforeAck
  RepeatsNeedLoss
PROPERTY DeliveriesAnswered
CHECK_DEADLOCK FALSE
