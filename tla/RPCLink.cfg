SPECIFICATION FairSpec
CONSTANTS
  Peers = {p1}
  Messages = {m1, m2}
  Attempts = 2
  MaxLosses = 3
INVARIANTS
  PanicNeedsShutdown
  ConsumerAccounted
  DownStaysDown
PROPERTIES
  LossIsHandled
  ShutdownEndsConsumer
CHECK_DEADLOCK FALSE
