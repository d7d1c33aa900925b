SPECIFICATION FairSpec
CONSTANT MaxStarts = 3
INVARIANT ConsumedIsHandled
PROPERTY LossIsNoticed
CHECK_DEADLOCK FALSE
