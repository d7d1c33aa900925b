SPECIFICATION FairSpec
CONSTANTS
  Requests = {r1, r2}
  WaitTimeout = 10
  WriteTimeout = 7
  ShutdownTimeout = 1
INVARIANT CutHasCause
PROPERTY FailureEndsProcess
CHECK_DEADLOCK FALSE
