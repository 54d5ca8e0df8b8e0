SPECIFICATION Spec
CONSTANTS
  Jobs = {j1}
  Workers = {w1}
  NoJob = none
  QueueSize = 1
  MaxRetry = 1
  HasTimeout = FALSE
  UserCancels = FALSE
  MaxStarts = 1
INVARIANT NoSendOnClosed
CHECK_DEADLOCK FALSE
