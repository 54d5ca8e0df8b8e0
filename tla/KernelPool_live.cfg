SPECIFICATION FairSpec
CONSTANTS
  Jobs = {j1}
  Workers = {w1}
  NoJob = none
  QueueSize = 1
  MaxRetry = 1
  HasTimeout = TRUE
  UserCancels = TRUE
  MaxStarts = 2
INVARIANTS
  TypeOK
  EndIsEarned
  OneEnvelope
PROPERTIES
  HeldJobEnds
  StopReturns
CHECK_DEADLOCK FALSE
