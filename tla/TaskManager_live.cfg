SPECIFICATION FairSpec
CONSTANTS
  Tasks = {t1}
  Workers = {w1}
  Clients = {c1}
  Persister = persister
  NoTask = none
  LoadsStore = TRUE
  Kinds = {"fts"}
  StoreFails = FALSE
  MaxRequeues = 1
  MaxBoots = 0
PROPERTIES
  QueuedIsServed
  CancelResolves
  StopReturns
CHECK_DEADLOCK FALSE
