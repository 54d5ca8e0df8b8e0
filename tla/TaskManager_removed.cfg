SPECIFICATION Spec
CONSTANTS
  Tasks = {t1}
  Workers = {w1}
  Clients = {c1}
  Persister = persister
  NoTask = none
  LoadsStore = TRUE
  Kinds = {"fts"}
  StoreFails = FALSE
  MaxRequeues = 0
  MaxBoots = 1
PROPERTY
  RemovedStaysRemoved
CHECK_DEADLOCK FALSE
