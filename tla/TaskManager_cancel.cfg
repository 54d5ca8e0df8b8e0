SPECIFICATION FairSpec
CONSTANTS
  Tasks = {t1}
  Workers = {w1}
  Clients = {c1}
  Persister = persister
  NoTask = none
  LoadsStore = FALSE
  Kinds = {"crypt"}
  StoreFails = FALSE
  MaxRequeues = 0
  MaxBoots = 0
PROPERTY
  CancelEnds
CHECK_DEADLOCK FALSE
