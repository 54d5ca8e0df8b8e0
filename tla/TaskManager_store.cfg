SPECIFICATION Spec
CONSTANTS
  Tasks = {t1}
  Workers = {w1}
  Clients = {c1}
  Persister = persister
  NoTask = none
  LoadsStore = TRUE
  Kinds = {"crypt", "file", "fts"}
  StoreFails = TRUE
  MaxRequeues = 1
  MaxBoots = 1
INVARIANTS
  TypeOK
  RunningIsOwned
  CancellingIsOwned
  NoFalseSuccess
CHECK_DEADLOCK FALSE
