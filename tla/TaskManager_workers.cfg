SPECIFICATION Spec
CONSTANTS
  Tasks = {t1}
  Workers = {w1, w2}
  Clients = {c1, c2}
  Persister = persister
  NoTask = none
  LoadsStore = FALSE
  Kinds = {"crypt", "fts"}
  StoreFails = FALSE
  MaxRequeues = 1
  MaxBoots = 0
SYMMETRY Symmetry
PROPERTY
  ImplementsWorkQueue
CHECK_DEADLOCK FALSE
