SPECIFICATION Spec
CONSTANTS
  Calls = {c1}
  Deactivators = {d1}
  Nobody = nobody
  IdleTimeout = TRUE
  Overruns = FALSE
INVARIANT CallFindsService
CHECK_DEADLOCK FALSE
