SPECIFICATION PartsSpec
CONSTANTS
  Devices = {d1}
  Requests = {r1, r2}
  NoDevice = nodevice
  MaxTickets = 2
  MaxExpired = 1
  MaxTokens = 2
  MaxHubBoots = 1
  Callers = {c1}
  CallIds = {k1}
  Destructive = {k1}
  MaxInFlight = 1
  Edges = {1, 2}
  MaxFrames = 2
  MaxConns = 2
  LRequests = {r1, r2}
  Kinds = {"search", "agent", "file", "push", "rollback"}
  CallLimit = 2
  Quotas = {1, 2}
  MaxChunk = 1
  Window = 2
  Threshold = 2
  Cooldown = 2
  MaxTime = 3
  Installers = {i1, i2}
  Versions = {v1, v2, v3}
  Nothing = nothing
  Partial = partial
  BundleKinds = {"dir", "file"}
  MaxDeaths = 2
  HReaders = {r1, r2}
  HFragments = {g1, g2}
  NoReader = noreader
  MaxHandles = 3
  Paths = {pa, pb}
  FileContents = {fa, fb}
  Empty = empty
  TaskWorkers = 2
  Handlers = {h1}
  MaxFileTasks = 2
  MaxBytes = 4
  MaxPieces = 2
  SegSize = 2
  BlockSize = 2
  Loops = {l1, l2}
  MaxCalls = 2
  MaxTurns = 2
  MaxQueued = 1
SYMMETRY PartsSymmetry
INVARIANTS
  OneDevicePerTicket
  SpentStaysSpent
  AnsweredPeersStay
  SlotsAreExact
  ToolRunsOnce
  AnswersAreEarned
  WaitersHaveARunner
  WindowsAreBounded
  
  OneVersionSurvives
  UsesAreExact
  
  TrashIsListed
  ReadsAreRight
  DamageIsReported
  
PROPERTIES
  NewestIsKept
  
  
CHECK_DEADLOCK FALSE
