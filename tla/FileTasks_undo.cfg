SPECIFICATION FilesSpec
CONSTANTS
  Paths = {pa, pb}
  FileContents = {fa, fb}
  Empty = empty
  TaskWorkers = 2
  Handlers = {h1}
  MaxFileTasks = 2
PROPERTIES UndoRemovesItsCopy
CHECK_DEADLOCK FALSE
