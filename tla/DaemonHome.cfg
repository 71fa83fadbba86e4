SPECIFICATION HomeSpec
CONSTANTS
  Procs = {"p", "q"}
  Writers = {"p", "q"}
  MaxStarts = 3
  MaxFiles = 1
  MaxFileSize = 3
  Bare = {2, 3}
  MaxLines = 5
  MaxTime = 3
INVARIANTS OneDaemon LogKept
PROPERTIES StaleIsReplaced
CHECK_DEADLOCK FALSE
